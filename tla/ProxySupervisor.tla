--------------------------- MODULE ProxySupervisor ---------------------------
(***************************************************************************)
(* The proxies that a program runs for its user: an instance is configured  *)
(* with a port and either the built-in proxy, a task of the program, or a   *)
(* binary, a child process.  Daemon: http_api/proxy.rs; application: the    *)
(* same commands in commands.rs, and start_proxy, stop_proxy for the two    *)
(* proxies it always had, which are instances of the built-in kind that     *)
(* nobody adds or deletes.                                                  *)
(*                                                                          *)
(* Commands run concurrently.  Each takes its locks one at a time, so that  *)
(* a command is several steps here.  A probe looks at all the instances;    *)
(* here each instance has a probe of its own.  What a proxy does with its   *)
(* requests is in ProxyRequest.  Uptimes and requests counts are left out.  *)
(***************************************************************************)
EXTENDS Integers, FiniteSets

CONSTANTS
    Ids,          \* ids of instances
    Ports,        \* ports on this machine
    Commands,     \* callers that may have a command in progress
    Programs,     \* the programs to look at: "application", "daemon"
    NoConfig,     \* an id that is not configured
    Idle,         \* a caller without a command
    MaxCommands,  \* bound: commands begun
    MaxRuntimes,  \* bound: ProxyInstanceRuntime objects
    MaxRuns,      \* bound: tasks and child processes
    MaxFlips      \* bound: times a proxy of somebody else comes or goes

ASSUME SupervisorBoundsAssumption ==
    /\ MaxCommands \in Nat /\ MaxRuns \in Nat /\ MaxFlips \in Nat
    /\ Ids # {} /\ IsFiniteSet(Ids) /\ MaxRuntimes \in Nat /\ Cardinality(Ids) <= MaxRuntimes
ASSUME SupervisorNamesAssumption ==
    /\ Programs \subseteq {"application", "daemon"}
    /\ NoConfig \notin [port : Ports, external : BOOLEAN]

Runtimes == 1 .. MaxRuntimes
Runs == 1 .. MaxRuns
None == 0

VARIABLES
    program,
    config,    \* config.proxy.instances
    entry,     \* proxy_instances: the runtime object of each instance
    status,    \* ProxyInstanceRuntime::status of each runtime object
    task,      \* its task_handle
    child,     \* its child_process
    runs,      \* the tasks and processes started so far
    job,       \* the command that each caller has in progress
    others,    \* ports on which somebody else's proxy answers
    objects,   \* runtime objects made
    crossed,   \* history: instances on which a command met another, or a task on its way
    begun, flips

slotVars == <<task, child>>
supervisorVars == <<program, config, entry, status, task, child, runs, job, others,
                    objects, crossed, begun, flips>>

Config == [port : Ports, external : BOOLEAN]
Status == [running : BOOLEAN, port : Ports, backend : BOOLEAN]

\* at: "queued" until the task first runs, "starting" until the process listens.
Run == [kind : {"task", "child"}, of : Ids, rt : Runtimes, port : Ports, aborted : BOOLEAN,
        at : {"queued", "binding", "starting", "serving", "ending", "gone"}]

Job == [op : {"start", "stop", "restart", "delete", "probe", "add"}, id : Ids,
        at : {"look", "launch", "store", "kill", "mark", "remove", "forget", "ask", "write", "enter"},
        rt : Runtimes \cup {None}, cfg : Config \cup {NoConfig}, run : Runs \cup {None},
        seen : BOOLEAN]

ASSUME SupervisorIdleAssumption == Idle \notin Job

SupervisorTypeOK ==
    /\ program \in Programs
    /\ config \in [Ids -> Config \cup {NoConfig}]
    /\ entry \in [Ids -> Runtimes \cup {None}]
    /\ status \in [Runtimes -> Status]
    /\ task \in [Runtimes -> Runs \cup {None}]
    /\ child \in [Runtimes -> Runs \cup {None}]
    /\ DOMAIN runs = 1 .. Cardinality(DOMAIN runs) /\ DOMAIN runs \subseteq Runs
    /\ \A r \in DOMAIN runs : runs[r] \in Run
    /\ job \in [Commands -> Job \cup {Idle}]
    /\ \A c \in Commands : job[c] # Idle =>
          /\ job[c].at \in {"launch", "store", "mark"} => job[c].rt # None
          /\ job[c].at \in {"launch", "ask", "write", "enter"} => job[c].cfg # NoConfig
    /\ others \subseteq Ports
    /\ objects \in 0 .. MaxRuntimes /\ crossed \subseteq Ids
    /\ begun \in 0 .. MaxCommands /\ flips \in 0 .. MaxFlips

\* The start of the program: a runtime object for every configured instance.
SupervisorInit ==
    /\ program \in Programs
    /\ config \in [Ids -> Config]
    /\ entry \in {e \in [Ids -> 1 .. Cardinality(Ids)] : \A i, j \in Ids : e[i] = e[j] => i = j}
    /\ status = [o \in Runtimes |->
          [running |-> FALSE, backend |-> FALSE,
           port |-> CHOOSE q \in Ports : \A i \in Ids : entry[i] = o => q = config[i].port]]
    /\ task = [o \in Runtimes |-> None] /\ child = [o \in Runtimes |-> None]
    /\ runs = <<>>
    /\ job = [c \in Commands |-> Idle]
    /\ others = {}
    /\ objects = Cardinality(Ids)
    /\ crossed = {} /\ begun = 0 /\ flips = 0

-----------------------------------------------------------------------------
(* The tasks and processes.                                                 *)

InProgress(i) == {c \in Commands : job[c] # Idle /\ job[c].id = i}

OnItsWay(r) == runs[r].kind = "task" /\ runs[r].at \in {"queued", "binding", "ending"}

Busy(i) == InProgress(i) # {} \/ \E r \in DOMAIN runs : runs[r].of = i /\ OnItsWay(r)

Taken(q) == q \in others \/ \E r \in DOMAIN runs : runs[r].at = "serving" /\ runs[r].port = q

To(r, at) == runs' = [runs EXCEPT ![r].at = at]

RunOnly == UNCHANGED <<program, config, entry, slotVars, job, others, objects, crossed, begun,
                       flips>>

\* The task runs for the first time: it says that it runs, then starts the server.
TaskBegins(r) ==
    /\ runs[r].at = "queued" /\ ~runs[r].aborted
    /\ status' = [status EXCEPT ![runs[r].rt].running = TRUE, ![runs[r].rt].port = runs[r].port]
    /\ To(r, "binding")
    /\ RunOnly

\* server::start binds the port; an aborted task ends where it would wait for requests.
Bind(r) ==
    /\ runs[r].at = "binding"
    /\ To(r, IF Taken(runs[r].port) THEN "ending" ELSE IF runs[r].aborted THEN "gone" ELSE "serving")
    /\ UNCHANGED status /\ RunOnly

\* POST /_proxy/shutdown.
Shutdown(r) ==
    /\ runs[r].kind = "task" /\ runs[r].at = "serving" /\ ~runs[r].aborted
    /\ To(r, "ending")
    /\ crossed' = IF InProgress(runs[r].of) = {} THEN crossed ELSE crossed \cup {runs[r].of}
    /\ UNCHANGED <<program, config, entry, status, slotVars, job, others, objects, begun, flips>>

\* The server has returned, whether in error or not.
TaskEnds(r) ==
    /\ runs[r].at = "ending"
    /\ status' = [status EXCEPT ![runs[r].rt].running = FALSE]
    /\ To(r, "gone")
    /\ RunOnly

\* An aborted task is dropped where it waits, some time after abort.
Dropped(r) ==
    /\ runs[r].aborted /\ runs[r].at \in {"queued", "serving"}
    /\ To(r, "gone")
    /\ UNCHANGED status /\ RunOnly

\* A child process listens, or cannot and exits.
ChildListens(r) ==
    /\ runs[r].at = "starting"
    /\ To(r, IF Taken(runs[r].port) THEN "gone" ELSE "serving")
    /\ UNCHANGED status /\ RunOnly

ChildExits(r) ==
    /\ runs[r].kind = "child" /\ runs[r].at = "serving"
    /\ To(r, "gone")
    /\ UNCHANGED status /\ RunOnly

-----------------------------------------------------------------------------
(* Commands: the beginning, and the steps of a start.                       *)

FirstStep == [start |-> "look", stop |-> "kill", restart |-> "kill", delete |-> "kill",
              probe |-> "ask"]

Start(c, op, i) ==
    /\ job[c] = Idle
    /\ begun < MaxCommands
    /\ begun' = begun + 1
    /\ crossed' = IF Busy(i) THEN crossed \cup {i} ELSE crossed
    /\ job' = [job EXCEPT ![c] = [op |-> op, id |-> i, at |-> FirstStep[op], rt |-> None,
                                  cfg |-> config[i], run |-> None, seen |-> FALSE]]
    /\ op = "probe" => config[i] # NoConfig
    /\ UNCHANGED <<program, config, entry, status, slotVars, runs, others, objects, flips>>

Doing(c, at) == job[c] # Idle /\ job[c].at = at

Done(c) == job' = [job EXCEPT ![c] = Idle]

CommandOnly == UNCHANGED <<program, others, crossed, begun, flips>>

LookUnguarded(c) ==
    /\ Doing(c, "look")
    /\ LET i == job[c].id IN
       IF config[i] = NoConfig THEN Done(c)
       ELSE job' = [job EXCEPT ![c].at = "launch", ![c].rt = entry[i], ![c].cfg = config[i]]
    /\ UNCHANGED <<config, entry, status, slotVars, runs, objects>> /\ CommandOnly

\* start_instance_by_id: the configuration, the runtime object and its status.
Look(c) ==
    /\ Doing(c, "look")
    /\ LET i == job[c].id IN
       IF config[i] = NoConfig \/ entry[i] = None THEN Done(c)
       ELSE IF status[entry[i]].running THEN Done(c)
       ELSE job' = [job EXCEPT ![c].at = "launch", ![c].rt = entry[i], ![c].cfg = config[i]]
    /\ UNCHANGED <<config, entry, status, slotVars, runs, objects>> /\ CommandOnly

NewRun(c, kind, at) ==
    LET r == Cardinality(DOMAIN runs) + 1 IN
    /\ r \in Runs
    /\ runs' = [s \in 1 .. r |-> IF s < r THEN runs[s]
                  ELSE [kind |-> kind, of |-> job[c].id, rt |-> job[c].rt,
                        port |-> job[c].cfg.port, aborted |-> FALSE, at |-> at]]
    /\ job' = [job EXCEPT ![c].at = "store", ![c].run = r]

LaunchTask(c) ==
    /\ Doing(c, "launch") /\ ~job[c].cfg.external
    /\ NewRun(c, "task", "queued")
    /\ UNCHANGED <<config, entry, status, slotVars, objects>> /\ CommandOnly

\* The process is there and the instance said to run before its handle is stored.
LaunchChild(c) ==
    /\ Doing(c, "launch") /\ job[c].cfg.external
    /\ NewRun(c, "child", "starting")
    /\ status' = [status EXCEPT ![job[c].rt].running = TRUE, ![job[c].rt].port = job[c].cfg.port]
    /\ UNCHANGED <<config, entry, slotVars, objects>> /\ CommandOnly

\* validate_binary_path refuses the binary, or the system cannot run it.
LaunchFails(c) ==
    /\ Doing(c, "launch") /\ job[c].cfg.external
    /\ Done(c)
    /\ UNCHANGED <<config, entry, status, slotVars, runs, objects>> /\ CommandOnly

\* A handle that was there is dropped: its process goes on.
Store(c) ==
    /\ Doing(c, "store")
    /\ LET j == job[c] IN
       IF runs[j.run].kind = "task" THEN task' = [task EXCEPT ![j.rt] = j.run] /\ UNCHANGED child
       ELSE child' = [child EXCEPT ![j.rt] = j.run] /\ UNCHANGED task
    /\ Done(c)
    /\ UNCHANGED <<config, entry, status, runs, objects>> /\ CommandOnly

-----------------------------------------------------------------------------
(* Stop, restart, delete.                                                   *)

KillTaskOnly(o) ==
    /\ runs' = [r \in DOMAIN runs |->
           IF r = task[o] THEN [runs[r] EXCEPT !.aborted = TRUE] ELSE runs[r]]
    /\ task' = [task EXCEPT ![o] = None]
    /\ child' = [child EXCEPT ![o] = None]

\* The process is killed and waited for, the task told to end.
KillRuns(o) ==
    /\ runs' = [r \in DOMAIN runs |->
           IF r = child[o] THEN [runs[r] EXCEPT !.at = "gone"]
           ELSE IF r = task[o] THEN [runs[r] EXCEPT !.aborted = TRUE] ELSE runs[r]]
    /\ task' = [task EXCEPT ![o] = None]
    /\ child' = [child EXCEPT ![o] = None]

\* stop_instance_by_id, which is also the first half of a restart.
Kill(c) ==
    /\ Doing(c, "kill") /\ job[c].op \in {"stop", "restart"}
    /\ LET o == entry[job[c].id] IN
       IF o = None THEN Done(c) /\ UNCHANGED <<runs, slotVars>>
       ELSE KillRuns(o) /\ job' = [job EXCEPT ![c].at = "mark", ![c].rt = o]
    /\ UNCHANGED <<config, entry, status, objects>> /\ CommandOnly

Mark(c) ==
    /\ Doing(c, "mark")
    /\ status' = [status EXCEPT ![job[c].rt].running = FALSE]
    /\ IF job[c].op = "restart" THEN job' = [job EXCEPT ![c].at = "look"] ELSE Done(c)
    /\ UNCHANGED <<config, entry, slotVars, runs, objects>> /\ CommandOnly

\* delete_instance kills like a stop, and leaves the status of the object alone.
KillForDelete(c) ==
    /\ Doing(c, "kill") /\ job[c].op = "delete"
    /\ LET o == entry[job[c].id] IN
       IF o = None THEN UNCHANGED <<runs, slotVars>> ELSE KillRuns(o)
    /\ job' = [job EXCEPT ![c].at = "remove"]
    /\ UNCHANGED <<config, entry, status, objects>> /\ CommandOnly

\* Whoever has the map of runtime objects locked for reading: a stop, and a start of
\* the application.
HoldsMap(c) ==
    \/ Doing(c, "mark")
    \/ program = "application" /\ (Doing(c, "launch") \/ Doing(c, "store"))

Remove(c) ==
    /\ Doing(c, "remove")
    /\ \A d \in Commands : ~HoldsMap(d)
    /\ entry' = [entry EXCEPT ![job[c].id] = None]
    /\ job' = [job EXCEPT ![c].at = "forget"]
    /\ UNCHANGED <<config, status, slotVars, runs, objects>> /\ CommandOnly

Forget(c) ==
    /\ Doing(c, "forget")
    /\ config' = [config EXCEPT ![job[c].id] = NoConfig]
    /\ Done(c)
    /\ UNCHANGED <<entry, status, slotVars, runs, objects>> /\ CommandOnly

-----------------------------------------------------------------------------
(* Add, update, probe.                                                      *)

\* add_instance: the configuration, and a runtime object when that could be saved.
AddInstance(c, i, cfg) ==
    /\ job[c] = Idle
    /\ begun < MaxCommands
    /\ begun' = begun + 1
    /\ config[i] = NoConfig
    /\ crossed' = IF Busy(i) THEN crossed \cup {i} ELSE crossed
    /\ config' = [config EXCEPT ![i] = cfg]
    /\ job' = [job EXCEPT ![c] = [op |-> "add", id |-> i, at |-> "enter", rt |-> None, cfg |-> cfg,
                                  run |-> None, seen |-> FALSE]]
    /\ UNCHANGED <<program, entry, status, slotVars, runs, others, objects, flips>>

NotSaved(c) ==
    /\ Doing(c, "enter")
    /\ Done(c)
    /\ UNCHANGED <<config, entry, status, slotVars, runs, objects>> /\ CommandOnly

EnterInstance(c) ==
    /\ Doing(c, "enter")
    /\ objects < MaxRuntimes
    /\ \A d \in Commands : ~HoldsMap(d)
    /\ objects' = objects + 1
    /\ entry' = [entry EXCEPT ![job[c].id] = objects + 1]
    /\ status' = [status EXCEPT ![objects + 1] =
                     [running |-> FALSE, port |-> job[c].cfg.port, backend |-> FALSE]]
    /\ Done(c)
    /\ UNCHANGED <<config, slotVars, runs>> /\ CommandOnly

\* update_instance: whatever runs goes on as it was.
UpdateInstance(i, cfg) ==
    /\ begun < MaxCommands
    /\ begun' = begun + 1
    /\ config[i] # NoConfig
    /\ config' = [config EXCEPT ![i] = cfg]
    /\ UNCHANGED <<program, entry, status, slotVars, runs, job, others, objects, crossed, flips>>

\* probe_instances leaves an instance alone that has a handle.
Ask(c) ==
    /\ Doing(c, "ask")
    /\ LET o == entry[job[c].id] IN
       IF o # None /\ (task[o] # None \/ child[o] # None) THEN Done(c)
       ELSE job' = [job EXCEPT ![c].at = "write", ![c].seen = Taken(job[c].cfg.port)]
    /\ UNCHANGED <<config, entry, status, slotVars, runs, objects>> /\ CommandOnly

\* The answers are written when all are there, to the objects of that moment.  In the
\* application an instance that no longer answers goes on to be shown as running.
WriteAnswer(c) ==
    /\ Doing(c, "write")
    /\ LET j == job[c]  o == entry[j.id] IN
       status' =
         IF o = None THEN status
         ELSE IF j.seen THEN [status EXCEPT ![o] = [running |-> TRUE, port |-> j.cfg.port,
                                                    backend |-> TRUE]]
         ELSE IF program = "daemon" THEN [status EXCEPT ![o].running = FALSE, ![o].backend = FALSE]
         ELSE [status EXCEPT ![o].backend = @ /\ status[o].running]
    /\ Done(c)
    /\ UNCHANGED <<config, entry, slotVars, runs, objects>> /\ CommandOnly

\* Somebody else's proxy comes or goes.
Flip(q) ==
    /\ flips < MaxFlips
    /\ flips' = flips + 1
    /\ q \in others \/ ~Taken(q)
    /\ others' = IF q \in others THEN others \ {q} ELSE others \cup {q}
    /\ UNCHANGED <<program, config, entry, status, slotVars, runs, job, objects, crossed, begun>>

RunStep(r) ==
    \/ TaskBegins(r) \/ Bind(r) \/ Shutdown(r) \/ TaskEnds(r) \/ Dropped(r)
    \/ ChildListens(r) \/ ChildExits(r)

CommandStep(c) ==
    \/ Look(c) \/ LaunchTask(c) \/ LaunchChild(c) \/ LaunchFails(c) \/ Store(c)
    \/ Kill(c) \/ Mark(c) \/ KillForDelete(c) \/ Remove(c) \/ Forget(c) \/ Ask(c) \/ WriteAnswer(c)
    \/ NotSaved(c) \/ EnterInstance(c)

SupervisorNext ==
    \/ \E r \in DOMAIN runs : RunStep(r)
    \/ \E c \in Commands :
          \/ CommandStep(c)
          \/ \E op \in DOMAIN FirstStep, i \in Ids : Start(c, op, i)
          \/ \E i \in Ids, cfg \in Config : AddInstance(c, i, cfg)
    \/ \E i \in Ids, cfg \in Config : UpdateInstance(i, cfg)
    \/ \E q \in Ports : Flip(q)

SupervisorSpec == SupervisorInit /\ [][SupervisorNext]_supervisorVars

-----------------------------------------------------------------------------
(* Properties.                                                              *)

Alive(r) == runs[r].at # "gone" /\ ~runs[r].aborted

\* Some command can still find the run: its handle is in the object of an instance, or
\* about to be put there.
Reachable(r) ==
    \/ \E i \in Ids : entry[i] = runs[r].rt /\ r \in {task[entry[i]], child[entry[i]]}
    \/ \E c \in Commands : Doing(c, "store") /\ job[c].run = r
    \/ OnItsWay(r)

\* Commands that come one after the other leave no proxy behind: whatever was started
\* can be stopped, and while it answers it is shown as running, on its port, whatever
\* was probed, changed, stopped, deleted or added again meanwhile, and whatever ended
\* by itself or found its port taken.
Accounted ==
    \A r \in DOMAIN runs : Alive(r) /\ runs[r].of \notin crossed =>
        /\ Reachable(r)
        /\ runs[r].at = "serving" =>
              status[runs[r].rt].running /\ status[runs[r].rt].port = runs[r].port
=============================================================================
