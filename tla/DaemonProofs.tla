------------------------------ MODULE DaemonProofs ------------------------------
(***************************************************************************)
(* What the PID file tells, for any number of daemons; what the           *)
(* leading-edge debounce of their file watcher can cost, for any number of *)
(* machines, any DEBOUNCE_MS and any delay of the announcements; and whom  *)
(* the application tells of the accounts' quotas, for any list of webhooks.*)
(***************************************************************************)
EXTENDS Daemon, Watchdog, QuotaVelocity, TLAPS

-----------------------------------------------------------------------------
(* The PID file.                                                           *)


\* What is used of the types.
LifeTypeOK ==
    /\ pidFile \in Daemons \cup {NoPid}
    /\ at \in [Daemons -> {"none", "written", "loaded", "bound", "ready", "joining", "gone"}]
    /\ overlapped \in SUBSET Daemons
    /\ died \in SUBSET Daemons

\* Of daemons that run at the same time, every one is known to have overlapped.
TwoOverlap ==
    \A p, q \in Daemons : p # q /\ Alive(p) /\ Alive(q) => p \in overlapped

PidInv == LifeTypeOK /\ TwoOverlap /\ PidFileTells

\* Nobody runs at first, and there is no file.
LEMMA PidInvInit == DaemonInit => PidInv
  BY DEF DaemonInit, PidInv, LifeTypeOK, TwoOverlap, PidFileTells, Alive, SaysRunning

\* A step that leaves the PID file, the history and who is alive or gone as they are.
LEMMA Quiet ==
    ASSUME PidInv,
           UNCHANGED <<pidFile, overlapped, died>>,
           at' \in [Daemons -> {"none", "written", "loaded", "bound", "ready", "joining", "gone"}],
           \A p \in Daemons : Alive(p)' <=> Alive(p),
           \A p \in Daemons : at'[p] = "gone" <=> at[p] = "gone"
    PROVE  PidInv'
  BY DEF PidInv, LifeTypeOK, TwoOverlap, PidFileTells, SaysRunning

\* A step of one daemon from one stage to the next, which is not its last.
LEMMA QuietStage ==
    ASSUME PidInv, NEW p \in Daemons,
           NEW from \in {"written", "loaded", "bound", "ready"},
           NEW to \in {"loaded", "bound", "ready", "joining"},
           at[p] = from, at' = [at EXCEPT ![p] = to],
           UNCHANGED <<pidFile, overlapped, died>>
    PROVE  PidInv'
  <1>1. /\ at \in [Daemons -> {"none", "written", "loaded", "bound", "ready", "joining", "gone"}]
        /\ at' \in [Daemons -> {"none", "written", "loaded", "bound", "ready", "joining", "gone"}]
    BY DEF PidInv, LifeTypeOK
  <1>2. \A q \in Daemons : Alive(q)' <=> Alive(q)
    BY <1>1 DEF Alive
  <1>3. \A q \in Daemons : at'[q] = "gone" <=> at[q] = "gone"
    BY <1>1
  <1>. QED BY <1>1, <1>2, <1>3, Quiet

\* A daemon that was running is gone, and is noted to have died or leaves no file.
LEMMA ExitKeeps ==
    ASSUME PidInv, NEW p \in Daemons, Alive(p), Exit(p),
           \/ p \in died' /\ pidFile' = pidFile
           \/ pidFile' = NoPid,
           died' \in SUBSET Daemons, \A q \in died : q \in died'
    PROVE  PidInv'
  <1>1. /\ at' = [at EXCEPT ![p] = "gone"] /\ overlapped' = overlapped
        /\ at \in [Daemons -> {"none", "written", "loaded", "bound", "ready", "joining", "gone"}]
    BY DEF PidInv, LifeTypeOK, Exit
  <1>2. /\ \A q \in Daemons : Alive(q)' <=> (q # p /\ Alive(q))
        /\ \A q \in Daemons : at'[q] = "gone" <=> (q = p \/ at[q] = "gone")
    BY <1>1 DEF Alive
  <1>3. LifeTypeOK'
    BY <1>1 DEF PidInv, LifeTypeOK
  <1>4. TwoOverlap'
    BY <1>1, <1>2 DEF PidInv, TwoOverlap
  <1>5. PidFileTells'
    <2>1. ASSUME NEW q \in Daemons, q \notin overlapped', Alive(q)'
          PROVE  SaysRunning(q)'
      \* It ran alone, so that p is not another.
      BY <1>1, <1>2, <2>1 DEF PidInv, TwoOverlap, PidFileTells, SaysRunning
    <2>2. ASSUME NEW q \in Daemons, at'[q] = "gone", SaysRunning(q)'
          PROVE  q \in died'
      BY <1>1, <1>2, <2>2 DEF PidInv, PidFileTells, SaysRunning
    <2>. QED BY <2>1, <2>2 DEF PidFileTells
  <1>. QED BY <1>3, <1>4, <1>5 DEF PidInv

\* A daemon that dies is noted, and leaves the file as it is.
LEMMA DieKeeps ==
    ASSUME PidInv, NEW p \in Daemons, Alive(p), Exit(p),
           died' = died \cup {p}, pidFile' = pidFile
    PROVE  PidInv'
  <1>1. /\ p \in died' /\ died' \in SUBSET Daemons
        /\ \A q \in died : q \in died'
    BY DEF PidInv, LifeTypeOK
  <1>. QED BY <1>1, ExitKeeps

\* A daemon that starts takes the file, and is noted with whoever is running.
LEMMA StartKeeps ==
    ASSUME PidInv, NEW p \in Daemons, NEW o \in Configs[p], WritePidFile(p, o)
    PROVE  PidInv'
  <1>1. /\ at[p] = "none" /\ at' = [at EXCEPT ![p] = "written"]
        /\ pidFile' = p /\ died' = died
        /\ at \in [Daemons -> {"none", "written", "loaded", "bound", "ready", "joining", "gone"}]
        /\ overlapped \in SUBSET Daemons /\ died \in SUBSET Daemons
    BY DEF PidInv, LifeTypeOK, WritePidFile, Advance
  <1>2. /\ \A q \in Daemons : Alive(q)' <=> (q = p \/ Alive(q))
        /\ \A q \in Daemons : at'[q] = "gone" <=> at[q] = "gone"
    BY <1>1 DEF Alive
  <1>3. /\ overlapped' \in SUBSET Daemons
        /\ \A q \in Daemons : q \in overlapped => q \in overlapped'
        /\ \A q \in Daemons : q # p /\ Alive(q) => q \in overlapped' /\ p \in overlapped'
    BY <1>1 DEF WritePidFile, Others
  <1>4. LifeTypeOK'
    BY <1>1, <1>3 DEF LifeTypeOK
  <1>5. TwoOverlap'
    BY <1>2, <1>3 DEF PidInv, TwoOverlap
  <1>6. PidFileTells'
    BY <1>1, <1>2, <1>3, DaemonAssumption DEF PidFileTells, SaysRunning
  <1>. QED BY <1>4, <1>5, <1>6 DEF PidInv

\* A signal makes a daemon wait for its tasks, or kills it.
LEMMA TerminateKeeps ==
    ASSUME PidInv, NEW p \in Daemons, Terminate(p)
    PROVE  PidInv'
  <1>1. CASE at[p] = "ready"
    BY <1>1, QuietStage DEF Terminate
  <1>2. CASE at[p] # "ready"
    BY <1>2, DieKeeps DEF Terminate, Alive
  <1>. QED BY <1>1, <1>2

\* Every step keeps the invariant.
LEMMA StepKeeps ==
    ASSUME PidInv, [DaemonNext]_daemonVars
    PROVE  PidInv'
  <1>1. ASSUME NEW p \in Daemons, StartStep(p)
        PROVE  PidInv'
    <2>1. ASSUME NEW o \in Configs[p], WritePidFile(p, o)
          PROVE  PidInv'
      BY <2>1, StartKeeps
    <2>2. CASE LoadCredentials(p)
      BY <2>2, QuietStage DEF LoadCredentials, Advance
    <2>3. CASE StartBus(p)
      BY <2>3, QuietStage DEF StartBus, Advance
    <2>4. CASE SpawnTasks(p)
      BY <2>4, QuietStage DEF SpawnTasks, Advance
    <2>5. CASE FailToStart(p)
      BY <2>5, DieKeeps DEF FailToStart, Alive
    <2>. QED BY <1>1, <2>1, <2>2, <2>3, <2>4, <2>5 DEF StartStep
  <1>2. ASSUME NEW p \in Daemons, EndStep(p)
        PROVE  PidInv'
    <2>1. CASE Join(p)
      BY <2>1 DEF Join, PidInv, LifeTypeOK, TwoOverlap, PidFileTells, Alive, SaysRunning
    <2>2. CASE RemovePidFile(p)
      BY <2>2, ExitKeeps DEF RemovePidFile, Alive, PidInv, LifeTypeOK
    <2>. QED BY <1>2, <2>1, <2>2 DEF EndStep
  <1>3. ASSUME NEW p \in Daemons, Kill(p)
        PROVE  PidInv'
    BY <1>3, DieKeeps DEF Kill
  <1>4. ASSUME NEW p \in Daemons, NEW t \in Tasks, TaskStep(p, t)
        PROVE  PidInv'
    <2>1. UNCHANGED lifeVars
      BY <1>4 DEF TaskStep, BeginTask, Begin, EndWork, NoticeShutdown
    <2>. QED BY <2>1 DEF lifeVars, PidInv, LifeTypeOK, TwoOverlap, PidFileTells, Alive, SaysRunning
  <1>5. CASE Stop
    BY <1>5, TerminateKeeps DEF Stop
  <1>6. CASE UNCHANGED daemonVars
    BY <1>6 DEF daemonVars, lifeVars, PidInv, LifeTypeOK, TwoOverlap, PidFileTells, Alive,
                SaysRunning
  <1>. QED BY <1>1, <1>2, <1>3, <1>4, <1>5, <1>6, TerminateKeeps DEF DaemonNext

\* The PID file names a daemon that runs alone, for as long as it runs, and one that is
\* gone only if it died (write_pid_file and remove_pid_file in main.rs): for any number of
\* daemons, whatever they are configured with and whoever is killed.
THEOREM PidFileIsRight == DaemonSpec => []PidFileTells
  <1>1. PidInv /\ [DaemonNext]_daemonVars => PidInv'
    BY StepKeeps
  <1>2. PidInv => PidFileTells
    BY DEF PidInv
  <1>. QED BY PidInvInit, <1>1, <1>2, PTL DEF DaemonSpec

-----------------------------------------------------------------------------
(* The file watcher.                                                       *)


\* What is used of the types.
EventsTypeOK ==
    /\ watcher \in [Nodes -> {"starting", "idle", "reading", "ended"}]
    /\ since \in [Nodes -> Int]
    /\ events \in [Nodes -> Int]
    /\ stale \in [Nodes -> BOOLEAN]
    /\ late \in [Nodes -> BOOLEAN]
    /\ refused \in SUBSET Nodes
    /\ mail \in [Nodes -> [Ages -> Int]]

\* A late write is one that the debounce lets pass, until an event has passed.
LatePasses == \A n \in Nodes : late[n] => since[n] >= Debounce

WatchInv ==
    /\ EventsTypeOK
    /\ \A n \in Nodes : events[n] >= 0
    /\ LatePasses
    /\ LateInv

\* The watchers have not begun, and nothing was written.
LEMMA WatchInvInit == WatchInit => WatchInv
  BY WatchdogAssumption DEF WatchInit, WatchInv, EventsTypeOK, LatePasses, LateInv, Ages

\* A write is an event for the watcher, and late or not.
LEMMA WrittenKeeps ==
    ASSUME WatchInv, NEW n \in Nodes, Written(n),
           stale' \in [Nodes -> BOOLEAN], \A m \in Nodes : m # n => stale'[m] = stale[m],
           mail' \in [Nodes -> [Ages -> Int]],
           UNCHANGED <<watcher, since, refused>>
    PROVE  WatchInv'
  <1>1. /\ late' = [late EXCEPT ![n] = since[n] >= Debounce]
        /\ events' = IF Watches(n) THEN [events EXCEPT ![n] = @ + 1] ELSE events
    BY DEF Written
  <1>2. /\ \A m \in Nodes : m # n => events'[m] = events[m]
        /\ watcher[n] = "idle" => events'[n] > 0
        /\ events'[n] >= events[n]
        /\ events' \in [Nodes -> Int]
    BY <1>1 DEF WatchInv, EventsTypeOK, Watches
  <1>3. /\ late' \in [Nodes -> BOOLEAN]
        /\ late'[n] = (since[n] >= Debounce)
        /\ \A m \in Nodes : m # n => late'[m] = late[m]
    <2>1. (since[n] >= Debounce) \in BOOLEAN
      OBVIOUS
    <2>2. late \in [Nodes -> BOOLEAN]
      BY DEF WatchInv, EventsTypeOK
    <2>. QED BY <1>1, <2>1, <2>2, Zenon
  <1>4. EventsTypeOK'
    BY <1>2, <1>3 DEF WatchInv, EventsTypeOK
  <1>5. LatePasses'
    <2>1. ASSUME NEW m \in Nodes, late'[m]
          PROVE  since'[m] >= Debounce
      <3>1. CASE m = n
        BY <1>3, <2>1, <3>1
      <3>2. CASE m # n
        BY <1>3, <2>1, <3>2 DEF WatchInv, LatePasses
      <3>. QED BY <3>1, <3>2
    <2>. QED BY <2>1 DEF LatePasses
  <1>6. LateInv'
    BY <1>2, <1>3 DEF WatchInv, LateInv
  <1>7. \A m \in Nodes : events'[m] >= 0
    BY <1>2 DEF WatchInv, EventsTypeOK
  <1>. QED BY <1>4, <1>5, <1>6, <1>7 DEF WatchInv

\* A message that arrives or is lost leaves messages.
LEMMA ArrivesType ==
    ASSUME EventsTypeOK, NEW n \in Nodes, NEW a \in Ages, Arrives(n, a)
    PROVE  mail' \in [Nodes -> [Ages -> Int]]
  <1>1. mail[n] \in [Ages -> Int] /\ mail[n][a] - 1 \in Int
    BY DEF EventsTypeOK
  <1>. QED BY <1>1 DEF Arrives, EventsTypeOK

\* An event is dropped only when the last write was too early to matter.
LEMMA TakeEventKeeps ==
    ASSUME WatchInv, NEW n \in Nodes, TakeEvent(n)
    PROVE  WatchInv'
  <1>1. CASE Debounced(n)
    <2>1. ~late[n]
      BY <1>1, WatchdogAssumption DEF Debounced, WatchInv, LatePasses, EventsTypeOK
    <2>2. /\ events' = [events EXCEPT ![n] = @ - 1] /\ events[n] > 0
          /\ UNCHANGED <<watcher, since, late, stale, refused, mail>>
      BY <1>1 DEF TakeEvent
    <2>. QED BY <2>1, <2>2 DEF WatchInv, EventsTypeOK, LatePasses, LateInv
  <1>2. CASE ~Debounced(n)
    <2>1. /\ events' = [events EXCEPT ![n] = @ - 1] /\ events[n] > 0
          /\ watcher' = [watcher EXCEPT ![n] = "reading"]
          /\ since' = [since EXCEPT ![n] = 0]
          /\ late' = [late EXCEPT ![n] = FALSE]
          /\ UNCHANGED <<stale, refused, mail>>
      BY <1>2 DEF TakeEvent
    <2>. QED BY <2>1 DEF WatchInv, EventsTypeOK, LatePasses, LateInv
  <1>. QED BY <1>1, <1>2

\* A reload that succeeds makes the image the file, and one that fails is noted.
LEMMA ReloadKeeps ==
    ASSUME WatchInv, NEW n \in Nodes, Reload(n)
    PROVE  WatchInv'
  <1>1. /\ watcher' = [watcher EXCEPT ![n] = "idle"]
        /\ UNCHANGED <<since, events, late>>
    BY DEF Reload
  <1>2. /\ 0 \in Ages
        /\ \A m \in Nodes : mail[m] \in [Ages -> Int]
        /\ \A m \in Nodes : [mail[m] EXCEPT ![0] = @ + 1] \in [Ages -> Int]
    BY WatchdogAssumption DEF WatchInv, EventsTypeOK, Ages
  <1>3. CASE stale' = [stale EXCEPT ![n] = FALSE] /\ Announce(n) /\ UNCHANGED refused
    <2>1. mail' \in [Nodes -> [Ages -> Int]]
      BY <1>2, <1>3 DEF Announce
    <2>. QED BY <1>1, <1>3, <2>1 DEF WatchInv, EventsTypeOK, LatePasses, LateInv
  <1>4. CASE refused' = refused \cup {n} /\ UNCHANGED <<stale, mail>>
    <2>1. /\ refused' \in SUBSET Nodes
          /\ \A m \in Nodes \ refused' : m \in Nodes \ refused /\ watcher'[m] = watcher[m]
      BY <1>1, <1>4 DEF WatchInv, EventsTypeOK
    <2>. QED BY <1>1, <1>4, <2>1 DEF WatchInv, EventsTypeOK, LatePasses, LateInv
  <1>. QED BY <1>3, <1>4 DEF Reload

\* With time a write gets no earlier.
LEMMA TickKeeps ==
    ASSUME WatchInv, Tick
    PROVE  WatchInv'
  <1>1. \A m \in [Ages -> Int] : Older(m) \in [Ages -> Int]
    <2> TAKE m \in [Ages -> Int]
    <2>1. ASSUME NEW a \in Ages
          PROVE  (IF a = 0 THEN 0 ELSE m[a - 1]) + (IF a = Latency THEN m[a] ELSE 0) \in Int
      BY <2>1, WatchdogAssumption DEF Ages
    <2>. QED BY <2>1 DEF Older
  <1>2. mail' \in [Nodes -> [Ages -> Int]]
    BY <1>1 DEF Tick, WatchInv, EventsTypeOK
  <1>3. since' \in [Nodes -> Int] /\ \A n \in Nodes : since'[n] >= since[n]
    BY WatchdogAssumption DEF Tick, WatchInv, EventsTypeOK
  <1>4. LatePasses'
    BY <1>3, WatchdogAssumption DEF Tick, WatchInv, EventsTypeOK, LatePasses
  <1>. QED BY <1>2, <1>3, <1>4 DEF Tick, WatchInv, EventsTypeOK, LateInv

\* Every step keeps the invariant.
LEMMA WatchStepKeeps ==
    ASSUME WatchInv, [WatchNext]_watchVars
    PROVE  WatchInv'
  <1>1. ASSUME NEW n \in Nodes, NodeStep(n)
        PROVE  WatchInv'
    <2>1. CASE StartWatcher(n)
      <3>1. PICK to \in {"idle", "ended"} : watcher' = [watcher EXCEPT ![n] = to]
        BY <2>1 DEF StartWatcher
      <3>2. /\ since' = [since EXCEPT ![n] = 0]
            /\ late' = [late EXCEPT ![n] = FALSE]
            /\ UNCHANGED <<events, stale, refused, mail>>
        BY <2>1 DEF StartWatcher
      <3>. QED BY <3>1, <3>2 DEF WatchInv, EventsTypeOK, LatePasses, LateInv
    <2>2. ASSUME NEW a \in Ages, Merge(n, a)
          PROVE  WatchInv'
      <3>1. mail' \in [Nodes -> [Ages -> Int]]
        BY <2>2, ArrivesType DEF Merge, WatchInv
      <3>2. /\ stale' \in [Nodes -> BOOLEAN]
            /\ \A m \in Nodes : m # n => stale'[m] = stale[m]
        BY <2>2 DEF Merge, WatchInv, EventsTypeOK
      <3>. QED BY <2>2, <3>1, <3>2, WrittenKeeps DEF Merge
    <2>. QED BY <1>1, <2>1, <2>2, TakeEventKeeps, ReloadKeeps DEF NodeStep
  <1>2. ASSUME NEW n \in Nodes, SaveElsewhere(n) \/ SaveOwn(n)
        PROVE  WatchInv'
    <2>1. /\ stale' \in [Nodes -> BOOLEAN]
          /\ \A m \in Nodes : m # n => stale'[m] = stale[m]
          /\ mail' \in [Nodes -> [Ages -> Int]]
          /\ Written(n) /\ UNCHANGED <<watcher, since, refused>>
      BY <1>2 DEF SaveElsewhere, SaveOwn, WatchInv, EventsTypeOK
    <2>. QED BY <2>1, WrittenKeeps
  <1>3. ASSUME NEW n \in Nodes, NEW a \in Ages, Lose(n, a)
        PROVE  WatchInv'
    <2>1. mail' \in [Nodes -> [Ages -> Int]]
      BY <1>3, ArrivesType DEF Lose, WatchInv
    <2>. QED BY <1>3, <2>1 DEF Lose, WatchInv, EventsTypeOK, LatePasses, LateInv
  <1>4. CASE UNCHANGED watchVars
    BY <1>4 DEF watchVars, WatchInv, EventsTypeOK, LatePasses, LateInv
  <1>. QED BY <1>1, <1>2, <1>3, <1>4, TickKeeps DEF WatchNext

\* A watchdog that has nothing more to do, and whose image is not the file, has missed only
\* what was written within DEBOUNCE_MS of a reload (the loop of watchdog.rs).
THEOREM DebounceCostsOnlyWindow == WatchSpec => []MissedOnlyInWindow
  <1>1. WatchInv /\ [WatchNext]_watchVars => WatchInv'
    BY WatchStepKeeps
  <1>2. WatchInv => MissedOnlyInWindow
    BY DEF WatchInv, EventsTypeOK, LateInv, MissedOnlyInWindow
  <1>. QED BY WatchInvInit, <1>1, <1>2, PTL DEF WatchSpec

-----------------------------------------------------------------------------
(* The quota loop of the application.                                       *)

\* The types of what is measured and told, and that a calculator with a time is measured
\* again only after minutes: nothing is divided by zero.
MeasuredInv ==
    /\ VelocityTypeOK
    /\ \A a \in Accounts : a \in todo /\ calc[a] # NoCalc /\ calc[a].timed => unmeasured[a] > 0
    /\ stage = "start" => \A a \in Accounts : calc[a] = NoCalc

\* What an event still has before it.
Pending(q, e, t) == \E i \in 1 .. Len(q) - 1 : q[i].to = t /\ q[i].event = e

\* A target has heard of a phase, or the message to it got lost.
Reached(a, t, p) == missed[t][a] \/ heard[t][a] = p

\* The events on their way pass no target that has asked.
OnTheWay(q, a, p) ==
    \A t \in Range(Targets) :
        /\ "phase_transition" \in Asked[t] =>
               Pending(q, "phase_transition", t) \/ Reached(a, t, p)
        /\ p = "Critical" /\ "quota_warning" \in Asked[t] =>
               Pending(q, "quota_warning", t) \/ Reached(a, t, p)

\* AlarmsAreTold of one account.
Told(a) ==
    \A t \in Range(Targets) :
        /\ lastPhase[a] # "Cruise" /\ "phase_transition" \in Asked[t] =>
               Reached(a, t, lastPhase[a])
        /\ lastPhase[a] = "Critical" /\ "quota_warning" \in Asked[t] =>
               Reached(a, t, "Critical")

\* The events on their way are all of one change of phase of one account, and of all other
\* accounts everyone has heard.
SendInv ==
    /\ stage # "send" => sends = <<>> /\ \A a \in Accounts : Told(a)
    /\ stage = "send" =>
           \E a \in Accounts, p \in Phases :
               /\ sends # <<>> /\ OnTheWay(sends, a, p)
               /\ \A i \in 1 .. Len(sends) : sends[i].account = a /\ sends[i].phase = p
               /\ \A b \in Accounts \ {a} : Told(b)

\* What the calculator makes of a measure.
LEMMA DividedIsNat ==
    ASSUME NEW x \in Nat, NEW m \in Nat \ {0}
    PROVE  (x * Scale) \div m \in Nat
  <1>1. Scale \in Nat
    BY VelocityAssumption
  <1>2. x * Scale \in Nat
    BY <1>1
  <1>3. \A y \in Nat : y \div m \in Nat
    OBVIOUS
  <1>. QED BY <1>2, <1>3

\* A smoothed rate is a number.
LEMMA SmoothedIsNat ==
    ASSUME NEW v \in Nat, NEW n \in Nat
    PROVE  Smoothed(v, n) \in Nat
  BY DEF Smoothed

\* A calculator updated after a time, or for the first time, is a calculator.
LEMMA UpdateIsCalculator ==
    ASSUME NEW c \in Calculators, NEW u \in Usages, NEW m \in Nat, c.timed => m > 0
    PROVE  Update(c, u, m) \in Calculators
  <1>1. c.last \in Nat /\ u \in Nat
    BY VelocityAssumption DEF Calculators
  <1>2. More(u, c.last) \in Nat
    BY <1>1 DEF More
  <1>3. CASE c.timed
    <2>1. (More(u, c.last) * Scale) \div m \in Nat
      BY <1>2, <1>3, DividedIsNat
    <2>2. Smoothed(c.ema, (More(u, c.last) * Scale) \div m) \in Nat
      BY <2>1, SmoothedIsNat DEF Calculators
    <2>. QED BY <1>3, <2>2 DEF Update, Calculators
  <1>4. CASE ~c.timed
    BY <1>4 DEF Update, Calculators
  <1>. QED BY <1>3, <1>4

\* Of sequences: an item of one, what is left of one, and three of them in a row.
LEMMA ElementIn ==
    ASSUME NEW S, NEW q \in Seq(S), NEW i \in 1 .. Len(q)
    PROVE  q[i] \in S /\ Len(q) \in Nat
  OBVIOUS

\* The length of what is still to be sent is a number.
LEMMA LenIsNat ==
    ASSUME NEW S, NEW q \in Seq(S)
    PROVE  Len(q) \in Nat
  OBVIOUS

\* A sequence without its first element.
LEMMA TailOf ==
    ASSUME NEW S, NEW q \in Seq(S), Len(q) > 0
    PROVE  /\ Head(q) = q[1] /\ Tail(q) \in Seq(S) /\ Len(Tail(q)) = Len(q) - 1
           /\ \A i \in 1 .. Len(q) - 1 : Tail(q)[i] = q[i + 1]
  OBVIOUS

\* Three sequences in a row.
LEMMA ThreeParts ==
    ASSUME NEW S, NEW f \in Seq(S), NEW g \in Seq(S), NEW h \in Seq(S)
    PROVE  /\ f \o g \o h \in Seq(S) /\ Len(f \o g \o h) = Len(f) + Len(g) + Len(h)
           /\ \A i \in 1 .. Len(f) : (f \o g \o h)[i] = f[i]
           /\ \A i \in 1 .. Len(g) : (f \o g \o h)[Len(f) + i] = g[i]
           /\ \A i \in 1 .. Len(h) : (f \o g \o h)[Len(f) + Len(g) + i] = h[i]
  <1>1. /\ f \o g \in Seq(S) /\ Len(f \o g) = Len(f) + Len(g)
        /\ \A i \in 1 .. Len(f) : (f \o g)[i] = f[i]
        /\ \A i \in 1 .. Len(g) : (f \o g)[Len(f) + i] = g[i]
    OBVIOUS
  <1>. DEFINE k == f \o g
  <1>. HIDE DEF k
  <1>2. k \in Seq(S)
    BY <1>1 DEF k
  <1>3. /\ k \o h \in Seq(S) /\ Len(k \o h) = Len(k) + Len(h)
        /\ \A i \in 1 .. Len(k) : (k \o h)[i] = k[i]
        /\ \A i \in 1 .. Len(h) : (k \o h)[Len(k) + i] = h[i]
    BY <1>2
  <1>4. /\ Len(k) = Len(f) + Len(g) /\ Len(f) \in Nat /\ Len(g) \in Nat
        /\ \A i \in 1 .. Len(f) : i \in 1 .. Len(k) /\ k[i] = f[i]
        /\ \A i \in 1 .. Len(g) : Len(f) + i \in 1 .. Len(k) /\ k[Len(f) + i] = g[i]
    BY <1>1 DEF k
  <1>5. /\ k \o h \in Seq(S) /\ Len(k \o h) = Len(f) + Len(g) + Len(h)
        /\ \A i \in 1 .. Len(f) : (k \o h)[i] = f[i]
        /\ \A i \in 1 .. Len(g) : (k \o h)[Len(f) + i] = g[i]
        /\ \A i \in 1 .. Len(h) : (k \o h)[Len(f) + Len(g) + i] = h[i]
    BY <1>3, <1>4
  <1>. QED BY <1>5 DEF k

\* What is sent of a change of phase: to every target in turn, the last step is to note it.
LEMMA SendsOfEvent ==
    ASSUME NEW e \in Events, NEW a \in Accounts, NEW p \in Phases
    PROVE  /\ SendsOf(e, a, p) \in Seq(Messages)
           /\ Len(SendsOf(e, a, p)) = Len(Targets)
           /\ \A i \in 1 .. Len(Targets) :
                  /\ SendsOf(e, a, p)[i].to = Targets[i]
                  /\ SendsOf(e, a, p)[i].event = e
                  /\ SendsOf(e, a, p)[i].account = a
                  /\ SendsOf(e, a, p)[i].phase = p
  <1>1. Len(Targets) \in Nat /\ \A i \in 1 .. Len(Targets) : Targets[i] \in Range(Targets)
    BY VelocityAssumption DEF Range
  <1>2. ASSUME NEW i \in 1 .. Len(Targets)
        PROVE  /\ SendsOf(e, a, p)[i].to = Targets[i]
               /\ SendsOf(e, a, p)[i].event = e
               /\ SendsOf(e, a, p)[i].account = a
               /\ SendsOf(e, a, p)[i].phase = p
    BY <1>2 DEF SendsOf
  <1>. QED BY <1>1, <1>2 DEF SendsOf, Messages

\* One cell of a table is overwritten.
LEMMA OneCell ==
    ASSUME NEW S, NEW T, NEW V, NEW f \in [S -> [T -> V]], NEW x, NEW y \in T, NEW v \in V
    PROVE  [f EXCEPT ![x][y] = v] \in [S -> [T -> V]]
  <1>1. CASE x \in S
    <2>1. [f[x] EXCEPT ![y] = v] \in [T -> V]
      BY <1>1
    <2>. QED BY <2>1
  <1>2. CASE x \notin S
    BY <1>2
  <1>. QED BY <1>1, <1>2

\* Sending measures nothing.
LEMMA SendMeasured == MeasuredInv /\ Send => MeasuredInv'
  <1>. SUFFICES ASSUME MeasuredInv, Send PROVE MeasuredInv'
    OBVIOUS
  <1>. DEFINE m == Head(sends)
  <1>1. m \in Messages /\ sends' \in Seq(Messages)
    BY DEF Send, MeasuredInv, VelocityTypeOK
  <1>2. m.account \in Accounts /\ m.phase \in Phases
    BY <1>1 DEF Messages
  <1>3. heard' = heard \/ heard' = [heard EXCEPT ![m.to][m.account] = m.phase]
    BY DEF Send
  <1>4. \/ missed' = missed
        \/ missed' = [missed EXCEPT ![m.to][m.account] = TRUE]
        \/ missed' = [missed EXCEPT ![m.to][m.account] = FALSE]
    BY DEF Send
  <1>5. failures' \in 0 .. MaxFailures
    BY VelocityAssumption DEF Send, Failing, MeasuredInv, VelocityTypeOK
  <1>. HIDE DEF m
  <1>6. heard' \in [Range(Targets) -> [Accounts -> Phases]]
    <2>1. heard \in [Range(Targets) -> [Accounts -> Phases]]
      BY DEF MeasuredInv, VelocityTypeOK
    <2>2. [heard EXCEPT ![m.to][m.account] = m.phase]
              \in [Range(Targets) -> [Accounts -> Phases]]
      BY <1>2, <2>1, OneCell, Zenon
    <2>. QED BY <1>3, <2>1, <2>2
  <1>7. missed' \in [Range(Targets) -> [Accounts -> BOOLEAN]]
    <2>1. missed \in [Range(Targets) -> [Accounts -> BOOLEAN]]
      BY DEF MeasuredInv, VelocityTypeOK
    <2>2. TRUE \in BOOLEAN /\ FALSE \in BOOLEAN
      OBVIOUS
    <2>3. [missed EXCEPT ![m.to][m.account] = TRUE]
              \in [Range(Targets) -> [Accounts -> BOOLEAN]]
      BY <1>2, <2>1, <2>2, OneCell, Zenon
    <2>4. [missed EXCEPT ![m.to][m.account] = FALSE]
              \in [Range(Targets) -> [Accounts -> BOOLEAN]]
      BY <1>2, <2>1, <2>2, OneCell, Zenon
    <2>. QED BY <1>4, <2>1, <2>3, <2>4, Zenon
  <1>. QED BY <1>1, <1>5, <1>6, <1>7 DEF Send, MeasuredInv, VelocityTypeOK

\* The events of a change of phase pass nobody.
LEMMA ChangeOfPhase ==
    ASSUME NEW a \in Accounts, NEW p \in Phases, NEW q, q = EventsOf(a, p)
    PROVE  /\ q \in Seq(Messages) /\ q # <<>>
           /\ \A i \in 1 .. Len(q) : q[i].account = a /\ q[i].phase = p
           /\ \A t \in Range(Targets) : /\ Pending(q, "phase_transition", t)
                                        /\ p = "Critical" => Pending(q, "quota_warning", t)
  <1>. DEFINE A == SendsOf("phase_transition", a, p)
              Q == SendsOf("quota_warning", a, p)
              B == IF p = "Critical" THEN Q ELSE <<>>
              C == <<[to |-> "last_phases", event |-> "insert", account |-> a, phase |-> p]>>
  <1>1. /\ A \in Seq(Messages) /\ Len(A) = Len(Targets)
        /\ \A i \in 1 .. Len(Targets) :
                /\ A[i].to = Targets[i] /\ A[i].event = "phase_transition"
                /\ A[i].account = a /\ A[i].phase = p
    BY SendsOfEvent DEF Events
  <1>2. /\ Q \in Seq(Messages) /\ Len(Q) = Len(Targets)
        /\ \A i \in 1 .. Len(Targets) :
                /\ Q[i].to = Targets[i] /\ Q[i].event = "quota_warning"
                /\ Q[i].account = a /\ Q[i].phase = p
    BY SendsOfEvent DEF Events
  <1>3. C \in Seq(Messages) /\ Len(C) = 1 /\ C[1].account = a /\ C[1].phase = p
    BY DEF Messages
  <1>4. IF p = "Critical" THEN B = Q ELSE B = <<>>
    OBVIOUS
  <1>5. q = A \o B \o C
    BY DEF EventsOf
  <1>. HIDE DEF A, B, C, Q
  <1>6. B \in Seq(Messages)
    <2>1. <<>> \in Seq(Messages)
      OBVIOUS
    <2>. QED BY <1>2, <1>4, <2>1
  <1>7. Len(A) \in Nat /\ Len(B) \in Nat
    BY <1>1, <1>6, LenIsNat
  <1>8. \A i \in 1 .. Len(B) : B[i].account = a /\ B[i].phase = p
    <2>1. CASE p = "Critical"
      BY <1>2, <1>4, <2>1
    <2>2. CASE p # "Critical"
      BY <1>4, <2>2
    <2>. QED BY <2>1, <2>2
  <1>9. /\ q \in Seq(Messages) /\ Len(q) = Len(A) + Len(B) + Len(C)
        /\ \A i \in 1 .. Len(A) : q[i] = A[i]
        /\ \A i \in 1 .. Len(B) : q[Len(A) + i] = B[i]
        /\ \A i \in 1 .. Len(C) : q[Len(A) + Len(B) + i] = C[i]
    <2>1. /\ A \o B \o C \in Seq(Messages) /\ Len(A \o B \o C) = Len(A) + Len(B) + Len(C)
          /\ \A i \in 1 .. Len(A) : (A \o B \o C)[i] = A[i]
          /\ \A i \in 1 .. Len(B) : (A \o B \o C)[Len(A) + i] = B[i]
          /\ \A i \in 1 .. Len(C) : (A \o B \o C)[Len(A) + Len(B) + i] = C[i]
      <3>1. A \in Seq(Messages) /\ B \in Seq(Messages) /\ C \in Seq(Messages)
        BY <1>1, <1>3, <1>6
      <3>. QED BY <3>1, ThreeParts
    <2>. QED BY <1>5, <2>1
  <1>91. Len(q) = Len(A) + Len(B) + 1
    BY <1>3, <1>9
  <1>92. \A i \in 1 .. Len(A) : q[i] = A[i]
    BY <1>9
  <1>93. \A i \in 1 .. Len(B) : q[Len(A) + i] = B[i]
    BY <1>9
  <1>10. q # <<>>
    BY <1>3, <1>7, <1>9
  <1>11. ASSUME NEW i \in 1 .. Len(q)
         PROVE  q[i].account = a /\ q[i].phase = p
    <2>1. CASE i <= Len(A)
      BY <1>1, <1>7, <1>92, <2>1
    <2>2. CASE Len(A) < i /\ i <= Len(A) + Len(B)
      <3>1. i - Len(A) \in 1 .. Len(B) /\ i = Len(A) + (i - Len(A))
        BY <1>7, <2>2
      <3>2. q[i] = B[i - Len(A)]
        BY <1>9, <3>1
      <3>. QED BY <1>8, <3>1, <3>2
    <2>3. CASE Len(A) + Len(B) < i
      <3>1. i = Len(A) + Len(B) + 1 /\ 1 \in 1 .. Len(C)
        BY <1>3, <1>7, <1>91, <2>3
      <3>2. q[Len(A) + Len(B) + 1] = C[1]
        BY <1>9, <3>1
      <3>. QED BY <1>3, <3>1, <3>2
    <2>. QED BY <1>7, <2>1, <2>2, <2>3
  <1>12. ASSUME NEW t \in Range(Targets)
         PROVE  /\ Pending(q, "phase_transition", t)
                /\ p = "Critical" => Pending(q, "quota_warning", t)
    <2>1. PICK i \in 1 .. Len(Targets) : Targets[i] = t
      BY VelocityAssumption DEF Range
    <2>2. /\ i \in 1 .. Len(q) - 1
          /\ q[i].to = t /\ q[i].event = "phase_transition"
      <3>1. i \in 1 .. Len(A) /\ i \in 1 .. Len(q) - 1
        BY <1>1, <1>7, <1>91
      <3>. QED BY <1>1, <1>92, <2>1, <3>1
    <2>3. ASSUME p = "Critical"
          PROVE  /\ Len(A) + i \in 1 .. Len(q) - 1
                 /\ q[Len(A) + i].to = t /\ q[Len(A) + i].event = "quota_warning"
      <3>1. B = Q /\ i \in 1 .. Len(B) /\ Len(A) + i \in 1 .. Len(q) - 1
        BY <1>2, <1>4, <1>7, <1>91, <2>3
      <3>2. q[Len(A) + i] = Q[i]
        BY <1>93, <3>1
      <3>. QED BY <1>2, <2>1, <3>1, <3>2
    <2>. QED BY <2>2, <2>3 DEF Pending
  <1>. QED BY <1>9, <1>10, <1>11, <1>12

\* A measurement keeps what is known of all of them.
LEMMA MeasureMeasured ==
    ASSUME NEW a \in Accounts, MeasuredInv, Measure(a)
    PROVE  MeasuredInv'
  <1>. DEFINE old == IF calc[a] = NoCalc THEN NewCalc(limit[a]) ELSE calc[a]
              c == Update(old, usage[a], unmeasured[a])
              p == Phase(c, usage[a])
  <1>1. old \in Calculators /\ (old.timed => unmeasured[a] > 0)
    BY VelocityAssumption DEF MeasuredInv, VelocityTypeOK, NewCalc, Calculators, Measure
  <1>2. c \in Calculators
    <2>. HIDE DEF old
    <2>. QED BY <1>1, UpdateIsCalculator DEF MeasuredInv, VelocityTypeOK
  <1>3. p \in Phases
    BY DEF Phase, Phases
  <1>4. calc' = [calc EXCEPT ![a] = c]
    BY DEF Measure
  <1>5. \/ sends' = sends /\ stage' = stage
        \/ stage' = "send" /\ sends' = EventsOf(a, p)
    BY DEF Measure
  <1>. HIDE DEF c, p
  <1>6. sends' \in Seq(Messages)
    <2>1. EventsOf(a, p) \in Seq(Messages)
      BY <1>3, ChangeOfPhase
    <2>. QED BY <1>5, <2>1 DEF MeasuredInv, VelocityTypeOK
  <1>7. /\ \A b \in Accounts : calc'[b] \in Calculators \cup {NoCalc}
        /\ \A b \in Accounts : b # a => calc'[b] = calc[b]
    BY <1>2, <1>4 DEF MeasuredInv, VelocityTypeOK
  <1>8. /\ todo' = todo \ {a} /\ unmeasured' = [unmeasured EXCEPT ![a] = 0]
        /\ stage = "round" /\ stage' \in {"round", "send"}
        /\ UNCHANGED <<usage, limit, saved, age, lastPhase, heard, missed, changes, failures>>
    BY <1>5 DEF Measure
  <1>. QED BY <1>6, <1>7, <1>8 DEF MeasuredInv, VelocityTypeOK

\* Every step keeps what is known of the measurements.
LEMMA MeasuredStep == MeasuredInv /\ [VelocityNext]_velocityVars => MeasuredInv'
  <1>. SUFFICES ASSUME MeasuredInv, [VelocityNext]_velocityVars PROVE MeasuredInv'
    OBVIOUS
  <1>1. CASE LoadStates
    BY <1>1 DEF LoadStates, MeasuredInv, VelocityTypeOK, Calculators
  <1>2. CASE Send
    BY <1>2, SendMeasured
  <1>3. CASE NotePhase
    <2>1. sends[1] \in Messages
      <3>1. sends \in Seq(Messages) /\ Len(sends) = 1
        BY <1>3 DEF NotePhase, MeasuredInv, VelocityTypeOK
      <3>2. 1 \in 1 .. Len(sends)
        BY <3>1
      <3>. QED BY <3>1, <3>2, ElementIn
    <2>2. sends[1].account \in Accounts /\ sends[1].phase \in Phases
      BY <2>1 DEF Messages
    <2>. QED BY <1>3, <2>2 DEF NotePhase, MeasuredInv, VelocityTypeOK
  <1>4. CASE SaveStates
    <2>1. /\ \A a \in Accounts : saved'[a] \in Calculators \cup {NoCalc}
      BY <1>4, VelocityAssumption DEF SaveStates, MeasuredInv, VelocityTypeOK
    <2>2. age' \in 0 .. TooOld
      <3>1. age' = 0 \/ age' = age
        BY <1>4 DEF SaveStates
      <3>2. age \in 0 .. 31
        BY DEF MeasuredInv, VelocityTypeOK, TooOld
      <3>. QED BY <3>1, <3>2 DEF TooOld
    <2>3. failures' \in 0 .. MaxFailures
      BY <1>4, VelocityAssumption DEF SaveStates, MeasuredInv, VelocityTypeOK, Failing
    <2>. QED BY <1>4, <2>1, <2>2, <2>3 DEF SaveStates, MeasuredInv, VelocityTypeOK
  <1>5. ASSUME NEW a \in Accounts, Measure(a) PROVE MeasuredInv'
    BY <1>5, MeasureMeasured
  <1>6. ASSUME NEW a \in Accounts, FetchFails(a) PROVE MeasuredInv'
    BY <1>6, VelocityAssumption DEF FetchFails, MeasuredInv, VelocityTypeOK, Failing
  <1>7. ASSUME NEW m \in Gaps, Sleep(m) PROVE MeasuredInv'
    BY <1>7, VelocityAssumption DEF Sleep, MeasuredInv, VelocityTypeOK, TooOld
  <1>8. ASSUME NEW a \in Accounts, NEW u \in Usages, NEW l \in Limits, QuotaChanges(a, u, l)
        PROVE  MeasuredInv'
    BY <1>8, VelocityAssumption DEF QuotaChanges, MeasuredInv, VelocityTypeOK
  <1>9. ASSUME NEW m \in Gaps, RestartApplication(m) PROVE MeasuredInv'
    BY <1>9, VelocityAssumption
      DEF RestartApplication, MeasuredInv, VelocityTypeOK, Failing, TooOld, Phases
  <1>10. CASE UNCHANGED velocityVars
    BY <1>10 DEF velocityVars, MeasuredInv, VelocityTypeOK
  <1>. QED
    BY <1>1, <1>2, <1>3, <1>4, <1>5, <1>6, <1>7, <1>8, <1>9, <1>10 DEF VelocityNext, LoopStep

\* The calculators of the accounts are right, and no velocity is divided by no time
\* (VelocityCalculator::update).
THEOREM QuotaTypes == VelocitySpec => []VelocityTypeOK
  <1>1. VelocityInit => MeasuredInv
    BY VelocityAssumption DEF VelocityInit, MeasuredInv, VelocityTypeOK, Phases, TooOld
  <1>2. MeasuredInv => VelocityTypeOK
    BY DEF MeasuredInv
  <1>. QED BY <1>1, <1>2, MeasuredStep, PTL DEF VelocitySpec

\* A target hears of the phase, or the message to it is lost, or it has not asked for it.
LEMMA SendKeepsTold ==
    ASSUME MeasuredInv, SendInv, Send
    PROVE  SendInv'
  <1>. DEFINE m == Head(sends)
  <1>1. PICK a \in Accounts, p \in Phases :
            /\ sends # <<>> /\ OnTheWay(sends, a, p)
            /\ \A i \in 1 .. Len(sends) : sends[i].account = a /\ sends[i].phase = p
            /\ \A b \in Accounts \ {a} : Told(b)
    BY DEF SendInv, Send
  <1>2. /\ sends \in Seq(Messages) /\ Len(sends) > 1 /\ sends' = Tail(sends)
        /\ stage = "send" /\ stage' = "send" /\ lastPhase' = lastPhase
    BY DEF MeasuredInv, VelocityTypeOK, Send
  <1>. HIDE DEF m
  <1>21. /\ m = sends[1] /\ sends' \in Seq(Messages) /\ Len(sends') = Len(sends) - 1
        /\ \A i \in 1 .. Len(sends) - 1 : sends'[i] = sends[i + 1]
    BY <1>2, TailOf DEF m
  <1>22. Len(sends) \in Nat /\ Len(sends) > 1
    BY <1>2
  <1>3. m = sends[1] /\ m.account = a /\ m.phase = p
    BY <1>1, <1>21, <1>22
  <1>4. /\ sends' # <<>>
        /\ \A i \in 1 .. Len(sends') : sends'[i].account = a /\ sends'[i].phase = p
    BY <1>1, <1>21, <1>22
  <1>5. \A t \in Range(Targets), e \in Events :
            Pending(sends, e, t) => Pending(sends', e, t) \/ (m.to = t /\ m.event = e)
    <2>1. ASSUME NEW t \in Range(Targets), NEW e \in Events,
                 NEW i \in 1 .. Len(sends) - 1, sends[i].to = t, sends[i].event = e,
                 ~(m.to = t /\ m.event = e)
          PROVE  \E j \in 1 .. Len(sends') - 1 : sends'[j].to = t /\ sends'[j].event = e
      <3>1. i # 1
        BY <1>21, <2>1
      <3>2. i - 1 \in 1 .. Len(sends') - 1 /\ sends'[i - 1] = sends[i]
        BY <1>21, <1>22, <3>1
      <3>. QED BY <2>1, <3>2
    <2>. QED BY <2>1 DEF Pending
  <1>6. \/ m.event \notin Asked[m.to] /\ UNCHANGED <<heard, missed>>
        \/ /\ m.event \in Asked[m.to]
           /\ heard' = [heard EXCEPT ![m.to][a] = p]
           /\ missed' = [missed EXCEPT ![m.to][a] = FALSE]
        \/ /\ m.event \in Asked[m.to] /\ heard' = heard
           /\ missed' = [missed EXCEPT ![m.to][a] = TRUE]
    BY <1>3 DEF Send, m
  <1>7. /\ heard \in [Range(Targets) -> [Accounts -> Phases]]
        /\ missed \in [Range(Targets) -> [Accounts -> BOOLEAN]]
    BY DEF MeasuredInv, VelocityTypeOK
  <1>8. ASSUME NEW t \in Range(Targets)
        PROVE  /\ Reached(a, t, p) => Reached(a, t, p)'
               /\ m.to = t /\ m.event \in Asked[t] => Reached(a, t, p)'
               /\ \A b \in Accounts, q \in Phases : b # a /\ Reached(b, t, q) => Reached(b, t, q)'
    BY <1>6, <1>7 DEF Reached
  <1>9. OnTheWay(sends, a, p)'
    BY <1>1, <1>5, <1>8 DEF OnTheWay, Events
  <1>10. \A b \in Accounts \ {a} : Told(b)'
    <2>1. ASSUME NEW b \in Accounts \ {a}, NEW t \in Range(Targets)
          PROVE  /\ lastPhase[b] \in Phases /\ lastPhase'[b] = lastPhase[b]
                 /\ Reached(b, t, lastPhase[b]) => Reached(b, t, lastPhase[b])'
                 /\ Reached(b, t, "Critical") => Reached(b, t, "Critical")'
      <3>1. lastPhase[b] \in Phases /\ lastPhase'[b] = lastPhase[b]
        BY <1>2 DEF MeasuredInv, VelocityTypeOK
      <3>2. PICK q \in Phases : q = lastPhase[b]
        BY <3>1
      <3>3. "Critical" \in Phases
        BY DEF Phases
      <3>4. Reached(b, t, q) => Reached(b, t, q)'
        BY <1>8
      <3>5. Reached(b, t, "Critical") => Reached(b, t, "Critical")'
        BY <1>8, <3>3
      <3>. QED BY <3>1, <3>2, <3>4, <3>5 DEF Reached
    <2>. QED BY <1>1, <1>2, <2>1 DEF Told
  <1>. QED BY <1>2, <1>4, <1>9, <1>10 DEF SendInv

\* The phase is noted when everyone has been told.
LEMMA NoteKeepsTold ==
    ASSUME MeasuredInv, SendInv, NotePhase
    PROVE  SendInv'
  <1>1. PICK a \in Accounts, p \in Phases :
            /\ OnTheWay(sends, a, p)
            /\ \A i \in 1 .. Len(sends) : sends[i].account = a /\ sends[i].phase = p
            /\ \A b \in Accounts \ {a} : Told(b)
    BY DEF SendInv, NotePhase
  <1>2. Len(sends) = 1
    BY DEF NotePhase
  <1>3. sends[1].account = a /\ sends[1].phase = p
    BY <1>1, <1>2
  <1>4. /\ lastPhase' = [lastPhase EXCEPT ![a] = p]
        /\ UNCHANGED <<heard, missed>> /\ sends' = <<>> /\ stage' = "round"
    BY <1>3 DEF NotePhase
  <1>5. lastPhase'[a] = p /\ \A b \in Accounts \ {a} : lastPhase'[b] = lastPhase[b]
    BY <1>4 DEF MeasuredInv, VelocityTypeOK
  <1>6. \A t, e : ~Pending(sends, e, t)
    BY <1>2 DEF Pending
  <1>7. Told(a)'
    BY <1>1, <1>4, <1>5, <1>6 DEF OnTheWay, Told, Reached
  <1>8. \A b \in Accounts \ {a} : Told(b)'
    BY <1>1, <1>4, <1>5 DEF Told, Reached
  <1>. QED BY <1>4, <1>7, <1>8 DEF SendInv

\* A measurement that changes a phase has a message to every target before it.
LEMMA MeasureKeepsTold ==
    ASSUME NEW a \in Accounts, MeasuredInv, SendInv, Measure(a)
    PROVE  SendInv'
  <1>1. \A b \in Accounts : Told(b)'
    BY DEF Measure, SendInv, Told, Reached
  <1>2. CASE sends' = sends /\ stage' = stage
    BY <1>1, <1>2 DEF SendInv, Measure
  <1>3. ASSUME NEW p \in Phases, stage' = "send", sends' = EventsOf(a, p)
        PROVE  SendInv'
    <2>1. /\ sends' # <<>>
          /\ \A i \in 1 .. Len(sends') : sends'[i].account = a /\ sends'[i].phase = p
          /\ \A t \in Range(Targets) : /\ Pending(sends', "phase_transition", t)
                                       /\ p = "Critical" => Pending(sends', "quota_warning", t)
      BY <1>3, ChangeOfPhase
    <2>2. OnTheWay(sends, a, p)'
      BY <2>1 DEF OnTheWay
    <2>. QED BY <1>1, <1>3, <2>1, <2>2 DEF SendInv
  <1>. DEFINE old == IF calc[a] = NoCalc THEN NewCalc(limit[a]) ELSE calc[a]
  <1>4. PICK p \in Phases : p = Phase(Update(old, usage[a], unmeasured[a]), usage[a])
    BY DEF Phase, Phases
  <1>. QED BY <1>2, <1>3, <1>4 DEF Measure

\* At the start nothing has been measured and nobody is to be told.
LEMMA ToldInit == VelocityInit => MeasuredInv /\ SendInv
  BY VelocityAssumption
     DEF VelocityInit, MeasuredInv, VelocityTypeOK, Phases, TooOld, SendInv, Told

\* Every step keeps account of who has been told, and of what is still to be sent.
LEMMA ToldStep == MeasuredInv /\ SendInv /\ [VelocityNext]_velocityVars => SendInv'
  <1>. SUFFICES ASSUME MeasuredInv, SendInv, [VelocityNext]_velocityVars PROVE SendInv'
    OBVIOUS
  <1>1. CASE Send
    BY <1>1, SendKeepsTold
  <1>2. ASSUME NEW a \in Accounts, Measure(a) PROVE SendInv'
    BY <1>2, MeasureKeepsTold
  <1>3. CASE NotePhase
    BY <1>3, NoteKeepsTold
  <1>4. ASSUME NEW m \in Gaps, RestartApplication(m) PROVE SendInv'
    BY <1>4 DEF RestartApplication, SendInv, Told
  <1>5. ASSUME UNCHANGED <<lastPhase, heard, missed, sends>>,
               stage # "send", stage' # "send"
        PROVE  SendInv'
    BY <1>5 DEF SendInv, Told, Reached, OnTheWay, Pending
  <1>51. ASSUME lastPhase' = lastPhase, heard' = heard, missed' = missed, sends' = sends,
               stage' = stage
        PROVE  SendInv'
    BY <1>51 DEF SendInv, Told, Reached, OnTheWay, Pending
  <1>6. CASE LoadStates
    BY <1>5, <1>6 DEF LoadStates
  <1>7. CASE SaveStates
    BY <1>5, <1>7 DEF SaveStates
  <1>8. ASSUME NEW a \in Accounts, FetchFails(a) PROVE SendInv'
    BY <1>5, <1>8 DEF FetchFails
  <1>9. ASSUME NEW m \in Gaps, Sleep(m) PROVE SendInv'
    BY <1>5, <1>9 DEF Sleep
  <1>10. ASSUME NEW a \in Accounts, NEW u \in Usages, NEW l \in Limits, QuotaChanges(a, u, l)
         PROVE  SendInv'
    <2>1. UNCHANGED <<lastPhase, heard, missed, sends>> /\ stage' = stage
      BY <1>10 DEF QuotaChanges
    <2>. QED BY <1>51, <2>1
  <1>11. CASE UNCHANGED velocityVars
    <2>1. UNCHANGED <<lastPhase, heard, missed, sends>> /\ stage' = stage
      BY <1>11 DEF velocityVars
    <2>. QED BY <1>51, <2>1
  <1>. QED
    BY <1>1, <1>2, <1>3, <1>4, <1>6, <1>7, <1>8, <1>9, <1>10, <1>11 DEF VelocityNext, LoopStep

\* Nobody who asked for an event stays without it, unless the very message to it got lost
\* (quota_refresh_loop, WebhookSender::send).
THEOREM EveryoneIsTold == VelocitySpec => []AlarmsAreTold
  <1>1. MeasuredInv /\ SendInv => AlarmsAreTold
    <2>. SUFFICES ASSUME MeasuredInv, SendInv, NEW a \in Accounts, ~Telling(a)
         PROVE  Told(a)
      BY DEF AlarmsAreTold, Told, Reached
    <2>. QED BY DEF MeasuredInv, VelocityTypeOK, SendInv, Telling
  <1>. QED BY <1>1, ToldInit, MeasuredStep, ToldStep, PTL DEF VelocitySpec
=============================================================================
