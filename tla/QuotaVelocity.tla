----------------------------- MODULE QuotaVelocity -----------------------------
(***************************************************************************)
(* How fast the accounts use up their quota (crates/core/src/quota.rs) and *)
(* whom the quota loop of the application tells when that becomes pressing *)
(* (quota_refresh_loop in tauri-app/src-tauri/src/lib.rs, webhook.rs).     *)
(*                                                                         *)
(* A calculator smooths the tokens per minute of an account and gives it a *)
(* phase by the minutes left; a change of phase goes to every webhook that *)
(* asked for it.  The calculators are saved after each round and read back *)
(* at the start, the phases that were told are not.  The same loop decides *)
(* on switches: see SwitchController.  What else it stores and announces   *)
(* of a quota is in TokenRefresh and SyncCoordinator.                      *)
(***************************************************************************)
EXTENDS Integers, FiniteSets, SequencesExt

CONSTANTS
    Accounts,     \* the accounts the loop measures: Anthropic, with OAuth
    Usages,       \* what the provider may report, in tokens
    Limits,       \* and the limits of its plans
    Gaps,         \* minutes from one round to the next
    Targets,      \* a sequence: the webhooks, in the order of the configuration
    Asked,        \* the events each of them has asked for
    Scale,        \* velocities are in tokens per Scale minutes
    NoCalc,
    MaxChanges,   \* bound: changes of what the provider reports
    MaxFailures   \* bound: restarts, quotas that cannot be had, webhooks that fail

Events == {"phase_transition", "quota_warning"}

ASSUME VelocityAssumption ==
    /\ 0 \in Usages /\ Usages \subseteq Nat /\ Limits \subseteq Nat \ {0}
    /\ Gaps \subseteq Nat \ {0}
    /\ Targets \in Seq(Range(Targets))
    /\ Asked \in [Range(Targets) -> SUBSET Events]
    /\ Scale \in Nat \ {0} /\ MaxChanges \in Nat /\ MaxFailures \in Nat

VARIABLES
    usage, limit,  \* what the provider reports
    calc,          \* velocity_calculators
    unmeasured,    \* minutes since the last measure of each
    saved, age,    \* velocity-state.json, and the minutes since it was written
    lastPhase,     \* last_phases
    stage,         \* where the loop is
    todo,          \* the accounts it has still to measure
    sends,         \* the events it has still to send
    heard,         \* history: the phase each webhook has last heard of
    missed,        \* history: the webhooks whose last event got lost
    changes, failures

velocityVars ==
    <<usage, limit, calc, unmeasured, saved, age, lastPhase, stage, todo, sends, heard,
      missed, changes, failures>>

Phases == {"Cruise", "Watch", "Alert", "Critical"}
TooOld == 31

\* VelocityCalculator.  The time of the last measure is in unmeasured; timed says that there
\* is one, which a calculator from the file has not.
Calculators == [ema : Nat, last : Usages, limit : Limits, timed : BOOLEAN]

NewCalc(l) == [ema |-> 0, last |-> 0, limit |-> l, timed |-> FALSE]


\* Rounded up: a velocity that is not zero stays so, as with floating point.
Smoothed(v, now) == IF v = 0 THEN now ELSE (3 * now + 7 * v + 9) \div 10

More(a, b) == IF a > b THEN a - b ELSE 0

\* update(): the first measure has nothing to be compared with.
Update(c, tokens, minutes) ==
    [c EXCEPT
        !.ema = IF c.timed THEN Smoothed(@, (More(tokens, c.last) * Scale) \div minutes) ELSE @,
        !.last = tokens, !.timed = TRUE]

\* time_to_threshold() < minutes.
Within(c, tokens, minutes) ==
    c.ema > 0 /\ More(c.limit, tokens) * Scale < minutes * c.ema

NearlyFull(tokens, l) == tokens * 100 >= l * 95

Phase(c, tokens) ==
    IF NearlyFull(tokens, c.limit) \/ Within(c, tokens, 2) THEN "Critical"
    ELSE IF Within(c, tokens, 5) THEN "Alert"
    ELSE IF Within(c, tokens, 20) THEN "Watch"
    ELSE "Cruise"

\* The last step of a change of phase is to note it in last_phases.
Messages ==
    [to : Range(Targets) \cup {"last_phases"}, event : Events \cup {"insert"},
     account : Accounts, phase : Phases]

VelocityTypeOK ==
    /\ usage \in [Accounts -> Usages] /\ limit \in [Accounts -> Limits]
    /\ \A a \in Accounts : calc[a] \in Calculators \cup {NoCalc}
    /\ \A a \in Accounts : saved[a] \in Calculators \cup {NoCalc}
    /\ unmeasured \in [Accounts -> Nat] /\ age \in 0 .. TooOld
    /\ lastPhase \in [Accounts -> Phases]
    /\ stage \in {"start", "round", "send", "save", "sleep"}
    /\ todo \subseteq Accounts /\ sends \in Seq(Messages)
    /\ heard \in [Range(Targets) -> [Accounts -> Phases]]
    /\ missed \in [Range(Targets) -> [Accounts -> BOOLEAN]]
    /\ changes \in 0 .. MaxChanges /\ failures \in 0 .. MaxFailures

VelocityInit ==
    /\ usage \in [Accounts -> {0}] /\ limit \in [Accounts -> Limits]
    /\ calc = [a \in Accounts |-> NoCalc] /\ saved = [a \in Accounts |-> NoCalc]
    /\ unmeasured = [a \in Accounts |-> 0] /\ age = 0
    /\ lastPhase = [a \in Accounts |-> "Cruise"]
    /\ stage = "start" /\ todo = {} /\ sends = <<>>
    /\ heard = [t \in Range(Targets) |-> [a \in Accounts |-> "Cruise"]]
    /\ missed = [t \in Range(Targets) |-> [a \in Accounts |-> FALSE]]
    /\ changes = 0 /\ failures = 0

-----------------------------------------------------------------------------
(* The provider's side, and what goes wrong.                                *)

\* The account is used, its window begins anew, or it is given another plan.
QuotaChanges(a, u, l) ==
    /\ changes < MaxChanges /\ changes' = changes + 1
    /\ usage' = [usage EXCEPT ![a] = u]
    /\ limit' = [limit EXCEPT ![a] = l]
    /\ UNCHANGED <<calc, unmeasured, saved, age, lastPhase, stage, todo, sends, heard,
                   missed, failures>>

Failing == failures < MaxFailures /\ failures' = failures + 1

\* The application ends anywhere in the loop, and is started again after a while.
RestartApplication(minutes) ==
    /\ Failing
    /\ stage' = "start" /\ todo' = {} /\ sends' = <<>>
    /\ calc' = [a \in Accounts |-> NoCalc]
    /\ unmeasured' = [a \in Accounts |-> 0]
    /\ lastPhase' = [a \in Accounts |-> "Cruise"]
    /\ age' = IF age + minutes > TooOld THEN TooOld ELSE age + minutes
    /\ UNCHANGED <<usage, limit, saved, heard, missed, changes>>

-----------------------------------------------------------------------------
(* The loop.                                                                *)

\* load_velocity_states, restore_from_state: nothing that is older than 30 minutes, and
\* the limit of the time it was saved.
LoadStates ==
    /\ stage = "start"
    /\ calc' = IF age >= TooOld THEN calc
               ELSE [a \in Accounts |->
                        IF saved[a] = NoCalc THEN NoCalc ELSE [saved[a] EXCEPT !.timed = FALSE]]
    /\ stage' = "round" /\ todo' = Accounts
    /\ UNCHANGED <<usage, limit, unmeasured, saved, age, lastPhase, sends, heard, missed,
                   changes, failures>>

\* Mutant of SendsOf: the first target that has not asked for it ends the sending.
SendsUpToFilter(e, a, p) ==
    LET Goes(i) == \A j \in 1 .. i : e \in Asked[Targets[j]]
    IN  [i \in 1 .. Cardinality({n \in 1 .. Len(Targets) : Goes(n)}) |->
            [to |-> Targets[i], event |-> e, account |-> a, phase |-> p]]

\* WebhookSender::send goes through the targets in order.
SendsOf(e, a, p) ==
    [i \in 1 .. Len(Targets) |-> [to |-> Targets[i], event |-> e, account |-> a, phase |-> p]]

\* A change of phase goes out before it is noted, and a critical one also as a warning.
EventsOf(a, p) ==
    SendsOf("phase_transition", a, p)
        \o (IF p = "Critical" THEN SendsOf("quota_warning", a, p) ELSE <<>>)
        \o <<[to |-> "last_phases", event |-> "insert", account |-> a, phase |-> p]>>

\* fetch_quota has answered.  A calculator is made with the limit of the time, and keeps
\* it.  The phase is noted when the webhooks have been told, one after the other.
Measure(a) ==
    LET old == IF calc[a] = NoCalc THEN NewCalc(limit[a]) ELSE calc[a]
        c == Update(old, usage[a], unmeasured[a])
        p == Phase(c, usage[a])
    IN  /\ stage = "round" /\ a \in todo
        /\ todo' = todo \ {a}
        /\ calc' = [calc EXCEPT ![a] = c]
        /\ unmeasured' = [unmeasured EXCEPT ![a] = 0]
        /\ IF p = lastPhase[a] THEN UNCHANGED <<stage, sends>>
           ELSE stage' = "send" /\ sends' = EventsOf(a, p)
        /\ UNCHANGED <<usage, limit, saved, age, lastPhase, heard, missed, changes,
                       failures>>

\* The quota cannot be had: the account waits for the next round.
FetchFails(a) ==
    /\ Failing
    /\ stage = "round" /\ a \in todo
    /\ todo' = todo \ {a}
    /\ UNCHANGED <<usage, limit, calc, unmeasured, saved, age, lastPhase, stage, sends,
                   heard, missed, changes>>

\* The next webhook gets its event, or it is lost: that is logged, and the next one has
\* its turn all the same.  One that has not asked for the event is passed over.
Send ==
    LET m == Head(sends) IN
    /\ stage = "send" /\ Len(sends) > 1
    /\ sends' = Tail(sends)
    /\ \/ /\ m.event \notin Asked[m.to]
          /\ UNCHANGED <<heard, missed, failures>>
       \/ /\ m.event \in Asked[m.to]
          /\ heard' = [heard EXCEPT ![m.to][m.account] = m.phase]
          /\ missed' = [missed EXCEPT ![m.to][m.account] = FALSE]
          /\ UNCHANGED failures
       \/ /\ m.event \in Asked[m.to]
          /\ Failing
          /\ missed' = [missed EXCEPT ![m.to][m.account] = TRUE]
          /\ UNCHANGED heard
    /\ UNCHANGED <<usage, limit, calc, unmeasured, saved, age, lastPhase, stage, todo,
                   changes>>

\* last_phases.insert.
NotePhase ==
    /\ stage = "send" /\ Len(sends) = 1
    /\ lastPhase' = [lastPhase EXCEPT ![sends[1].account] = sends[1].phase]
    /\ sends' = <<>> /\ stage' = "round"
    /\ UNCHANGED <<usage, limit, calc, unmeasured, saved, age, todo, heard, missed,
                   changes, failures>>

\* save_velocity_states writes a temporary file that nobody else writes, and renames it.
SaveStates ==
    /\ stage = "round" /\ todo = {}
    /\ stage' = "sleep"
    /\ \/ saved' = calc /\ age' = 0 /\ UNCHANGED failures
       \/ Failing /\ UNCHANGED <<saved, age>>
    /\ UNCHANGED <<usage, limit, calc, unmeasured, lastPhase, todo, sends, heard, missed,
                   changes>>

Sleep(minutes) ==
    /\ stage = "sleep"
    /\ stage' = "round" /\ todo' = Accounts
    /\ unmeasured' = [a \in Accounts |-> unmeasured[a] + minutes]
    /\ age' = IF age + minutes > TooOld THEN TooOld ELSE age + minutes
    /\ UNCHANGED <<usage, limit, calc, saved, lastPhase, sends, heard, missed, changes,
                   failures>>

LoopStep ==
    \/ LoadStates \/ Send \/ NotePhase \/ SaveStates
    \/ \E a \in Accounts : Measure(a) \/ FetchFails(a)
    \/ \E m \in Gaps : Sleep(m)

VelocityNext ==
    \/ LoopStep
    \/ \E a \in Accounts, u \in Usages, l \in Limits : QuotaChanges(a, u, l)
    \/ \E m \in Gaps : RestartApplication(m)

VelocitySpec == VelocityInit /\ [][VelocityNext]_velocityVars

\* The loop is a task that only awaits calls with a timeout.
FairVelocitySpec == VelocitySpec /\ WF_velocityVars(LoopStep)

-----------------------------------------------------------------------------
(* Properties.                                                              *)

Telling(a) == sends # <<>> /\ sends[1].account = a

\* Nobody who asked stays without news of an account that is in need, however often the
\* application is restarted and whoever else could not be reached: every webhook has
\* heard of the phase that was noted, unless the very message to it got lost.
AlarmsAreTold ==
    \A a \in Accounts, t \in Range(Targets) :
        ~Telling(a) /\ ~missed[t][a] =>
            /\ lastPhase[a] # "Cruise" /\ "phase_transition" \in Asked[t]
                  => heard[t][a] = lastPhase[a]
            /\ lastPhase[a] = "Critical" /\ "quota_warning" \in Asked[t]
                  => heard[t][a] = "Critical"

CalmOrFull(a) ==
    \/ lastPhase[a] = "Cruise"
    \/ calc[a] # NoCalc /\ NearlyFull(usage[a], calc[a].limit)

=============================================================================
