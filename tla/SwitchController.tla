--------------------------- MODULE SwitchController ---------------------------
(***************************************************************************)
(* Which account is active: the SwitchController of the application's      *)
(* quota loop (crates/core/src/switch_controller.rs), which leaves an      *)
(* account whose quota is used up and rotates between accounts, beside the *)
(* other writers of active_account: the commands and the peers.            *)
(*                                                                         *)
(* The controller decides under the read lock of the credentials, and the  *)
(* loop (tauri-app/src-tauri/src/lib.rs) writes the decision later, under  *)
(* a lock of its own, and records it later still.                          *)
(*                                                                         *)
(* Used quota is a level, the fraction of compute_usage_fractions; time is *)
(* counted in ticks, and no clock counts beyond Horizon.                   *)
(***************************************************************************)
EXTENDS Integers, FiniteSets

CONSTANTS
    Keys,        \* account keys, numbered in the order in which they sort
    NoKey,       \* value of active while no account is
    ApiKeys,     \* bound: accounts that may be of type "api"
    Priority,    \* the priority of each account, 50 if it has none
    Full,        \* the level of a quota that is used up
    Threshold5,  \* auto_switch_threshold_5h
    Threshold7,  \* auto_switch_threshold_7d
    Grace,       \* auto_switch_grace_secs
    Interval,    \* rotation_interval_secs
    MaxChanges   \* bound: changes from outside the loop

ASSUME KeysAssumption == Keys \subseteq Nat /\ NoKey \notin Keys
ASSUME AccountsAssumption == ApiKeys \subseteq Keys /\ Priority \in [Keys -> Nat]
ASSUME ThresholdsAssumption ==
    /\ Full \in Nat /\ Threshold5 \in Nat /\ Threshold7 \in Nat
ASSUME TimesAssumption == Grace \in Nat /\ Interval \in Nat
ASSUME ChangesAssumption == MaxChanges \in Nat

VARIABLES
    active,        \* active_account
    api,           \* accounts of type "api"
    deleted,       \* accounts with the flag of a soft delete
    disabled,      \* accounts with auto_switch_disabled
    used5, used7,  \* used quota of each account
    marked,        \* invalid_grant_accounts of the application
    invalid,       \* the controller's copy of it
    rotates,       \* rotation_enabled
    sinceSwitch,   \* time since last_switch_at
    sinceRotation, \* time since last_rotation_at
    step,          \* where the loop is in its cycle
    decision,      \* the SwitchDecision it carries
    manual,        \* the target of a switch_account that awaits a refresh
    changes,       \* changes so far
    sinceAuto,     \* history: time since the loop last wrote active_account
    chosen         \* history: the active account and its quota, if chosen for its quota

accounts == <<api, deleted, disabled, used5, used7>>
controller == <<invalid, sinceSwitch, sinceRotation>>
switchVars == <<active, api, deleted, disabled, used5, used7, marked, invalid, rotates,
                sinceSwitch, sinceRotation, step, decision, manual, changes,
                sinceAuto, chosen>>

Levels == 0 .. Full
Horizon == IF Grace > Interval THEN Grace ELSE Interval
Ages == 0 .. Horizon
Reasons == {"degradation", "rotation"}

\* An account with its quota at the moment of a decision.
Choice == [key : Keys \cup {NoKey}, five : Levels, seven : Levels]
NoChoice == [key |-> NoKey, five |-> 0, seven |-> 0]

SwitchTypeOK ==
    /\ active \in Keys \cup {NoKey}
    /\ api \in SUBSET Keys
    /\ deleted \in SUBSET Keys
    /\ disabled \in SUBSET Keys
    /\ used5 \in [Keys -> Levels]
    /\ used7 \in [Keys -> Levels]
    /\ marked \in SUBSET Keys
    /\ invalid \in SUBSET Keys
    /\ rotates \in BOOLEAN
    /\ sinceSwitch \in Ages
    /\ sinceRotation \in Ages
    /\ step \in {"visit", "try", "rotate", "apply", "record"}
    /\ decision \in [to : Choice, reason : Reasons]
    /\ step = "apply" => decision.to.key \in Keys
    /\ manual \in Keys \cup {NoKey}
    /\ changes \in 0 .. MaxChanges
    /\ sinceAuto \in Ages
    /\ chosen \in Choice

\* SwitchController::new, on accounts whose quotas are fresh.
SwitchInit ==
    /\ active \in Keys \cup {NoKey}
    /\ api \in SUBSET ApiKeys
    /\ deleted = {}
    /\ disabled = {}
    /\ used5 = [k \in Keys |-> 0]
    /\ used7 = [k \in Keys |-> 0]
    /\ marked = {}
    /\ invalid = {}
    /\ rotates \in BOOLEAN
    /\ sinceSwitch = 0
    /\ sinceRotation = 0
    /\ step = "visit"
    /\ decision = [to |-> NoChoice, reason |-> "rotation"]
    /\ manual = NoKey
    /\ changes = 0
    /\ sinceAuto = 0
    /\ chosen = NoChoice

-----------------------------------------------------------------------------
(* The decisions.                                                           *)

\* Accounts either decision may turn to.
Eligible(excluded) == Keys \ (deleted \cup api \cup disabled \cup excluded)

Degraded(k) == used5[k] >= Threshold5 \/ used7[k] >= Threshold7

UnderOneThreshold(k) == used5[k] < Threshold5 \/ used7[k] < Threshold7

\* A candidate must be below both thresholds.
Spare(k) == used5[k] < Threshold5 /\ used7[k] < Threshold7

Candidates(excluded) == {k \in Eligible(excluded) \ {active} : Spare(k)}

Score(k) == IF used5[k] > used7[k] THEN used5[k] ELSE used7[k]

\* The lowest score, and among those the lowest priority; the accounts come from a
\* hash map, so among equals it may be any.
Best(c) ==
    {k \in c : \A j \in c :
        Score(k) < Score(j) \/ (Score(k) = Score(j) /\ Priority[k] <= Priority[j])}

\* try_auto_switch looks at the active account: api and marked ones are left alone.
ShouldLeave ==
    /\ active \in Keys \ (api \cup invalid)
    /\ Degraded(active)
    /\ sinceSwitch >= Grace

Least(s) == CHOOSE k \in s : \A j \in s : k <= j

FirstOther(e) == Least(e \ {active})

\* check_rotation: the one that sorts after the active account, or else the first.
NextInOrder(e) ==
    LET after == {k \in e : k > active}
    IN  IF active \in e /\ after # {} THEN Least(after) ELSE Least(e)

RotationDue ==
    /\ rotates
    /\ sinceRotation >= Interval
    /\ active # NoKey
    /\ Cardinality(Eligible(invalid)) >= 2

Decide(k, reason) ==
    /\ decision' = [to |-> [key |-> k, five |-> used5[k], seven |-> used7[k]],
                    reason |-> reason]
    /\ step' = "apply"

-----------------------------------------------------------------------------
(* The end of a cycle of the loop.                                          *)

Loop == UNCHANGED <<accounts, marked, rotates, manual, changes>>

LearnInvalid ==
    /\ Loop
    /\ step = "visit"
    /\ invalid' = invalid \cup marked
    /\ step' = "try"
    /\ UNCHANGED <<active, sinceSwitch, sinceRotation, decision, sinceAuto, chosen>>

\* set_invalid_accounts, once the accounts have been visited.
SetInvalidAccounts ==
    /\ Loop
    /\ step = "visit"
    /\ invalid' = marked
    /\ step' = "try"
    /\ UNCHANGED <<active, sinceSwitch, sinceRotation, decision, sinceAuto, chosen>>

TryAutoSwitch ==
    /\ Loop
    /\ step = "try"
    /\ IF ShouldLeave /\ Candidates(invalid) # {}
       THEN \E k \in Best(Candidates(invalid)) : Decide(k, "degradation")
       ELSE step' = "rotate" /\ UNCHANGED decision
    /\ UNCHANGED <<active, controller, sinceAuto, chosen>>

CheckRotation ==
    /\ Loop
    /\ step = "rotate"
    /\ IF RotationDue THEN Decide(NextInOrder(Eligible(invalid)), "rotation")
       ELSE step' = "visit" /\ UNCHANGED decision
    /\ UNCHANGED <<active, controller, sinceAuto, chosen>>

\* The loop writes the account that was chosen, whatever it has become.
ApplyDecision ==
    /\ Loop
    /\ step = "apply"
    /\ active' = decision.to.key
    /\ sinceAuto' = 0
    /\ chosen' = IF decision.reason = "degradation" THEN decision.to ELSE NoChoice
    /\ step' = "record"
    /\ UNCHANGED <<controller, decision>>

RecordRotationOnly ==
    /\ Loop
    /\ step = "record"
    /\ sinceRotation' = 0
    /\ step' = "visit"
    /\ UNCHANGED <<active, invalid, sinceSwitch, decision, sinceAuto, chosen>>

\* record_switch, after the switch was stored and logged.
RecordSwitch ==
    /\ Loop
    /\ step = "record"
    /\ sinceSwitch' = 0
    /\ sinceRotation' = 0
    /\ step' = "visit"
    /\ UNCHANGED <<active, invalid, decision, sinceAuto, chosen>>

-----------------------------------------------------------------------------
(* What happens meanwhile.                                                  *)

Meanwhile == UNCHANGED <<rotates, controller, step, decision, sinceAuto>>
Change == changes < MaxChanges /\ changes' = changes + 1

UsageUnclamped(k, five, seven) ==
    /\ Meanwhile /\ Change
    /\ used5' = [used5 EXCEPT ![k] = five + 1]
    /\ used7' = [used7 EXCEPT ![k] = seven]
    /\ UNCHANGED <<active, api, deleted, disabled, marked, manual, chosen>>

\* The quota round, a peer's update or the end of a window sets an account's quota:
\* as compute_usage_fractions sees it, never more than all of it.
UsageChanges(k, five, seven) ==
    /\ Meanwhile /\ Change
    /\ used5' = [used5 EXCEPT ![k] = five]
    /\ used7' = [used7 EXCEPT ![k] = seven]
    /\ UNCHANGED <<active, api, deleted, disabled, marked, manual, chosen>>

\* A refresh is refused; one that succeeds, or a quota that arrives, takes the
\* mark off.
MarkInvalid(k) ==
    /\ Meanwhile /\ Change
    /\ marked' = marked \cup {k}
    /\ UNCHANGED <<active, accounts, manual, chosen>>

TakeMarkOff(k) ==
    /\ Meanwhile
    /\ marked' = marked \ {k}
    /\ UNCHANGED <<active, accounts, manual, changes, chosen>>

\* update_account.
SetAutoSwitchDisabled(k, off) ==
    /\ Meanwhile /\ Change
    /\ disabled' = IF off THEN disabled \cup {k} ELSE disabled \ {k}
    /\ UNCHANGED <<active, api, deleted, used5, used7, marked, manual, chosen>>

\* An account that becomes active by another hand was not chosen for its quota.
Activate(k) ==
    /\ active' = k
    /\ chosen' = NoChoice

DeleteAccount(k) ==
    /\ Meanwhile /\ Change
    /\ deleted' = deleted \cup {k}
    /\ IF active = k THEN Activate(NoKey) ELSE UNCHANGED <<active, chosen>>
    /\ UNCHANGED <<api, disabled, used5, used7, marked, manual>>

\* merge_from_json takes a peer's copy of an account, with the flags it has there
\* (the quota of the copy comes by UsageChanges), and the peer's active account
\* if it has one.
MergeFromJson(k, gone, off, a) ==
    /\ Meanwhile /\ Change
    /\ deleted' = IF gone THEN deleted \cup {k} ELSE deleted \ {k}
    /\ disabled' = IF off THEN disabled \cup {k} ELSE disabled \ {k}
    /\ IF a = NoKey THEN UNCHANGED <<active, chosen>> ELSE Activate(a)
    /\ UNCHANGED <<api, used5, used7, marked, manual>>

\* handle_account_switch.
PeerSwitches(k) ==
    /\ Meanwhile /\ Change
    /\ Activate(k)
    /\ UNCHANGED <<accounts, marked, manual>>

\* switch_account looks for the account, refreshes its token if it must, and then
\* writes it without another look, or ends where the refresh failed.
BeginSwitch(k) ==
    /\ Meanwhile /\ Change
    /\ manual = NoKey
    /\ manual' = k
    /\ UNCHANGED <<active, accounts, marked, chosen>>

EndSwitch(refreshed) ==
    /\ Meanwhile
    /\ manual # NoKey
    /\ IF refreshed THEN Activate(manual) ELSE UNCHANGED <<active, chosen>>
    /\ manual' = NoKey
    /\ UNCHANGED <<accounts, marked, changes>>

Older(age) == IF age < Horizon THEN age + 1 ELSE age

Tick ==
    /\ sinceSwitch' = Older(sinceSwitch)
    /\ sinceRotation' = Older(sinceRotation)
    /\ sinceAuto' = Older(sinceAuto)
    /\ UNCHANGED <<active, accounts, marked, invalid, rotates, step, decision,
                   manual, changes, chosen>>

-----------------------------------------------------------------------------
Cycle ==
    \/ SetInvalidAccounts
    \/ TryAutoSwitch
    \/ CheckRotation
    \/ ApplyDecision
    \/ RecordSwitch

Outside ==
    \/ \E k \in Keys :
          \/ \E five, seven \in Levels : UsageChanges(k, five, seven)
          \/ MarkInvalid(k) \/ TakeMarkOff(k)
          \/ \E off \in BOOLEAN : SetAutoSwitchDisabled(k, off)
          \/ DeleteAccount(k)
          \/ \E gone, off \in BOOLEAN, a \in Keys \cup {NoKey} : MergeFromJson(k, gone, off, a)
          \/ PeerSwitches(k) \/ BeginSwitch(k)
    \/ \E refreshed \in BOOLEAN : EndSwitch(refreshed)

SwitchNext == Cycle \/ Outside \/ Tick

SwitchSpec == SwitchInit /\ [][SwitchNext]_switchVars

\* The loop never ends, and time goes on; nothing is asked of the outside.
SwitchFairness == WF_switchVars(Cycle) /\ WF_switchVars(Tick)

FairSwitchSpec == SwitchSpec /\ SwitchFairness

-----------------------------------------------------------------------------
(* Properties.                                                              *)

(* The inductive invariants behind GraceHolds and NoFlapping.               *)

\* The time the code gives a decision before the next one.
Pause(reason) == IF reason = "rotation" THEN Interval ELSE Grace

\* The controller's clocks are never ahead of the last switch, except between the
\* switch and its record; a decision carried was due.
PauseInv ==
    /\ step # "record" => sinceSwitch <= sinceAuto /\ sinceRotation <= sinceAuto
    /\ step = "apply" => sinceAuto >= Pause(decision.reason)

\* An account is only chosen for its quota while it has some to spare.
ChosenInv ==
    /\ chosen.key # NoKey => chosen.five < Threshold5 /\ chosen.seven < Threshold7
    /\ step = "apply" /\ decision.reason = "degradation" =>
          decision.to.five < Threshold5 /\ decision.to.seven < Threshold7

\* The controller keeps its pauses: from the moment the loop has written one account
\* to the moment it writes the next, the grace period passes if the next one is
\* for its quota and the interval if it is a rotation, although both are measured
\* from a record that is made after the write and checked before it.
GraceHolds ==
    [][step = "apply" /\ step' = "record" => sinceAuto >= Pause(decision.reason)]_switchVars

\* The controller does not flap: an account it has chosen for its quota is not left
\* for its quota unless more of that has been used since it was chosen.
NoFlapping ==
    [][step = "try" /\ step' = "apply" /\ chosen.key = active /\ active # NoKey =>
          used5[active] > chosen.five \/ used7[active] > chosen.seven]_switchVars

\* An active account whose quota is used up is left, as long as there is one to turn
\* to: neither the grace period, nor rotations, nor an old copy of the marks keeps
\* the loop on it.
UsedUp ==
    /\ active \in Keys \ (api \cup marked)
    /\ Degraded(active)
    /\ Candidates(marked) # {}
UsedUpIsLeft == UsedUp ~> ~UsedUp

\* With rotation enabled and quota to spare everywhere, every eligible account gets
\* its turn, again and again, whoever else has switched in between.
Rotating(k) ==
    /\ rotates
    /\ active # NoKey
    /\ k \in Eligible(marked)
    /\ Cardinality(Eligible(marked)) >= 2
    /\ \A j \in Keys : Spare(j)
RotationReachesAll == \A k \in Keys : <>[]Rotating(k) => []<>(active = k)
=============================================================================
