------------------------ MODULE SwitchControllerProofs ------------------------
(***************************************************************************)
(* What SwitchController guarantees for any accounts, thresholds, pauses   *)
(* and numbers of changes: it keeps its pauses and does not flap.          *)
(***************************************************************************)
EXTENDS SwitchController, FiniteSetTheorems, WellFoundedInduction, TLAPS

-----------------------------------------------------------------------------
(* The choice of the next account.                                          *)

LessThan == OpToRel(<, Nat)

\* A set of numbers has a least element, and Least returns it.
LEMMA LeastIsLeast ==
    ASSUME NEW s \in SUBSET Nat, s # {}
    PROVE  Least(s) \in s /\ \A j \in s : Least(s) <= j
  <1>1. \E x \in s : \A y \in s : <<y, x>> \notin LessThan
    BY NatLessThanWellFounded, WFMin DEF LessThan
  <1>2. PICK x \in s : \A y \in s : <<y, x>> \notin LessThan
    BY <1>1
  <1>3. \A y \in s : ~(y < x)
    BY <1>2 DEF LessThan, OpToRel
  <1>4. \A y \in s : x <= y
    BY <1>3
  <1>. QED BY <1>4 DEF Least

\* check_rotation returns one of the eligible accounts, and, if there are two of
\* them, never the account that is active.
THEOREM RotationMovesOn ==
    ASSUME NEW e \in SUBSET Keys, e # {}
    PROVE  /\ NextInOrder(e) \in e
           /\ active \in Keys \cup {NoKey} /\ e # {active} => NextInOrder(e) # active
  <1>. DEFINE after == {k \in e : k > active}
  <1>1. e \in SUBSET Nat /\ after \in SUBSET Nat
    BY KeysAssumption
  <1>2. CASE active \in e /\ after # {}
    <2>1. NextInOrder(e) = Least(after) /\ Least(after) \in after
      BY <1>1, <1>2, LeastIsLeast DEF NextInOrder
    <2>. QED BY <1>1, <1>2, <2>1
  <1>3. CASE ~(active \in e /\ after # {})
    <2>1. NextInOrder(e) = Least(e) /\ Least(e) \in e /\ \A j \in e : Least(e) <= j
      BY <1>1, <1>3, LeastIsLeast DEF NextInOrder
    <2>2. ASSUME Least(e) = active, e # {active} PROVE FALSE
      <3>1. PICK j \in e : j # active
        BY <2>1, <2>2
      <3>2. active \in e /\ active <= j
        BY <2>1, <2>2
      <3>. QED BY <1>1, <1>3, <3>1, <3>2
    <2>. QED BY <2>1, <2>2
  <1>. QED BY <1>2, <1>3

\* The accounts either decision may turn to are accounts of the cache.
LEMMA EligibleKeys ==
    /\ Eligible(invalid) \subseteq Keys
    /\ RotationDue => Eligible(invalid) # {}
  <1>1. Cardinality({}) = 0
    BY FS_EmptySet
  <1>. QED BY <1>1 DEF Eligible, RotationDue

-----------------------------------------------------------------------------
(* Types.                                                                   *)

\* At the start every clock is 0.
LEMMA InitSwitchType == SwitchInit => SwitchTypeOK
  <1>1. 0 \in Levels /\ 0 \in Ages /\ 0 \in 0 .. MaxChanges
    BY ThresholdsAssumption, TimesAssumption, ChangesAssumption DEF Levels, Ages, Horizon
  <1>. QED
    BY <1>1, AccountsAssumption
    DEF SwitchInit, SwitchTypeOK, NoChoice, Choice, Reasons

\* A decision carries an account and its quota.
LEMMA DecideType ==
    ASSUME SwitchTypeOK, NEW k \in Keys, NEW reason \in Reasons, Decide(k, reason)
    PROVE  decision' \in [to : Choice, reason : Reasons] /\ decision'.to.key \in Keys
  BY DEF SwitchTypeOK, Decide, Choice

\* The steps of the loop keep the types.
LEMMA CycleType ==
    ASSUME SwitchTypeOK, Cycle
    PROVE  SwitchTypeOK'
  <1>. USE DEF Loop, accounts, controller
  <1>0. 0 \in Ages
    BY TimesAssumption DEF Ages, Horizon
  <1>1. CASE SetInvalidAccounts
    BY <1>1 DEF SetInvalidAccounts, SwitchTypeOK
  <1>2. CASE TryAutoSwitch
    <2>1. CASE step' = "rotate" /\ UNCHANGED decision
      BY <1>2, <2>1 DEF TryAutoSwitch, SwitchTypeOK
    <2>2. CASE \E k \in Best(Candidates(invalid)) : Decide(k, "degradation")
      <3>1. PICK k \in Best(Candidates(invalid)) : Decide(k, "degradation")
        BY <2>2
      <3>2. k \in Keys /\ "degradation" \in Reasons
        BY <3>1, EligibleKeys DEF Best, Candidates, Reasons
      <3>. QED BY <1>2, <3>1, <3>2, DecideType DEF TryAutoSwitch, SwitchTypeOK, Decide
    <2>. QED BY <1>2, <2>1, <2>2 DEF TryAutoSwitch
  <1>3. CASE CheckRotation
    <2>1. CASE ~RotationDue
      BY <1>3, <2>1 DEF CheckRotation, SwitchTypeOK
    <2>2. CASE RotationDue
      <3>1. NextInOrder(Eligible(invalid)) \in Keys /\ "rotation" \in Reasons
        BY <2>2, EligibleKeys, RotationMovesOn DEF Reasons
      <3>2. Decide(NextInOrder(Eligible(invalid)), "rotation")
        BY <1>3, <2>2 DEF CheckRotation
      <3>. QED BY <1>3, <3>1, <3>2, DecideType DEF CheckRotation, SwitchTypeOK, Decide
    <2>. QED BY <2>1, <2>2
  <1>4. CASE ApplyDecision
    <2>1. NoChoice \in Choice
      BY ThresholdsAssumption DEF NoChoice, Choice, Levels
    <2>. QED BY <1>0, <1>4, <2>1 DEF ApplyDecision, SwitchTypeOK
  <1>5. CASE RecordSwitch
    BY <1>0, <1>5 DEF RecordSwitch, SwitchTypeOK
  <1>. QED BY <1>1, <1>2, <1>3, <1>4, <1>5 DEF Cycle

\* So do the commands, the peers and the quotas.
LEMMA OutsideType ==
    ASSUME SwitchTypeOK, Outside
    PROVE  SwitchTypeOK'
  <1>. USE DEF Meanwhile, accounts, controller
  <1>1. NoChoice \in Choice
    BY ThresholdsAssumption DEF NoChoice, Choice, Levels
  <1>2. Change => changes' \in 0 .. MaxChanges
    BY ChangesAssumption DEF Change, SwitchTypeOK
  <1>3. ASSUME NEW k \in Keys, NEW five \in Levels, NEW seven \in Levels,
               UsageChanges(k, five, seven)
        PROVE  SwitchTypeOK'
    BY <1>2, <1>3 DEF UsageChanges, SwitchTypeOK
  <1>4. ASSUME NEW k \in Keys,
               MarkInvalid(k) \/ TakeMarkOff(k) \/ \E off \in BOOLEAN : SetAutoSwitchDisabled(k, off)
        PROVE  SwitchTypeOK'
    BY <1>2, <1>4 DEF MarkInvalid, TakeMarkOff, SetAutoSwitchDisabled, SwitchTypeOK
  <1>5. ASSUME NEW k \in Keys, DeleteAccount(k) PROVE SwitchTypeOK'
    BY <1>1, <1>2, <1>5 DEF DeleteAccount, Activate, SwitchTypeOK
  <1>6. ASSUME NEW k \in Keys, NEW gone \in BOOLEAN, NEW off \in BOOLEAN,
               NEW a \in Keys \cup {NoKey}, MergeFromJson(k, gone, off, a)
        PROVE  SwitchTypeOK'
    BY <1>1, <1>2, <1>6 DEF MergeFromJson, Activate, SwitchTypeOK
  <1>7. ASSUME NEW k \in Keys, PeerSwitches(k) \/ BeginSwitch(k) PROVE SwitchTypeOK'
    BY <1>1, <1>2, <1>7 DEF PeerSwitches, BeginSwitch, Activate, SwitchTypeOK
  <1>8. ASSUME NEW refreshed \in BOOLEAN, EndSwitch(refreshed) PROVE SwitchTypeOK'
    BY <1>1, <1>8 DEF EndSwitch, Activate, SwitchTypeOK
  <1>. QED BY <1>3, <1>4, <1>5, <1>6, <1>7, <1>8 DEF Outside

\* Clocks stop at the horizon.
LEMMA TickType ==
    ASSUME SwitchTypeOK, Tick
    PROVE  SwitchTypeOK'
  <1>1. \A age \in Ages : Older(age) \in Ages /\ Older(age) >= age
    BY TimesAssumption DEF Older, Ages, Horizon
  <1>. QED BY <1>1 DEF Tick, SwitchTypeOK, accounts

\* Every step keeps the types.
LEMMA NextSwitchType == SwitchTypeOK /\ [SwitchNext]_switchVars => SwitchTypeOK'
  <1>1. ASSUME SwitchTypeOK, UNCHANGED switchVars PROVE SwitchTypeOK'
    BY <1>1 DEF switchVars, SwitchTypeOK
  <1>. QED BY <1>1, CycleType, OutsideType, TickType DEF SwitchNext

\* The types hold in every behaviour: whatever the sets of eligible accounts have
\* become, a decision is an account.
THEOREM SwitchTypeCorrect == SwitchSpec => []SwitchTypeOK
  BY InitSwitchType, NextSwitchType, PTL DEF SwitchSpec

-----------------------------------------------------------------------------
(* The pauses.                                                              *)

\* The horizon is far enough to tell both pauses, and no clock passes it.
LEMMA Clocks ==
    ASSUME SwitchTypeOK
    PROVE  /\ sinceSwitch \in Nat /\ sinceRotation \in Nat /\ sinceAuto \in Nat
           /\ sinceSwitch <= Horizon /\ sinceRotation <= Horizon /\ sinceAuto <= Horizon
           /\ Grace \in Nat /\ Interval \in Nat /\ Horizon \in Nat
  BY TimesAssumption DEF SwitchTypeOK, Ages, Horizon

\* Every step keeps the controller's clocks behind the switch they are about.
LEMMA NextPause == SwitchTypeOK /\ PauseInv /\ [SwitchNext]_switchVars => PauseInv'
  <1>. SUFFICES ASSUME SwitchTypeOK, PauseInv, [SwitchNext]_switchVars PROVE PauseInv'
    OBVIOUS
  <1>0. /\ sinceSwitch \in Nat /\ sinceRotation \in Nat /\ sinceAuto \in Nat
        /\ sinceSwitch <= Horizon /\ sinceRotation <= Horizon /\ sinceAuto <= Horizon
        /\ Grace \in Nat /\ Interval \in Nat /\ Horizon \in Nat
    BY Clocks
  <1>1. CASE SetInvalidAccounts
    BY <1>1 DEF SetInvalidAccounts, PauseInv
  <1>2. CASE TryAutoSwitch
    BY <1>0, <1>2 DEF TryAutoSwitch, controller, PauseInv, Decide, ShouldLeave, Pause
  <1>3. CASE CheckRotation
    BY <1>0, <1>3 DEF CheckRotation, controller, PauseInv, Decide, RotationDue, Pause
  <1>4. CASE ApplyDecision
    BY <1>4 DEF ApplyDecision, PauseInv
  <1>5. CASE RecordSwitch
    BY <1>0, <1>5 DEF RecordSwitch, PauseInv
  <1>6. CASE Outside
    <2>1. UNCHANGED <<controller, step, decision, sinceAuto>>
      BY <1>6
      DEF Outside, Meanwhile, UsageChanges, MarkInvalid, TakeMarkOff, SetAutoSwitchDisabled,
          DeleteAccount, MergeFromJson, PeerSwitches, BeginSwitch, EndSwitch
    <2>. QED BY <2>1 DEF controller, PauseInv, Pause
  <1>7. CASE Tick
    <2>1. \A a, b \in Nat : a <= b /\ b <= Horizon => Older(a) <= Older(b) /\ b <= Older(b)
      BY <1>0 DEF Older
    <2>2. /\ Older(sinceAuto) >= sinceAuto /\ Older(sinceAuto) \in Nat
          /\ sinceSwitch <= sinceAuto => Older(sinceSwitch) <= Older(sinceAuto)
          /\ sinceRotation <= sinceAuto => Older(sinceRotation) <= Older(sinceAuto)
      BY <1>0, <2>1 DEF Older
    <2>3. Pause(decision.reason) \in Nat
      BY <1>0 DEF Pause
    <2>. QED BY <1>0, <1>7, <2>2, <2>3 DEF Tick, PauseInv, Pause
  <1>8. CASE UNCHANGED switchVars
    BY <1>8 DEF switchVars, PauseInv, Pause
  <1>. QED BY <1>1, <1>2, <1>3, <1>4, <1>5, <1>6, <1>7, <1>8 DEF SwitchNext, Cycle

\* The controller keeps its pauses, however long its writes take and whoever else
\* switches the account meanwhile.
THEOREM PausesAreKept == SwitchSpec => GraceHolds
  <1>1. SwitchInit => PauseInv
    BY DEF SwitchInit, PauseInv
  <1>2. PauseInv /\ [SwitchNext]_switchVars =>
            [step = "apply" /\ step' = "record" => sinceAuto >= Pause(decision.reason)]_switchVars
    BY DEF PauseInv
  <1>. QED BY <1>1, <1>2, InitSwitchType, NextSwitchType, NextPause, PTL DEF SwitchSpec, GraceHolds

-----------------------------------------------------------------------------
(* No flapping.                                                             *)

\* What was chosen for its quota had some to spare.
LEMMA NextChosen == SwitchTypeOK /\ ChosenInv /\ [SwitchNext]_switchVars => ChosenInv'
  <1>. SUFFICES ASSUME SwitchTypeOK, ChosenInv, [SwitchNext]_switchVars PROVE ChosenInv'
    OBVIOUS
  <1>1. CASE SetInvalidAccounts
    BY <1>1 DEF SetInvalidAccounts, ChosenInv
  <1>2. CASE TryAutoSwitch
    BY <1>2 DEF TryAutoSwitch, ChosenInv, Decide, Best, Candidates, Spare
  <1>3. CASE CheckRotation
    BY <1>3 DEF CheckRotation, ChosenInv, Decide
  <1>4. CASE ApplyDecision
    BY <1>4 DEF ApplyDecision, ChosenInv, NoChoice
  <1>5. CASE RecordSwitch
    BY <1>5 DEF RecordSwitch, ChosenInv
  <1>6. CASE Outside
    <2>1. UNCHANGED <<step, decision>> /\ (UNCHANGED chosen \/ chosen' = NoChoice)
      BY <1>6
      DEF Outside, Meanwhile, UsageChanges, MarkInvalid, TakeMarkOff, SetAutoSwitchDisabled,
          DeleteAccount, MergeFromJson, PeerSwitches, BeginSwitch, EndSwitch, Activate
    <2>. QED BY <2>1 DEF ChosenInv, NoChoice
  <1>7. CASE Tick
    BY <1>7 DEF Tick, ChosenInv
  <1>8. CASE UNCHANGED switchVars
    BY <1>8 DEF switchVars, ChosenInv
  <1>. QED BY <1>1, <1>2, <1>3, <1>4, <1>5, <1>6, <1>7, <1>8 DEF SwitchNext, Cycle

\* Only try_auto_switch turns a try into a decision, and only for an account whose
\* quota is used up.
LEMMA TryDecides ==
    ASSUME [SwitchNext]_switchVars, step = "try", step' = "apply"
    PROVE  Degraded(active)
  <1>1. CASE TryAutoSwitch
    BY <1>1 DEF TryAutoSwitch, ShouldLeave
  <1>2. CASE Outside
    BY <1>2
    DEF Outside, Meanwhile, UsageChanges, MarkInvalid, TakeMarkOff, SetAutoSwitchDisabled,
        DeleteAccount, MergeFromJson, PeerSwitches, BeginSwitch, EndSwitch
  <1>. QED
    BY <1>1, <1>2
    DEF SwitchNext, Cycle, SetInvalidAccounts, CheckRotation, ApplyDecision, RecordSwitch,
        Tick, switchVars

\* The controller leaves no account it has chosen for its quota before more of that
\* has been used.
THEOREM NoFlappingHolds == SwitchSpec => NoFlapping
  <1>1. SwitchInit => ChosenInv
    BY DEF SwitchInit, ChosenInv, NoChoice
  <1>2. SwitchTypeOK /\ ChosenInv /\ [SwitchNext]_switchVars =>
            [step = "try" /\ step' = "apply" /\ chosen.key = active /\ active # NoKey =>
                used5[active] > chosen.five \/ used7[active] > chosen.seven]_switchVars
    <2>. SUFFICES ASSUME SwitchTypeOK, ChosenInv, [SwitchNext]_switchVars,
                         step = "try", step' = "apply", chosen.key = active, active # NoKey
                  PROVE  used5[active] > chosen.five \/ used7[active] > chosen.seven
      OBVIOUS
    <2>1. Degraded(active)
      BY TryDecides
    <2>2. active \in Keys /\ used5[active] \in Nat /\ used7[active] \in Nat
      BY ThresholdsAssumption DEF SwitchTypeOK, Levels
    <2>3. /\ chosen.five \in Nat /\ chosen.seven \in Nat
          /\ chosen.five < Threshold5 /\ chosen.seven < Threshold7
      BY ThresholdsAssumption DEF SwitchTypeOK, ChosenInv, Choice, Levels
    <2>. QED BY <2>1, <2>2, <2>3, ThresholdsAssumption DEF Degraded
  <1>. QED BY <1>1, <1>2, InitSwitchType, NextSwitchType, NextChosen, PTL DEF SwitchSpec, NoFlapping
=============================================================================
