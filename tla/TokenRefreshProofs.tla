-------------------------- MODULE TokenRefreshProofs --------------------------
(***************************************************************************)
(* What TokenRefresh guarantees for any number of accounts, commands and   *)
(* events: the accepted refresh token is kept, and the cooldown is right.  *)
(***************************************************************************)
EXTENDS TokenRefresh, TLAPS

\* What a caller is doing, as TokenTypeOK types it.
Calls == [at : Steps, op : Ops, key : Keys \cup {NoKey}, rt : Nat]

USE DEF setup

-----------------------------------------------------------------------------
(* The three ways a step changes what a caller is doing.                    *)

\* Goto changes the step of one caller and nothing else.
LEMMA GotoCall ==
    ASSUME TokenTypeOK, NEW c \in Callers, NEW step \in Steps, Goto(c, step)
    PROVE  /\ call' \in [Callers -> Calls]
           /\ call'[c].at = step /\ call'[c].op = call[c].op
           /\ call'[c].key = call[c].key /\ call'[c].rt = call[c].rt
           /\ \A d \in Callers \ {c} : call'[d] = call[d]
  BY DEF TokenTypeOK, Goto, Calls

\* Done leaves the caller without an account.
LEMMA DoneCall ==
    ASSUME TokenTypeOK, NEW c \in Callers, Done(c)
    PROVE  /\ call' \in [Callers -> Calls]
           /\ call'[c].at \in {"idle", "next"} /\ call'[c].key = NoKey
           /\ \A d \in Callers \ {c} : call'[d] = call[d]
  BY DEF TokenTypeOK, Done, Free, Calls, Steps, Ops

\* StartOn gives it an account and the token the cache holds for it.
LEMMA StartCall ==
    ASSUME TokenTypeOK, NEW c \in Callers, NEW step \in Steps, NEW op \in Ops, NEW k \in Keys,
           StartOn(c, step, op, k)
    PROVE  /\ call' \in [Callers -> Calls]
           /\ call'[c].at = step /\ call'[c].op = op
           /\ call'[c].key = k /\ call'[c].rt = gen[k]
           /\ \A d \in Callers \ {c} : call'[d] = call[d]
  BY DEF TokenTypeOK, StartOn, Calls

-----------------------------------------------------------------------------
(* Types.                                                                   *)

\* The types, and with them that a caller in the middle of something has an account and a token.
CallInv == TokenTypeOK /\ BusyInv

\* At first every caller is free.
LEMMA InitCallInv == TokenInit => CallInv
  <1> SUFFICES ASSUME TokenInit PROVE CallInv
    OBVIOUS
  <1>1. call \in [Callers -> Calls] /\ \A c \in Callers : call[c].at = "idle"
    BY DEF TokenInit, Free, Calls, Steps, Ops
  <1>2. 0 \in 0 .. MaxCommands /\ 0 \in 0 .. MaxEvents
    BY TokenBoundsAssumption
  <1>3. TokenTypeOK
    BY <1>1, <1>2 DEF TokenInit, TokenTypeOK, Calls
  <1>. QED BY <1>1, <1>3 DEF CallInv, BusyInv

\* A step of a caller that leaves it free, or on an account, keeps CallInv if it
\* keeps the other types.
LEMMA CallInvStep ==
    ASSUME CallInv, NEW c \in Callers, call' \in [Callers -> Calls],
           call'[c].at \in {"idle", "next"} \/ (call'[c].key \in Keys /\ call'[c].rt # 0),
           \A d \in Callers \ {c} : call'[d] = call[d],
           UNCHANGED setup, gen' \in [Keys -> Nat \ {0}], deleted' \in SUBSET Keys,
           active' \in Keys \cup {NoKey}, invalid' \in SUBSET Keys,
           cooldown' \in SUBSET (Keys \X Nat), recent' \in SUBSET Keys, left' \in SUBSET Keys,
           valid' \in [Keys -> Nat \ {0}], revoked' \in SUBSET Keys,
           expired' \in SUBSET (Keys \X Nat), cli' \in [Keys -> Nat],
           lost' \in SUBSET Keys, clobbered' \in SUBSET Keys,
           begun' \in 0 .. MaxCommands, events' \in 0 .. MaxEvents
    PROVE  CallInv'
  <1>1. TokenTypeOK'
    BY DEF CallInv, TokenTypeOK, Calls
  <1>2. BusyInv'
    BY DEF CallInv, BusyInv
  <1>. QED BY <1>1, <1>2 DEF CallInv

\* An event within the bound, and none.
LEMMA EventsType ==
    ASSUME TokenTypeOK
    PROVE  /\ Happens => events' \in 0 .. MaxEvents
           /\ begun < MaxCommands => begun + 1 \in 0 .. MaxCommands
           /\ \A c \in Callers : call[c].key \in Keys \cup {NoKey} /\ call[c].rt \in Nat
  BY TokenBoundsAssumption DEF TokenTypeOK, Happens

\* A caller that starts on an account and changes nothing else but the counters keeps CallInv.
LEMMA StartKeeps ==
    ASSUME CallInv, NEW c \in Callers, NEW step \in Steps, NEW op \in Ops, NEW k \in Keys,
           StartOn(c, step, op, k), UNCHANGED <<setup, cache, provider, cli, history>>,
           left' \in SUBSET Keys, begun' \in 0 .. MaxCommands, events' \in 0 .. MaxEvents
    PROVE  CallInv'
  <1>1. TokenTypeOK
    BY DEF CallInv
  <1>2. /\ call' \in [Callers -> Calls] /\ call'[c].key = k /\ call'[c].rt = gen[k]
        /\ \A d \in Callers \ {c} : call'[d] = call[d]
    BY <1>1, StartCall
  <1>3. gen[k] # 0
    BY <1>1 DEF TokenTypeOK
  <1>4. /\ UNCHANGED setup /\ gen' \in [Keys -> Nat \ {0}] /\ deleted' \in SUBSET Keys
        /\ active' \in Keys \cup {NoKey} /\ invalid' \in SUBSET Keys
        /\ cooldown' \in SUBSET (Keys \X Nat) /\ recent' \in SUBSET Keys
    BY <1>1 DEF TokenTypeOK, cache
  <1>5. /\ valid' \in [Keys -> Nat \ {0}] /\ revoked' \in SUBSET Keys
        /\ expired' \in SUBSET (Keys \X Nat) /\ cli' \in [Keys -> Nat]
        /\ lost' \in SUBSET Keys /\ clobbered' \in SUBSET Keys
    BY <1>1 DEF TokenTypeOK, provider, history
  <1>. QED BY <1>2, <1>3, <1>4, <1>5, CallInvStep

\* A command begins.
LEMMA BeginCallInv ==
    ASSUME CallInv, NEW c \in Commands, Begin(c)
    PROVE  CallInv'
  <1> PICK k \in Keys :
        RefreshAccount(c, k) \/ SwitchAccount(c, k) \/ RevokeAccount(c, k) \/ DeleteAccount(c, k)
    BY DEF Begin
  <1>. USE DEF cache, provider, history
  <1>0. c \in Callers /\ TokenTypeOK
    BY DEF Callers, CallInv
  <1>1. Begins(c) /\ begun' \in 0 .. MaxCommands
    BY <1>0, EventsType DEF RefreshAccount, SwitchAccount, RevokeAccount, DeleteAccount, Begins
  <1>2. CASE DeleteAccount(c, k)
    <2>1. CallInv' = (TokenTypeOK' /\ BusyInv')
      BY DEF CallInv
    <2>2. TokenTypeOK'
      BY <1>0, <1>1, <1>2 DEF DeleteAccount, Begins, SoftDelete, TokenTypeOK
    <2>3. BusyInv'
      BY <1>2 DEF DeleteAccount, CallInv, BusyInv
    <2>. QED BY <2>1, <2>2, <2>3
  <1>3. CASE RefreshAccount(c, k) \/ SwitchAccount(c, k) \/ RevokeAccount(c, k)
    <2>1. PICK step \in Steps, op \in Ops : StartOn(c, step, op, k)
      BY <1>3 DEF RefreshAccount, SwitchAccount, RevokeAccount, Steps, Ops
    <2>2. UNCHANGED cache
      BY <1>3 DEF RefreshAccount, SwitchAccount, RevokeAccount
    <2>3. left' \in SUBSET Keys /\ events' \in 0 .. MaxEvents
      BY <1>0, <1>1 DEF Begins, TokenTypeOK
    <2>. QED BY <1>0, <1>1, <2>1, <2>2, <2>3, StartKeeps DEF Begins
  <1>. QED BY <1>2, <1>3

\* The provider answers.
LEMMA AnswerCallInv ==
    ASSUME CallInv, NEW c \in Callers, Answer(c)
    PROVE  CallInv'
  <1>. USE DEF cache, provider, history
  <1>0. TokenTypeOK /\ call[c].at = "sent" /\ call[c].key \in Keys /\ call[c].rt # 0
    BY DEF CallInv, BusyInv, Answer, Rotate, Refuse, Revoke, NoAnswer, Refreshes, At
  <1>. DEFINE k == call[c].key
  <1>1. CASE Rotate(c)
    <2>1. valid' \in [Keys -> Nat \ {0}] /\ valid[k] + 1 \in Nat \ {0}
      BY <1>0, <1>1 DEF Rotate, TokenTypeOK
    <2>2. call' = [call EXCEPT ![c] = [at |-> "ok", op |-> @.op, key |-> k,
                                        rt |-> valid[k] + 1]]
          \/ Goto(c, "failed")
      BY <1>1 DEF Rotate
    <2>3. /\ call' \in [Callers -> Calls] /\ call'[c].key = k /\ call'[c].rt # 0
          /\ \A d \in Callers \ {c} : call'[d] = call[d]
      <3>1. CASE Goto(c, "failed")
        BY <1>0, <3>1, GotoCall DEF Steps
      <3>2. CASE call' = [call EXCEPT ![c] = [at |-> "ok", op |-> @.op, key |-> k,
                                        rt |-> valid[k] + 1]]
        BY <1>0, <2>1, <3>2 DEF TokenTypeOK, Calls, Steps
      <3>. QED BY <2>2, <3>1, <3>2
    <2>4. events' \in 0 .. MaxEvents /\ lost' \in SUBSET Keys
      BY <1>0, <1>1, EventsType DEF Rotate, TokenTypeOK
    <2>. QED BY <1>0, <1>1, <2>1, <2>3, <2>4, CallInvStep DEF Rotate, Refreshes, TokenTypeOK
  <1>2. CASE Refuse(c)
    <2>1. Goto(c, "refused") /\ "refused" \in Steps
      BY <1>2 DEF Refuse, Steps
    <2>. QED BY <1>0, <1>2, <2>1, GotoCall, CallInvStep DEF Refuse, Refreshes, TokenTypeOK
  <1>3. CASE Revoke(c)
    <2>1. PICK step \in Steps : Goto(c, step)
      BY <1>3 DEF Revoke, Steps
    <2>2. events' \in 0 .. MaxEvents /\ revoked' \in SUBSET Keys
      BY <1>0, <1>3, EventsType DEF Revoke, TokenTypeOK
    <2>. QED BY <1>0, <1>3, <2>1, <2>2, GotoCall, CallInvStep DEF Revoke, TokenTypeOK
  <1>4. CASE NoAnswer(c)
    <2>1. Goto(c, "failed") /\ "failed" \in Steps
      BY <1>4 DEF NoAnswer, Steps
    <2>2. events' \in 0 .. MaxEvents
      BY <1>0, <1>4, EventsType DEF NoAnswer
    <2>. QED BY <1>0, <1>4, <2>1, <2>2, GotoCall, CallInvStep DEF NoAnswer, TokenTypeOK
  <1>. QED BY <1>1, <1>2, <1>3, <1>4 DEF Answer

\* A caller uses its answer.
LEMMA ApplyCallInv ==
    ASSUME CallInv, NEW c \in Callers, Apply(c)
    PROVE  CallInv'
  <1>. USE DEF cache, provider, history, Uses
  <1>0. TokenTypeOK
    BY DEF CallInv
  <1>01. call[c].at \notin {"idle", "next"} => call[c].key \in Keys /\ call[c].rt # 0
    BY DEF CallInv, BusyInv
  <1>02. call[c].rt \in Nat /\ call[c].key \in Keys \cup {NoKey}
    BY <1>0, EventsType
  <1>. DEFINE k == call[c].key
  <1>1. ASSUME NEW saved \in BOOLEAN, StoreToken(c, saved) PROVE CallInv'
    <2>0. k \in Keys /\ call[c].rt \in Nat \ {0}
      BY <1>01, <1>02, <1>1 DEF StoreToken, At
    <2>1. gen' \in [Keys -> Nat \ {0}] /\ recent' \in SUBSET Keys
          /\ cooldown' \in SUBSET (Keys \X Nat) /\ events' \in 0 .. MaxEvents
      BY <1>0, <1>1, <2>0, EventsType DEF StoreToken, UpdateOauth, TokenTypeOK
    <2>2. Done(c) \/ \E step \in Steps : Goto(c, step)
      BY <1>1 DEF StoreToken, Steps
    <2>3. /\ call' \in [Callers -> Calls]
          /\ call'[c].at \in {"idle", "next"} \/ (call'[c].key \in Keys /\ call'[c].rt # 0)
          /\ \A d \in Callers \ {c} : call'[d] = call[d]
      BY <1>0, <2>0, <2>2, DoneCall, GotoCall
    <2>. QED BY <1>0, <1>1, <2>1, <2>3, CallInvStep DEF StoreToken, TokenTypeOK
  <1>2. CASE TakeMarkOff(c)
    <2>1. (At(c, "ok") /\ Goto(c, "cleared")) \/ Done(c)
      BY <1>2 DEF TakeMarkOff
    <2>2. /\ call' \in [Callers -> Calls]
          /\ call'[c].at \in {"idle", "next"} \/ (call'[c].key \in Keys /\ call'[c].rt # 0)
          /\ \A d \in Callers \ {c} : call'[d] = call[d]
      BY <1>0, <1>01, <2>1, DoneCall, GotoCall DEF At, Steps
    <2>. QED BY <1>0, <1>2, <2>2, CallInvStep DEF TakeMarkOff, TokenTypeOK
  <1>3. CASE LeaveMark(c) \/ GiveUp(c)
    BY <1>0, <1>3, DoneCall, CallInvStep DEF LeaveMark, GiveUp, TokenTypeOK
  <1>4. CASE MarkRefused(c)
    <2>0. k \in Keys
      BY <1>01, <1>4 DEF MarkRefused, At
    <2>1. cooldown' \in SUBSET (Keys \X Nat) /\ invalid' \in SUBSET Keys
      BY <1>0, <1>02, <1>4, <2>0 DEF MarkRefused, CoolDown, TokenTypeOK
    <2>. QED BY <1>0, <1>4, <2>1, DoneCall, CallInvStep DEF MarkRefused, TokenTypeOK
  <1>5. CASE DeleteRevoked(c)
    <2>0. k \in Keys
      BY <1>01, <1>5 DEF DeleteRevoked, At
    <2>. QED BY <1>0, <1>5, <2>0, DoneCall, CallInvStep DEF DeleteRevoked, SoftDelete, TokenTypeOK
  <1>6. CASE Switch(c)
    <2>0. k \in Keys
      BY <1>01, <1>6 DEF Switch, At
    <2>1. \A j \in Keys : Capture(j) \in [Keys -> Nat \ {0}]
      BY <1>0 DEF Capture, TokenTypeOK
    <2>2. gen' \in [Keys -> Nat \ {0}] /\ recent' \in SUBSET Keys /\ clobbered' \in SUBSET Keys
      BY <1>0, <1>6, <2>1 DEF Switch, TokenTypeOK
    <2>. QED BY <1>0, <1>6, <2>0, <2>2, DoneCall, CallInvStep DEF Switch, TokenTypeOK
  <1>. QED BY <1>1, <1>2, <1>3, <1>4, <1>5, <1>6 DEF Apply

\* The loop takes a turn.
LEMMA LoopCallInv ==
    ASSUME CallInv, TurnLoop
    PROVE  CallInv'
  <1>. USE DEF cache, provider, history, Turns
  <1>0. TokenTypeOK /\ Loop \in Callers
    BY DEF CallInv, Callers
  <1>01. call[Loop].at \notin {"idle", "next"} => call[Loop].key \in Keys /\ call[Loop].rt # 0
    BY <1>0 DEF CallInv, BusyInv
  <1>1. CASE StartCycle
    <2>1. left' \in SUBSET Keys /\ cooldown' \in SUBSET (Keys \X Nat)
      BY <1>0, <1>1 DEF StartCycle, TokenTypeOK
    <2>. QED BY <1>0, <1>1, <2>1, DoneCall, CallInvStep DEF StartCycle, TokenTypeOK
  <1>2. ASSUME NEW k \in Keys, Visit(k) PROVE CallInv'
    <2>1. CASE UNCHANGED call
      <3>1. TokenTypeOK'
        BY <1>0, <1>2, <2>1 DEF Visit, TokenTypeOK
      <3>2. BusyInv'
        BY <2>1 DEF CallInv, BusyInv
      <3>. QED BY <3>1, <3>2 DEF CallInv
    <2>2. CASE \E step \in Steps, op \in Ops : StartOn(Loop, step, op, k)
      <3>1. /\ left' \in SUBSET Keys /\ begun' \in 0 .. MaxCommands
            /\ events' \in 0 .. MaxEvents
        BY <1>0, <1>2 DEF Visit, Turns, TokenTypeOK
      <3>. QED BY <1>0, <1>2, <2>2, <3>1, StartKeeps DEF Visit, Turns
    <2>. QED BY <1>2, <2>1, <2>2 DEF Visit, Steps, Ops
  <1>3. ASSUME NEW k \in Keys, DecideSwitch(k) PROVE CallInv'
    <2>1. "decided" \in Steps /\ "loop" \in Ops
      BY DEF Steps, Ops
    <2>2. /\ left' \in SUBSET Keys /\ begun' \in 0 .. MaxCommands
          /\ events' \in 0 .. MaxEvents
      BY <1>0, <1>3 DEF DecideSwitch, Turns, TokenTypeOK
    <2>. QED BY <1>0, <1>3, <2>1, <2>2, StartKeeps DEF DecideSwitch, Turns
  <1>4. CASE FetchQuota
    <2>0. call[Loop].key \in Keys /\ call[Loop].rt # 0
      BY <1>01, <1>4 DEF FetchQuota, At
    <2>1. Done(Loop) \/ \E step \in Steps : Goto(Loop, step)
      BY <1>4 DEF FetchQuota, Steps
    <2>2. /\ call' \in [Callers -> Calls]
          /\ call'[Loop].at \in {"idle", "next"}
                \/ (call'[Loop].key \in Keys /\ call'[Loop].rt # 0)
          /\ \A d \in Callers \ {Loop} : call'[d] = call[d]
      BY <1>0, <2>0, <2>1, DoneCall, GotoCall
    <2>3. events' \in 0 .. MaxEvents
      BY <1>0, <1>4, EventsType DEF FetchQuota, TokenTypeOK
    <2>. QED BY <1>0, <1>4, <2>2, <2>3, CallInvStep DEF FetchQuota, TokenTypeOK
  <1>5. CASE QuotaArrives
    <2>1. recent' \in SUBSET Keys /\ invalid' \in SUBSET Keys
      BY <1>0, <1>01, <1>5 DEF QuotaArrives, At, TokenTypeOK
    <2>. QED BY <1>0, <1>5, <2>1, DoneCall, CallInvStep DEF QuotaArrives, TokenTypeOK
  <1>6. ASSUME NEW switched \in BOOLEAN, Sleep(switched) PROVE CallInv'
    <2>1. active' \in Keys \cup {NoKey}
      BY <1>0, <1>01, <1>6 DEF Sleep, At, TokenTypeOK
    <2>2. /\ call' \in [Callers -> Calls] /\ call'[Loop].at = "idle"
          /\ \A d \in Callers \ {Loop} : call'[d] = call[d]
      BY <1>0, <1>6 DEF Sleep, Free, TokenTypeOK, Calls, Steps, Ops
    <2>. QED BY <1>0, <1>6, <2>1, <2>2, CallInvStep DEF Sleep, TokenTypeOK
  <1>. QED BY <1>1, <1>2, <1>3, <1>4, <1>5, <1>6 DEF TurnLoop

\* Something happens around the process.
LEMMA EnvironmentCallInv ==
    ASSUME CallInv, Environment
    PROVE  CallInv'
  <1>. USE DEF Around
  <1>0. TokenTypeOK
    BY DEF CallInv
  <1>1. events' \in 0 .. MaxEvents /\ call' = call
    BY <1>0, EventsType
       DEF Environment, Expire, CliRotates, PeerUpdatesQuota, MergeFromCcFile, TokenTypeOK
  <1>2. BusyInv'
    BY <1>1 DEF CallInv, BusyInv
  <1>3. ASSUME NEW k \in Keys, Expire(k) \/ PeerUpdatesQuota(k) PROVE TokenTypeOK'
    <2>1. <<k, gen[k]>> \in Keys \X Nat
      BY <1>0 DEF TokenTypeOK
    <2>. QED BY <1>0, <1>1, <1>3, <2>1 DEF Expire, PeerUpdatesQuota, provider, history, TokenTypeOK
  <1>4. ASSUME NEW k \in Keys, CliRotates(k) PROVE TokenTypeOK'
    BY <1>0, <1>1, <1>4 DEF CliRotates, TokenTypeOK
  <1>5. CASE MergeFromCcFile
    <2>1. gen' \in [Keys -> Nat \ {0}]
      BY <1>0, <1>5 DEF MergeFromCcFile, TokenTypeOK
    <2>2. recent' \in SUBSET Keys /\ clobbered' \in SUBSET Keys
      <3>1. {k \in Keys : cli[k] # 0} \subseteq Keys /\ {k \in Keys : gen'[k] < gen[k]} \subseteq Keys
        OBVIOUS
      <3>2. /\ recent' = recent \cup {k \in Keys : cli[k] # 0}
            /\ clobbered' = clobbered \cup {k \in Keys : gen'[k] < gen[k]}
        BY <1>5, Zenon DEF MergeFromCcFile
      <3>3. recent \in SUBSET Keys /\ clobbered \in SUBSET Keys
        BY <1>0 DEF TokenTypeOK
      <3>. QED BY <3>1, <3>2, <3>3
    <2>3. UNCHANGED <<setup, deleted, active, invalid, cooldown, left, call, revoked, lost,
                      begun, valid, expired, cli>>
      BY <1>5 DEF MergeFromCcFile
    <2>4. TokenTypeOK'
      BY <1>0, <1>1, <2>1, <2>2, <2>3 DEF TokenTypeOK
    <2>. QED BY <1>2, <2>4 DEF CallInv
  <1>. QED BY <1>2, <1>3, <1>4, <1>5 DEF Environment, CallInv

\* The types are inductive.
LEMMA NextCallInv == CallInv /\ [TokenNext]_tokenVars => CallInv'
  <1> SUFFICES ASSUME CallInv, [TokenNext]_tokenVars PROVE CallInv'
    OBVIOUS
  <1>1. CASE UNCHANGED tokenVars
    BY <1>1 DEF tokenVars, CallInv, TokenTypeOK, BusyInv
  <1>2. CASE TokenNext
    BY <1>2, BeginCallInv, AnswerCallInv, ApplyCallInv, LoopCallInv, EnvironmentCallInv
       DEF TokenNext
  <1>. QED BY <1>1, <1>2

\* Every variable keeps its type; in particular the cache never holds the empty token.
THEOREM TokenTypeCorrect == TokenSpec => []TokenTypeOK
  <1>1. CallInv => TokenTypeOK
    BY DEF CallInv
  <1>. QED BY <1>1, InitCallInv, NextCallInv, PTL DEF TokenSpec

-----------------------------------------------------------------------------
(* Where the accepted token is, and what is refused.                        *)

Carrying(c) == call[c].op # "revoke" /\ call[c].at \in {"ok", "cleared"}

TokenInv == KnownInv /\ CarrierInv /\ TokenKept

DeadInv == RefusedInv /\ CooldownOnlyDead

\* A step of a caller that makes, stores and moves no token.
Quiet(c) ==
    /\ UNCHANGED <<gen, valid, cli>>
    /\ revoked \subseteq revoked' /\ lost \subseteq lost' /\ clobbered \subseteq clobbered'
    /\ \A d \in Callers \ {c} : call'[d] = call[d]
    /\ Carrying(c)' <=> Carrying(c)
    /\ Carrying(c) => call'[c].key = call[c].key /\ call'[c].rt = call[c].rt
    /\ call'[c].key \in Keys =>
          \/ call'[c].rt = gen[call'[c].key]
          \/ call'[c].key = call[c].key /\ call'[c].rt = call[c].rt

\* A carrier, spelled out.
LEMMA CarrierFacts ==
    ASSUME CallInv, KnownInv, CarrierInv, NEW c \in Callers, Carrying(c)
    PROVE  /\ call[c].key \in Keys
           /\ call[c].rt = valid[call[c].key]
           /\ gen[call[c].key] < valid[call[c].key] /\ cli[call[c].key] < valid[call[c].key]
           /\ \A d \in Callers \ {c} : call[d].key = call[c].key => call[d].rt < valid[call[c].key]
  <1>1. call[c].key \in Keys
    BY DEF CallInv, BusyInv, Carrying
  <1>2. Carries(c, call[c].key, call[c].rt)
    BY DEF Carrying, Carries
  <1>. QED BY <1>1, <1>2 DEF CarrierInv

\* Quiet steps lose no token.
LEMMA QuietKeeps ==
    ASSUME CallInv, TokenInv, NEW c \in Callers, Quiet(c)
    PROVE  TokenInv'
  <1>0. KnownInv /\ CarrierInv /\ TokenKept /\ TokenTypeOK
    BY DEF TokenInv, CallInv
  <1>1. KnownInv'
    BY <1>0 DEF KnownInv, Quiet
  <1>2. ASSUME NEW d \in Callers, Carrying(d)'
        PROVE  /\ Carrying(d) /\ call'[d].key = call[d].key /\ call'[d].rt = call[d].rt
    BY <1>2 DEF Quiet, Carrying
  <1>3. ASSUME NEW d \in Callers, Carrying(d)', NEW e \in Callers \ {d},
               call'[e].key = call'[d].key
        PROVE  call'[e].rt < valid[call[d].key]
    <2>1. /\ call[d].key \in Keys /\ gen[call[d].key] < valid[call[d].key]
          /\ call[e].key = call[d].key => call[e].rt < valid[call[d].key]
      BY <1>0, <1>2, <1>3, CarrierFacts
    <2>2. CASE e = c
      BY <1>2, <1>3, <2>1, <2>2 DEF Quiet
    <2>3. CASE e # c
      BY <1>2, <1>3, <2>1, <2>3 DEF Quiet
    <2>. QED BY <2>2, <2>3
  <1>4. ASSUME NEW d \in Callers, Carrying(d)'
        PROVE  /\ call'[d].rt = valid'[call'[d].key]
               /\ gen'[call'[d].key] < valid'[call'[d].key]
               /\ cli'[call'[d].key] < valid'[call'[d].key]
               /\ \A e \in Callers \ {d} :
                     call'[e].key = call'[d].key => call'[e].rt < valid'[call'[d].key]
    BY <1>0, <1>2, <1>3, <1>4, CarrierFacts DEF Quiet
  <1>5. CarrierInv'
    BY <1>4 DEF CarrierInv, Carries, Carrying
  <1>6. ASSUME NEW d \in Callers, NEW k \in Keys, Carries(d, k, valid[k])
        PROVE  Carries(d, k, valid[k])'
    BY <1>6 DEF Quiet, Carries, Carrying
  <1>7. TokenKept'
    BY <1>0, <1>6 DEF TokenKept, Quiet
  <1>. QED BY <1>1, <1>5, <1>7 DEF TokenInv

\* The provider's answer: a new token has a carrier, or its answer is lost.
LEMMA RotateKeeps ==
    ASSUME CallInv, TokenInv, NEW c \in Callers, Rotate(c)
    PROVE  TokenInv'
  <1>. DEFINE k == call[c].key
  <1>0. KnownInv /\ CarrierInv /\ TokenKept /\ TokenTypeOK
    BY DEF TokenInv, CallInv
  <1>1. /\ k \in Keys /\ call[c].rt = valid[k] /\ valid[k] \in Nat \ {0}
        /\ ~Carrying(c) /\ call[c].op # "revoke"
        /\ valid' = [valid EXCEPT ![k] = @ + 1]
        /\ gen' = gen /\ cli' = cli /\ revoked' = revoked /\ clobbered' = clobbered
    BY <1>0 DEF Rotate, Refreshes, At, Accepts, CallInv, BusyInv, TokenTypeOK, Carrying, cache
  <1>2. valid'[k] = valid[k] + 1 /\ \A j \in Keys \ {k} : valid'[j] = valid[j]
    BY <1>0, <1>1 DEF TokenTypeOK
  <1>3. \A d \in Callers : call[d].rt \in Nat /\ gen[k] \in Nat /\ cli[k] \in Nat
    BY <1>0, <1>1 DEF TokenTypeOK
  <1>4. ASSUME NEW d \in Callers, Carrying(d) PROVE call[d].key # k
    BY <1>0, <1>1, <1>4, CarrierFacts
  <1>5. ASSUME NEW d \in Callers \ {c}, call[d].key = k PROVE call[d].rt < valid'[k]
    <2>1. call[d].rt <= valid[k]
      BY <1>0, <1>1, <1>5 DEF KnownInv
    <2>. QED BY <1>1, <1>2, <1>3, <2>1
  <1>6. gen[k] < valid'[k] /\ cli[k] < valid'[k]
    <2>1. gen[k] <= valid[k] /\ cli[k] <= valid[k]
      BY <1>0, <1>1 DEF KnownInv
    <2>. QED BY <1>1, <1>2, <1>3, <2>1
  <1>7. /\ call'[c].key = k /\ call'[c].op = call[c].op
        /\ \/ call'[c].at = "ok" /\ call'[c].rt = valid'[k] /\ lost' = lost
           \/ call'[c].at = "failed" /\ call'[c].rt = valid[k] /\ lost' = lost \cup {k}
        /\ \A d \in Callers \ {c} : call'[d] = call[d]
    <2>1. CASE Goto(c, "failed") /\ lost' = lost \cup {k}
      BY <1>0, <1>1, <2>1, GotoCall DEF Steps
    <2>2. CASE /\ call' = [call EXCEPT ![c] = [at |-> "ok", op |-> @.op, key |-> k,
                                               rt |-> valid[k] + 1]]
               /\ lost' = lost
      BY <1>0, <1>2, <2>2 DEF TokenTypeOK
    <2>. QED BY <2>1, <2>2 DEF Rotate
  <1>8. KnownInv'
    <2>1. \A j \in Keys : gen'[j] <= valid'[j] /\ cli'[j] <= valid'[j]
      BY <1>0, <1>1, <1>2, <1>3, <1>6 DEF KnownInv, TokenTypeOK
    <2>2. call'[c].rt <= valid'[call'[c].key]
      BY <1>1, <1>2, <1>7
    <2>3. ASSUME NEW d \in Callers \ {c}, call'[d].key \in Keys
          PROVE  call'[d].rt <= valid'[call'[d].key]
      BY <1>0, <1>1, <1>2, <1>3, <1>5, <1>7, <2>3 DEF KnownInv
    <2>. QED BY <2>1, <2>2, <2>3 DEF KnownInv
  <1>9. CarrierInv'
    <2>1. ASSUME NEW d \in Callers, Carrying(d)', d # c
          PROVE  Carrying(d) /\ call'[d] = call[d] /\ call[d].key \in Keys \ {k}
      BY <1>0, <1>4, <1>7, <2>1, CarrierFacts DEF Carrying
    <2>2. ASSUME NEW d \in Callers, Carrying(d)'
          PROVE  /\ call'[d].rt = valid'[call'[d].key]
                 /\ gen'[call'[d].key] < valid'[call'[d].key]
                 /\ cli'[call'[d].key] < valid'[call'[d].key]
                 /\ \A e \in Callers \ {d} :
                       call'[e].key = call'[d].key => call'[e].rt < valid'[call'[d].key]
      <3>1. CASE d = c
        BY <1>1, <1>5, <1>6, <1>7, <2>2, <3>1 DEF Carrying
      <3>2. CASE d # c
        BY <1>0, <1>1, <1>2, <1>7, <2>1, <2>2, <3>2, CarrierFacts
      <3>. QED BY <3>1, <3>2
    <2>. QED BY <2>2 DEF CarrierInv, Carries, Carrying
  <1>10. TokenKept'
    <2>1. ASSUME NEW d \in Callers, NEW j \in Keys \ {k}, Carries(d, j, valid[j])
          PROVE  Carries(d, j, valid[j])'
      BY <1>1, <1>2, <1>7, <2>1 DEF Carries, Carrying
    <2>2. ASSUME NEW j \in Keys, j = k PROVE j \in lost' \/ Carries(c, j, valid[j])'
      BY <1>1, <1>7, <2>2 DEF Carries
    <2>3. lost \subseteq lost'
      BY <1>7
    <2>4. ASSUME NEW j \in Keys \ {k}, j \notin revoked' \cup lost' \cup clobbered'
          PROVE  valid'[j] \in {gen'[j], cli'[j]} \/ \E d \in Callers : Carries(d, j, valid[j])'
      <3>1. valid[j] \in {gen[j], cli[j]} \/ \E d \in Callers : Carries(d, j, valid[j])
        BY <1>0, <1>1, <2>3, <2>4 DEF TokenKept
      <3>. QED BY <1>1, <1>2, <2>1, <2>4, <3>1
    <2>. QED BY <2>2, <2>4 DEF TokenKept
  <1>. QED BY <1>8, <1>9, <1>10 DEF TokenInv

\* The carrier stores its token.
LEMMA StoreKeeps ==
    ASSUME CallInv, TokenInv, NEW c \in Callers, NEW saved \in BOOLEAN, StoreToken(c, saved)
    PROVE  TokenInv'
  <1>. DEFINE k == call[c].key
  <1>0. KnownInv /\ CarrierInv /\ TokenKept /\ TokenTypeOK
    BY DEF TokenInv, CallInv
  <1>1. Carrying(c)
    BY DEF StoreToken, Carrying, At
  <1>2. /\ k \in Keys /\ call[c].rt = valid[k]
        /\ \A d \in Callers \ {c} : Carrying(d) => call[d].key # k
    <2>1. k \in Keys /\ call[c].rt = valid[k] /\ valid[k] \in Nat
      BY <1>0, <1>1, CarrierFacts DEF TokenTypeOK
    <2>2. ASSUME NEW d \in Callers \ {c}, Carrying(d), call[d].key = k PROVE FALSE
      <3>1. call[c].rt < valid[k]
        BY <1>0, <2>2, CarrierFacts
      <3>. QED BY <2>1, <3>1
    <2>. QED BY <2>1, <2>2
  <1>3. /\ valid' = valid /\ cli' = cli /\ revoked' = revoked /\ lost' = lost
        /\ clobbered' = clobbered /\ gen' = [gen EXCEPT ![k] = valid[k]]
    BY <1>2 DEF StoreToken, Uses, UpdateOauth, provider
  <1>4. gen'[k] = valid[k] /\ \A j \in Keys \ {k} : gen'[j] = gen[j]
    BY <1>0, <1>2, <1>3 DEF TokenTypeOK
  <1>5. /\ call'[c].key \in Keys => call'[c].key = k /\ call'[c].rt = call[c].rt
        /\ ~Carrying(c)'
        /\ \A d \in Callers \ {c} : call'[d] = call[d]
    <2>1. Done(c) \/ \E step \in {"switching", "stored"} : Goto(c, step)
      BY DEF StoreToken
    <2>. QED BY <1>0, <2>1, DoneCall, GotoCall, NoKeyAssumption DEF Carrying, Steps
  <1>6. KnownInv'
    <2>1. \A j \in Keys : gen'[j] <= valid'[j] /\ cli'[j] <= valid'[j]
      BY <1>0, <1>3, <1>4 DEF KnownInv, TokenTypeOK
    <2>2. \A d \in Callers : call'[d].key \in Keys => call'[d].rt <= valid'[call'[d].key]
      BY <1>0, <1>3, <1>5 DEF KnownInv
    <2>. QED BY <2>1, <2>2 DEF KnownInv
  <1>7. CarrierInv'
    <2>1. ASSUME NEW d \in Callers, Carrying(d)'
          PROVE  Carrying(d) /\ d # c /\ call'[d] = call[d] /\ call[d].key \in Keys \ {k}
      BY <1>0, <1>2, <1>5, <2>1, CarrierFacts DEF Carrying
    <2>2. ASSUME NEW d \in Callers, Carrying(d)'
          PROVE  /\ call'[d].rt = valid'[call'[d].key]
                 /\ gen'[call'[d].key] < valid'[call'[d].key]
                 /\ cli'[call'[d].key] < valid'[call'[d].key]
                 /\ \A e \in Callers \ {d} :
                       call'[e].key = call'[d].key => call'[e].rt < valid'[call'[d].key]
      <3>1. call[d].key \in Keys /\ call[d].rt = valid[call[d].key]
            /\ gen[call[d].key] < valid[call[d].key] /\ cli[call[d].key] < valid[call[d].key]
            /\ \A e \in Callers \ {d} :
                  call[e].key = call[d].key => call[e].rt < valid[call[d].key]
        BY <1>0, <2>1, <2>2, CarrierFacts
      <3>2. ASSUME NEW e \in Callers \ {d}, call'[e].key = call'[d].key
            PROVE  call[e].key = call[d].key /\ call'[e].rt = call[e].rt
        BY <1>5, <2>1, <2>2, <3>1, <3>2
      <3>. QED BY <1>3, <1>4, <2>1, <2>2, <3>1, <3>2
    <2>. QED BY <2>2 DEF CarrierInv, Carries, Carrying
  <1>8. TokenKept'
    <2>1. ASSUME NEW d \in Callers, NEW j \in Keys \ {k}, Carries(d, j, valid[j])
          PROVE  Carries(d, j, valid[j])'
      BY <1>3, <1>5, <2>1 DEF Carries
    <2>. QED BY <1>0, <1>2, <1>3, <1>4, <2>1 DEF TokenKept
  <1>. QED BY <1>6, <1>7, <1>8 DEF TokenInv

\* Tokens are taken from the CLI's file.
LEMMA TakingKeeps ==
    ASSUME CallInv, TokenInv,
           UNCHANGED <<valid, cli, revoked, lost>>,
           \A k \in Keys : gen'[k] = gen[k] \/ gen'[k] = cli[k],
           \A k \in Keys : gen'[k] < gen[k] => k \in clobbered',
           clobbered \subseteq clobbered',
           \A c \in Callers : /\ Carrying(c)' <=> Carrying(c)
                              /\ Carrying(c) => call'[c] = call[c]
                              /\ call'[c].key \in Keys => call'[c] = call[c]
    PROVE  TokenInv'
  <1>0. KnownInv /\ CarrierInv /\ TokenKept /\ TokenTypeOK
    BY DEF TokenInv, CallInv
  <1>1. KnownInv'
    BY <1>0 DEF KnownInv
  <1>2. ASSUME NEW d \in Callers, Carrying(d)'
        PROVE  /\ call'[d].rt = valid'[call'[d].key]
               /\ gen'[call'[d].key] < valid'[call'[d].key]
               /\ cli'[call'[d].key] < valid'[call'[d].key]
               /\ \A e \in Callers \ {d} :
                     call'[e].key = call'[d].key => call'[e].rt < valid'[call'[d].key]
    BY <1>0, <1>2, CarrierFacts
  <1>3. CarrierInv'
    BY <1>2 DEF CarrierInv, Carries, Carrying
  <1>4. ASSUME NEW k \in Keys \ (revoked' \cup lost' \cup clobbered')
        PROVE  \/ valid'[k] \in {gen'[k], cli'[k]}
               \/ \E c \in Callers : Carries(c, k, valid[k])'
    <2>1. gen'[k] \in Nat /\ gen[k] \in Nat /\ cli[k] \in Nat /\ valid[k] \in Nat
      BY <1>0, <1>4 DEF TokenTypeOK
    <2>2. gen'[k] >= gen[k] /\ gen'[k] <= valid[k] /\ k \notin revoked \cup lost \cup clobbered
      BY <1>1, <1>4, <2>1 DEF KnownInv
    <2>3. CASE valid[k] \in {gen[k], cli[k]}
      BY <2>1, <2>2, <2>3
    <2>4. ASSUME NEW c \in Callers, Carries(c, k, valid[k]) PROVE Carries(c, k, valid[k])'
      BY <2>4 DEF Carries, Carrying
    <2>. QED BY <1>0, <1>4, <2>2, <2>3, <2>4 DEF TokenKept
  <1>5. TokenKept'
    BY <1>4 DEF TokenKept
  <1>. QED BY <1>1, <1>3, <1>5 DEF TokenInv

\* The CLI rotates a token that nobody carries.
LEMMA CliRotatesKeeps ==
    ASSUME CallInv, TokenInv, NEW k \in Keys, CliRotates(k)
    PROVE  TokenInv'
  <1>0. KnownInv /\ CarrierInv /\ TokenKept /\ TokenTypeOK
    BY DEF TokenInv, CallInv
  <1>1. /\ cli[k] = valid[k] /\ valid[k] \in Nat
        /\ valid' = [valid EXCEPT ![k] = @ + 1] /\ cli' = [cli EXCEPT ![k] = valid[k] + 1]
        /\ UNCHANGED <<gen, call, revoked, lost, clobbered>>
    BY <1>0 DEF CliRotates, Around, Accepts, TokenTypeOK
  <1>2. /\ valid'[k] = valid[k] + 1 /\ cli'[k] = valid'[k]
        /\ \A j \in Keys \ {k} : valid'[j] = valid[j] /\ cli'[j] = cli[j]
    BY <1>0, <1>1 DEF TokenTypeOK
  <1>3. \A d \in Callers : Carrying(d) => call[d].key \in Keys \ {k}
    BY <1>0, <1>1, CarrierFacts
  <1>4. KnownInv'
    <2>1. \A j \in Keys : gen'[j] <= valid'[j] /\ cli'[j] <= valid'[j]
      BY <1>0, <1>1, <1>2 DEF KnownInv, TokenTypeOK
    <2>2. ASSUME NEW d \in Callers, call[d].key \in Keys PROVE call[d].rt <= valid'[call[d].key]
      <3>1. call[d].rt <= valid[call[d].key] /\ call[d].rt \in Nat
        BY <1>0, <2>2 DEF KnownInv, TokenTypeOK
      <3>. QED BY <1>1, <1>2, <2>2, <3>1
    <2>. QED BY <1>1, <2>1, <2>2 DEF KnownInv
  <1>5. ASSUME NEW d \in Callers, Carrying(d)
        PROVE  /\ call[d].rt = valid'[call[d].key]
               /\ gen[call[d].key] < valid'[call[d].key] /\ cli'[call[d].key] < valid'[call[d].key]
               /\ \A e \in Callers \ {d} :
                     call[e].key = call[d].key => call[e].rt < valid'[call[d].key]
    BY <1>0, <1>2, <1>3, <1>5, CarrierFacts
  <1>6. CarrierInv'
    BY <1>1, <1>5 DEF CarrierInv, Carries, Carrying
  <1>7. TokenKept'
    BY <1>0, <1>1, <1>2 DEF TokenKept, Carries
  <1>. QED BY <1>4, <1>6, <1>7 DEF TokenInv

\* A refusal stays one, since the provider never goes back.
LEMMA DeadKeeps ==
    ASSUME CallInv, KnownInv, DeadInv,
           valid' \in [Keys -> Nat \ {0}], \A k \in Keys : valid[k] <= valid'[k],
           revoked \subseteq revoked',
           \A c \in Callers : call'[c].at = "refused" =>
              /\ call'[c].key = call[c].key /\ call'[c].rt = call[c].rt
              /\ call[c].at = "refused" \/ ~Accepts(call[c].key, call[c].rt)
              /\ call[c].key \in Keys,
           \A x \in cooldown' : \/ x \in cooldown
                                \/ x \in Keys \X Nat /\ x[2] <= valid[x[1]] /\ ~Accepts(x[1], x[2])
    PROVE  DeadInv'
  <1>0. TokenTypeOK /\ RefusedInv /\ CooldownOnlyDead
    BY DEF CallInv, DeadInv
  <1>1. ASSUME NEW k \in Keys, NEW g \in Nat, g <= valid[k], ~Accepts(k, g)
        PROVE  g <= valid'[k] /\ ~Accepts(k, g)'
    <2>1. valid[k] \in Nat /\ valid'[k] \in Nat /\ valid[k] <= valid'[k]
      BY <1>0, <1>1 DEF TokenTypeOK
    <2>2. g <= valid'[k]
      BY <1>1, <2>1
    <2>3. g # valid[k] \/ k \in revoked
      BY <1>1 DEF Accepts
    <2>4. g # valid'[k] \/ k \in revoked'
      BY <1>1, <2>1, <2>3
    <2>. QED BY <2>2, <2>4 DEF Accepts
  <1>2. ASSUME NEW c \in Callers, call'[c].at = "refused"
        PROVE  ~Accepts(call[c].key, call[c].rt)'
    <2>1. /\ call[c].key \in Keys /\ call[c].rt \in Nat /\ call[c].rt <= valid[call[c].key]
          /\ call'[c].key = call[c].key /\ call'[c].rt = call[c].rt
      BY <1>0, <1>2 DEF TokenTypeOK, KnownInv
    <2>2. ~Accepts(call[c].key, call[c].rt)
      BY <1>0, <1>2 DEF RefusedInv, At
    <2>. QED BY <1>1, <2>1, <2>2 DEF Accepts
  <1>3. ASSUME NEW x \in cooldown' PROVE x[2] <= valid'[x[1]] /\ ~Accepts(x[1], x[2])'
    <2>1. x \in Keys \X Nat /\ x[2] <= valid[x[1]] /\ ~Accepts(x[1], x[2])
      BY <1>0, <1>3 DEF TokenTypeOK, RefusedInv, CooldownOnlyDead
    <2>. QED BY <1>1, <2>1
  <1>4. RefusedInv'
    BY <1>2, <1>3 DEF RefusedInv, At
  <1>5. CooldownOnlyDead'
    BY <1>3 DEF CooldownOnlyDead
  <1>. QED BY <1>4, <1>5 DEF DeadInv

\* The steps that add no refusal.
LEMMA NothingRefused ==
    ASSUME CallInv, KnownInv, DeadInv, CallInv',
           \A k \in Keys : valid[k] <= valid'[k], revoked \subseteq revoked',
           \A c \in Callers : call'[c].at = "refused" => call'[c] = call[c],
           cooldown' \subseteq cooldown
    PROVE  DeadInv'
  <1>1. valid' \in [Keys -> Nat \ {0}]
    BY DEF CallInv, TokenTypeOK
  <1>2. \A c \in Callers : call'[c].at = "refused" =>
           /\ call'[c].key = call[c].key /\ call'[c].rt = call[c].rt
           /\ call[c].at = "refused" /\ call[c].key \in Keys
    BY DEF CallInv, BusyInv
  <1>. QED BY <1>1, <1>2, DeadKeeps

\* Every invariant of the tokens.
AllInv == CallInv /\ TokenInv /\ DeadInv

\* A quiet step that adds no refusal.
LEMMA QuietStep ==
    ASSUME AllInv, CallInv', NEW c \in Callers, Quiet(c),
           call'[c].at = "refused" => call'[c] = call[c], cooldown' \subseteq cooldown
    PROVE  AllInv'
  <1>1. TokenInv'
    BY QuietKeeps DEF AllInv
  <1>2. \A k \in Keys : valid[k] <= valid'[k]
    BY DEF Quiet, AllInv, CallInv, TokenTypeOK
  <1>3. \A d \in Callers : call'[d].at = "refused" => call'[d] = call[d]
    BY DEF Quiet
  <1>4. DeadInv'
    BY <1>2, <1>3, NothingRefused DEF Quiet, AllInv, TokenInv
  <1>. QED BY <1>1, <1>4 DEF AllInv

\* A command begins.
LEMMA BeginAllInv ==
    ASSUME AllInv, CallInv', NEW c \in Commands, Begin(c)
    PROVE  AllInv'
  <1>. USE DEF cache, provider, history
  <1> PICK k \in Keys :
        RefreshAccount(c, k) \/ SwitchAccount(c, k) \/ RevokeAccount(c, k) \/ DeleteAccount(c, k)
    BY DEF Begin
  <1>0. c \in Callers /\ TokenTypeOK
    BY DEF Callers, AllInv, CallInv
  <1>1. Begins(c) /\ UNCHANGED <<gen, cooldown>>
    BY DEF RefreshAccount, SwitchAccount, RevokeAccount, DeleteAccount, SoftDelete
  <1>2. call' = call \/ \E step \in {"sent", "switching"}, op \in Ops : StartOn(c, step, op, k)
    BY DEF RefreshAccount, SwitchAccount, RevokeAccount, DeleteAccount, Ops
  <1>3. /\ \A d \in Callers \ {c} : call'[d] = call[d]
        /\ \/ call'[c] = call[c]
           \/ call'[c].at \in {"sent", "switching"} /\ call'[c].key = k /\ call'[c].rt = gen[k]
    BY <1>0, <1>2, StartCall DEF Steps
  <1>4. Quiet(c)
    BY <1>1, <1>3 DEF Quiet, Carrying, Begins, At
  <1>. QED BY <1>0, <1>1, <1>3, <1>4, QuietStep

\* The provider answers.
LEMMA AnswerAllInv ==
    ASSUME AllInv, CallInv', NEW c \in Callers, Answer(c)
    PROVE  AllInv'
  <1>. USE DEF cache, provider, history
  <1>0. TokenTypeOK /\ CallInv /\ TokenInv /\ KnownInv /\ DeadInv
    BY DEF AllInv, CallInv, TokenInv
  <1>1. CASE Rotate(c)
    <2>1. TokenInv'
      BY <1>0, <1>1, RotateKeeps
    <2>2. call[c].key \in Keys /\ valid' = [valid EXCEPT ![call[c].key] = @ + 1]
      BY <1>0, <1>1 DEF Rotate, Refreshes, At, CallInv, BusyInv
    <2>3. \A k \in Keys : valid[k] <= valid'[k]
      BY <1>0, <2>2 DEF TokenTypeOK
    <2>4. Goto(c, "failed") \/ call' = [call EXCEPT ![c] = [at |-> "ok", op |-> @.op,
              key |-> call[c].key, rt |-> valid[call[c].key] + 1]]
      BY <1>1 DEF Rotate
    <2>5. \A d \in Callers : call'[d].at = "refused" => call'[d] = call[d]
      <3>1. CASE Goto(c, "failed")
        BY <1>0, <3>1, GotoCall DEF Steps
      <3>2. CASE call' = [call EXCEPT ![c] = [at |-> "ok", op |-> @.op,
                  key |-> call[c].key, rt |-> valid[call[c].key] + 1]]
        BY <1>0, <3>2 DEF TokenTypeOK
      <3>. QED BY <2>4, <3>1, <3>2
    <2>6. revoked' = revoked /\ cooldown' = cooldown
      BY <1>1 DEF Rotate, Refreshes
    <2>7. DeadInv'
      BY <1>0, <2>3, <2>5, <2>6, NothingRefused
    <2>. QED BY <2>1, <2>7 DEF AllInv
  <1>2. CASE Refuse(c)
    <2>1. /\ call[c].at = "sent" /\ call[c].key \in Keys /\ ~Accepts(call[c].key, call[c].rt)
          /\ UNCHANGED <<gen, valid, cli, revoked, lost, clobbered, cooldown>>
      BY <1>0, <1>2 DEF Refuse, Refreshes, At, CallInv, BusyInv
    <2>2. /\ call'[c].at = "refused" /\ call'[c].key = call[c].key /\ call'[c].rt = call[c].rt
          /\ \A d \in Callers \ {c} : call'[d] = call[d]
      BY <1>0, <1>2, GotoCall DEF Refuse, Steps
    <2>3. Quiet(c)
      BY <2>1, <2>2 DEF Quiet, Carrying
    <2>4. valid' \in [Keys -> Nat \ {0}] /\ \A k \in Keys : valid[k] <= valid'[k]
      BY <1>0, <2>1 DEF TokenTypeOK
    <2>5. \A d \in Callers \ {c} : call[d].at = "refused" => call[d].key \in Keys
      BY <1>0 DEF CallInv, BusyInv
    <2>6. DeadInv'
      BY <1>0, <2>1, <2>2, <2>4, <2>5, DeadKeeps
    <2>. QED BY <1>0, <2>3, <2>6, QuietKeeps DEF AllInv
  <1>3. CASE Revoke(c) \/ NoAnswer(c)
    <2>1. PICK step \in {"ok", "failed"} :
            /\ Goto(c, step) /\ call[c].at = "sent"
            /\ step = "ok" => call[c].op = "revoke"
            /\ UNCHANGED <<gen, valid, cli, lost, clobbered, cooldown>>
            /\ revoked \subseteq revoked'
      BY <1>3 DEF Revoke, NoAnswer, At
    <2>2. /\ call'[c].at = step /\ call'[c].key = call[c].key /\ call'[c].rt = call[c].rt
          /\ call'[c].op = call[c].op
          /\ \A d \in Callers \ {c} : call'[d] = call[d]
      BY <1>0, <2>1, GotoCall DEF Steps
    <2>3. Quiet(c)
      BY <2>1, <2>2 DEF Quiet, Carrying
    <2>. QED BY <2>1, <2>2, <2>3, QuietStep
  <1>. QED BY <1>1, <1>2, <1>3 DEF Answer

\* A caller uses its answer.
LEMMA ApplyAllInv ==
    ASSUME AllInv, CallInv', NEW c \in Callers, Apply(c)
    PROVE  AllInv'
  <1>. USE DEF cache, provider, history
  <1>0. TokenTypeOK /\ CallInv /\ TokenInv /\ KnownInv /\ DeadInv
    BY DEF AllInv, CallInv, TokenInv
  <1>1. ASSUME NEW saved \in BOOLEAN, StoreToken(c, saved) PROVE AllInv'
    <2>1. TokenInv'
      BY <1>0, <1>1, StoreKeeps
    <2>2. Done(c) \/ \E step \in {"switching", "stored"} : Goto(c, step)
      BY <1>1 DEF StoreToken
    <2>3. \A d \in Callers : call'[d].at = "refused" => call'[d] = call[d]
      BY <1>0, <2>2, DoneCall, GotoCall DEF Steps
    <2>4. valid' = valid /\ revoked' = revoked /\ cooldown' \subseteq cooldown
      BY <1>1 DEF StoreToken, Uses
    <2>5. \A k \in Keys : valid[k] <= valid'[k]
      BY <1>0, <2>4 DEF TokenTypeOK
    <2>6. DeadInv'
      BY <1>0, <2>3, <2>4, <2>5, NothingRefused
    <2>. QED BY <2>1, <2>6 DEF AllInv
  <1>2. CASE TakeMarkOff(c) /\ At(c, "ok")
    <2>1. Goto(c, "cleared") /\ UNCHANGED <<gen, valid, cli, revoked, lost, clobbered, cooldown>>
      BY <1>2 DEF TakeMarkOff, At, Uses
    <2>2. /\ call'[c].at = "cleared" /\ call'[c].key = call[c].key /\ call'[c].rt = call[c].rt
          /\ call'[c].op = call[c].op
          /\ \A d \in Callers \ {c} : call'[d] = call[d]
      BY <1>0, <2>1, GotoCall DEF Steps
    <2>3. Quiet(c)
      BY <1>2, <2>1, <2>2 DEF Quiet, Carrying, At
    <2>. QED BY <2>1, <2>2, <2>3, QuietStep
  <1>3. CASE (TakeMarkOff(c) /\ ~At(c, "ok")) \/ LeaveMark(c) \/ GiveUp(c) \/ DeleteRevoked(c)
    <2>1. /\ Done(c) /\ ~Carrying(c)
          /\ UNCHANGED <<gen, valid, cli, revoked, lost, clobbered, cooldown>>
      BY <1>3 DEF TakeMarkOff, LeaveMark, GiveUp, DeleteRevoked, SoftDelete, At, Carrying, Uses
    <2>2. /\ call'[c].at \in {"idle", "next"} /\ call'[c].key \notin Keys
          /\ \A d \in Callers \ {c} : call'[d] = call[d]
      BY <1>0, <2>1, DoneCall, NoKeyAssumption
    <2>3. Quiet(c)
      BY <2>1, <2>2 DEF Quiet, Carrying
    <2>. QED BY <2>1, <2>2, <2>3, QuietStep
  <1>4. CASE MarkRefused(c)
    <2>1. /\ Done(c) /\ ~Carrying(c) /\ call[c].at = "refused"
          /\ UNCHANGED <<gen, valid, cli, revoked, lost, clobbered>>
          /\ cooldown' \subseteq cooldown \cup {<<call[c].key, call[c].rt>>}
      BY <1>4 DEF MarkRefused, CoolDown, At, Carrying, Uses
    <2>2. /\ call'[c].at \in {"idle", "next"} /\ call'[c].key \notin Keys
          /\ \A d \in Callers \ {c} : call'[d] = call[d]
      BY <1>0, <2>1, DoneCall, NoKeyAssumption
    <2>3. Quiet(c)
      BY <2>1, <2>2 DEF Quiet, Carrying
    <2>4. /\ call[c].key \in Keys /\ call[c].rt \in Nat /\ call[c].rt <= valid[call[c].key]
          /\ ~Accepts(call[c].key, call[c].rt)
      BY <1>0, <2>1 DEF CallInv, BusyInv, TokenTypeOK, KnownInv, DeadInv, RefusedInv, At
    <2>5. valid' \in [Keys -> Nat \ {0}] /\ \A k \in Keys : valid[k] <= valid'[k]
      BY <1>0, <2>1 DEF TokenTypeOK
    <2>6. \A d \in Callers : call'[d].at = "refused" => call'[d] = call[d] /\ call[d].key \in Keys
      BY <1>0, <2>2 DEF CallInv, BusyInv
    <2>7. \A x \in cooldown' : \/ x \in cooldown
                               \/ x \in Keys \X Nat /\ x[2] <= valid[x[1]] /\ ~Accepts(x[1], x[2])
      BY <2>1, <2>4
    <2>8. DeadInv'
      BY <1>0, <2>1, <2>5, <2>6, <2>7, DeadKeeps
    <2>. QED BY <1>0, <2>3, <2>8, QuietKeeps DEF AllInv
  <1>5. CASE Switch(c)
    <2>1. /\ Done(c) /\ ~Carrying(c)
          /\ UNCHANGED <<valid, cli, revoked, lost, cooldown>>
      BY <1>5 DEF Switch, At, Carrying, Uses
    <2>2. /\ call'[c].at \in {"idle", "next"} /\ call'[c].key \notin Keys
          /\ \A d \in Callers \ {c} : call'[d] = call[d]
      BY <1>0, <2>1, DoneCall, NoKeyAssumption
    <2>3. /\ \A k \in Keys : gen'[k] = gen[k] \/ gen'[k] = cli[k]
          /\ \A k \in Keys : gen'[k] < gen[k] => k \in clobbered'
          /\ clobbered \subseteq clobbered'
      <3>1. CASE active \in Keys \ {call[c].key}
        <4>1. /\ gen' = Capture(active)
              /\ clobbered' = IF gen'[active] < gen[active]
                              THEN clobbered \cup {active} ELSE clobbered
          BY <1>5, <3>1 DEF Switch
        <4>2. /\ gen'[active] \in {gen[active], cli[active]}
              /\ \A k \in Keys \ {active} : gen'[k] = gen[k] /\ gen[k] \in Nat
          BY <1>0, <3>1, <4>1 DEF Capture, TokenTypeOK
        <4>. QED BY <3>1, <4>1, <4>2
      <3>2. CASE active \notin Keys \ {call[c].key}
        <4>1. gen' = gen /\ clobbered' = clobbered
          BY <1>5, <3>2 DEF Switch
        <4>. QED BY <1>0, <4>1 DEF TokenTypeOK
      <3>. QED BY <3>1, <3>2
    <2>4. \A d \in Callers : /\ Carrying(d)' <=> Carrying(d)
                             /\ Carrying(d) => call'[d] = call[d]
                             /\ call'[d].key \in Keys => call'[d] = call[d]
      BY <2>1, <2>2 DEF Carrying
    <2>5. TokenInv'
      BY <1>0, <2>1, <2>3, <2>4, TakingKeeps
    <2>6. \A k \in Keys : valid[k] <= valid'[k]
      BY <1>0, <2>1 DEF TokenTypeOK
    <2>7. DeadInv'
      BY <1>0, <2>1, <2>2, <2>6, NothingRefused
    <2>. QED BY <2>5, <2>7 DEF AllInv
  <1>. QED BY <1>1, <1>2, <1>3, <1>4, <1>5 DEF Apply

\* The loop takes a turn.
LEMMA LoopAllInv ==
    ASSUME AllInv, CallInv', TurnLoop
    PROVE  AllInv'
  <1>. USE DEF cache, provider, history
  <1>0. TokenTypeOK /\ CallInv /\ Loop \in Callers
    BY DEF AllInv, CallInv, Callers
  <1>1. /\ UNCHANGED <<gen, valid, cli, revoked, lost, clobbered>>
        /\ cooldown' \subseteq cooldown
    BY DEF TurnLoop, Turns, StartCycle, Visit, DecideSwitch, FetchQuota, QuotaArrives, Sleep
  <1>2. ~Carrying(Loop)
    BY DEF TurnLoop, StartCycle, Visit, DecideSwitch, FetchQuota, QuotaArrives, Sleep, At, Carrying
  <1>3. \/ call' = call
        \/ Done(Loop)
        \/ \E step \in {"sent", "quota"} : Goto(Loop, step)
        \/ \E step \in {"fetch", "sent", "decided"}, op \in Ops, k \in Keys :
              StartOn(Loop, step, op, k)
        \/ call' = [call EXCEPT ![Loop] = Free("idle")]
    BY DEF TurnLoop, StartCycle, Visit, DecideSwitch, FetchQuota, QuotaArrives, Sleep, Ops
  <1>4. /\ \A d \in Callers \ {Loop} : call'[d] = call[d]
        /\ \/ call'[Loop] = call[Loop]
           \/ /\ call'[Loop].at \notin {"refused", "ok", "cleared"}
              /\ \/ call'[Loop].key = NoKey
                 \/ call'[Loop].key = call[Loop].key /\ call'[Loop].rt = call[Loop].rt
                 \/ call'[Loop].rt = gen[call'[Loop].key]
    <2>1. CASE call' = [call EXCEPT ![Loop] = Free("idle")]
      BY <1>0, <2>1 DEF Free, TokenTypeOK
    <2>2. CASE call' = call \/ Done(Loop)
      BY <1>0, <2>2, DoneCall
    <2>3. CASE \E step \in {"sent", "quota"} : Goto(Loop, step)
      BY <1>0, <2>3, GotoCall DEF Steps
    <2>4. CASE \E step \in {"fetch", "sent", "decided"}, op \in Ops, k \in Keys :
                  StartOn(Loop, step, op, k)
      BY <1>0, <2>4, StartCall DEF Steps
    <2>. QED BY <1>3, <2>1, <2>2, <2>3, <2>4
  <1>5. Quiet(Loop)
    BY <1>1, <1>2, <1>4, NoKeyAssumption DEF Quiet, Carrying
  <1>. QED BY <1>0, <1>1, <1>4, <1>5, QuietStep

\* Something happens around the process.
LEMMA EnvironmentAllInv ==
    ASSUME AllInv, CallInv', Environment
    PROVE  AllInv'
  <1>0. TokenTypeOK /\ CallInv /\ TokenInv /\ KnownInv /\ DeadInv /\ Loop \in Callers
    BY DEF AllInv, CallInv, TokenInv, Callers
  <1>1. call' = call /\ UNCHANGED <<cooldown, revoked, lost>>
    BY DEF Environment, Expire, CliRotates, PeerUpdatesQuota, MergeFromCcFile, Around,
           provider, history
  <1>2. ASSUME NEW k \in Keys, Expire(k) \/ PeerUpdatesQuota(k) PROVE AllInv'
    <2>1. Quiet(Loop)
      BY <1>0, <1>1, <1>2
        DEF Expire, PeerUpdatesQuota, Around, provider, history, Quiet, Carrying
    <2>. QED BY <1>0, <1>1, <2>1, QuietStep
  <1>3. ASSUME NEW k \in Keys, CliRotates(k) PROVE AllInv'
    <2>1. TokenInv'
      BY <1>0, <1>3, CliRotatesKeeps
    <2>2. \A j \in Keys : valid[j] <= valid'[j]
      <3>1. valid' = [valid EXCEPT ![k] = @ + 1]
        BY <1>3 DEF CliRotates
      <3>. QED BY <1>0, <3>1 DEF TokenTypeOK
    <2>3. DeadInv'
      BY <1>0, <1>1, <2>2, NothingRefused
    <2>. QED BY <2>1, <2>3 DEF AllInv
  <1>4. CASE MergeFromCcFile
    <2>1. /\ valid' = valid /\ cli' = cli
          /\ gen' = [k \in Keys |-> IF cli[k] = 0 THEN gen[k] ELSE cli[k]]
          /\ clobbered' = clobbered \cup {k \in Keys : gen'[k] < gen[k]}
      BY <1>4, Zenon DEF MergeFromCcFile
    <2>2. /\ \A k \in Keys : gen'[k] = gen[k] \/ gen'[k] = cli[k]
          /\ \A k \in Keys : gen'[k] < gen[k] => k \in clobbered'
          /\ clobbered \subseteq clobbered'
      BY <2>1
    <2>3. \A d \in Callers : Carrying(d)' <=> Carrying(d)
      BY <1>1 DEF Carrying
    <2>4. TokenInv'
      BY <1>0, <1>1, <2>1, <2>2, <2>3, TakingKeeps
    <2>5. \A k \in Keys : valid[k] <= valid'[k]
      BY <1>0, <2>1 DEF TokenTypeOK
    <2>6. DeadInv'
      BY <1>0, <1>1, <2>5, NothingRefused
    <2>. QED BY <2>4, <2>6 DEF AllInv
  <1>. QED BY <1>2, <1>3, <1>4 DEF Environment

\* At first every account's token is the accepted one, and nobody carries any.
LEMMA InitAllInv == TokenInit => AllInv
  <1> SUFFICES ASSUME TokenInit PROVE AllInv
    OBVIOUS
  <1>1. CallInv
    BY InitCallInv
  <1>2. \A c \in Callers : call[c].at = "idle" /\ call[c].key = NoKey
    BY DEF TokenInit, Free
  <1>3. \A k \in Keys : gen[k] = 1 /\ valid[k] = 1 /\ cli[k] \in {0, 1}
    BY DEF TokenInit
  <1>4. KnownInv /\ CarrierInv /\ RefusedInv /\ CooldownOnlyDead
    BY <1>2, <1>3, NoKeyAssumption
       DEF TokenInit, KnownInv, CarrierInv, Carries, RefusedInv, CooldownOnlyDead, At
  <1>5. TokenKept
    BY <1>3 DEF TokenKept
  <1>. QED BY <1>1, <1>4, <1>5 DEF AllInv, TokenInv, DeadInv

\* The invariants are inductive.
LEMMA NextAllInv == AllInv /\ [TokenNext]_tokenVars => AllInv'
  <1> SUFFICES ASSUME AllInv, [TokenNext]_tokenVars PROVE AllInv'
    OBVIOUS
  <1>1. CallInv'
    BY NextCallInv DEF AllInv
  <1>2. CASE UNCHANGED tokenVars
    <2>1. Loop \in Callers /\ Quiet(Loop)
      BY <1>2 DEF tokenVars, Quiet, Carrying, Callers
    <2>2. call' = call /\ cooldown' = cooldown
      BY <1>2 DEF tokenVars
    <2>. QED BY <1>1, <2>1, <2>2, QuietStep
  <1>3. CASE TokenNext
    BY <1>1, <1>3, BeginAllInv, AnswerAllInv, ApplyAllInv, LoopAllInv, EnvironmentAllInv
       DEF TokenNext
  <1>. QED BY <1>2, <1>3

\* The refresh token the provider accepts is never lost by the way refresh loop, commands
\* and captures interleave (TokenKept), for any number of accounts, commands and events.
THEOREM TokensAreKept == TokenSpec => []TokenKept
  <1>1. AllInv => TokenKept
    BY DEF AllInv, TokenInv
  <1>. QED BY <1>1, InitAllInv, NextAllInv, PTL DEF TokenSpec

\* The daemon's cooldown never keeps it from a token the provider would accept.
THEOREM CooldownIsSafe == TokenSpec => []CooldownOnlyDead
  <1>1. AllInv => CooldownOnlyDead
    BY DEF AllInv, DeadInv
  <1>. QED BY <1>1, InitAllInv, NextAllInv, PTL DEF TokenSpec
=============================================================================
