------------------------------- MODULE ProxyProofs -------------------------------
(***************************************************************************)
(* What the proxy promises of its requests, for any number of them, of     *)
(* client addresses and of accounts, and whatever its limits are: what an  *)
(* address gets through, who is answered by 401, and what is counted.  And *)
(* what it makes of them: what a request asks for, whose headers it goes   *)
(* out with, and what of the provider's answer comes back.                 *)
(***************************************************************************)
EXTENDS ProxyRequest, ProxyTranslation, FiniteSetTheorems, SequenceTheorems,
        WellFoundedInduction, TLAPS

-----------------------------------------------------------------------------
(* The rate limiter.                                                       *)

\* The tokens that the rate has added by a time.
Added(t) == Rate * t

\* What was let through and what is left are at most what was added, up to the last
\* look at the bucket.  Of an address without a bucket it is less by a whole bucket.
BucketInv ==
    \A i \in Ips :
        IF i \in known
        THEN last[i] <= now /\ accepted[i] + tokens[i] <= Burst - 1 + Added(last[i])
        ELSE accepted[i] <= Added(now)

LimiterInv == LimiterTypeOK /\ BucketInv

\* The rate adds as much in an interval whenever that is.
LEMMA AddedLater ==
    ASSUME NEW a \in Nat, NEW b \in Nat, a <= b
    PROVE  /\ Added(a) \in Nat /\ Added(b) \in Nat
           /\ Added(b) = Added(a) + Rate * (b - a)
           /\ Rate * (b - a) \in Nat
           /\ Added(a) <= Added(b)
  <1>1. Rate \in Nat
    BY RateAssumption
  <1>2. Rate * b = Rate * a + Rate * (b - a)
    BY <1>1
  <1>3. Rate * (b - a) \in Nat /\ Rate * a \in Nat /\ Rate * b \in Nat
    BY <1>1
  <1>. QED BY <1>2, <1>3 DEF Added

\* It adds whole tokens.
LEMMA AddedNat == ASSUME NEW a \in Nat PROVE Added(a) \in Nat
  BY RateAssumption DEF Added

\* In StaleAfter it adds a whole bucket.
LEMMA StaleFills ==
    ASSUME NEW a \in Nat, NEW b \in Nat, b - a >= StaleAfter
    PROVE  Added(b) >= Added(a) + Burst
  <1>1. Rate \in Nat /\ StaleAfter \in Nat /\ Burst \in Nat /\ Rate * StaleAfter >= Burst
    BY RateAssumption
  <1>2. PICK d \in Nat : b - a = StaleAfter + d
    BY <1>1
  <1>3. Rate * (b - a) = Rate * StaleAfter + Rate * d
    BY <1>1, <1>2
  <1>4. Rate * (b - a) >= Burst
    <2>1. Rate * d \in Nat /\ Rate * StaleAfter \in Nat
      BY <1>1
    <2>. QED BY <1>1, <1>3, <2>1
  <1>. QED BY <1>1, <1>4, AddedLater

\* There are no buckets at first.
LEMMA LimiterInvInit == LimiterInit => LimiterInv
  <1> SUFFICES ASSUME LimiterInit PROVE LimiterInv
    OBVIOUS
  <1>1. Added(0) = 0
    BY RateAssumption DEF Added
  <1>. QED BY <1>1, RateAssumption DEF LimiterInit, LimiterInv, LimiterTypeOK, BucketInv

\* What a purge forgets has let through what the rate has added, at most.
LEMMA Forgotten ==
    ASSUME LimiterInv, NEW i \in Ips, i \notin Retained
    PROVE  accepted[i] <= Added(now)
  <1>1. CASE i \notin known
    BY <1>1 DEF LimiterInv, BucketInv
  <1>2. CASE i \in known
    <2>1. /\ now - last[i] >= StaleAfter
          /\ accepted[i] + tokens[i] <= Burst - 1 + Added(last[i])
      BY <1>2, RateAssumption DEF Retained, LimiterInv, LimiterTypeOK, BucketInv
    <2>2. Added(now) >= Added(last[i]) + Burst /\ Added(last[i]) \in Nat /\ Added(now) \in Nat
      BY <1>2, <2>1, StaleFills, AddedLater DEF LimiterInv, LimiterTypeOK, BucketInv
    <2>. QED BY <2>1, <2>2, RateAssumption DEF LimiterInv, LimiterTypeOK
  <1>. QED BY <1>1, <1>2

\* A refilled bucket has no more than what was added and not let through.
LEMMA RefilledFits ==
    ASSUME LimiterInv, NEW i \in Ips
    PROVE  /\ Refilled(i) \in 0 .. Burst
           /\ accepted[i] + Refilled(i) <= Burst - 1 + Added(now)
  <1>1. /\ now \in Nat /\ last[i] \in Nat /\ accepted[i] \in Nat /\ tokens[i] \in 0 .. Burst
        /\ Burst \in Nat \ {0} /\ Added(now) \in Nat
    BY RateAssumption, AddedNat DEF LimiterInv, LimiterTypeOK
  <1>2. CASE i \notin Retained
    BY <1>1, <1>2, Forgotten DEF Refilled
  <1>3. CASE i \in Retained
    <2>1. /\ last[i] <= now
          /\ accepted[i] + tokens[i] <= Burst - 1 + Added(last[i])
      BY <1>3 DEF Retained, LimiterInv, BucketInv
    <2>2. /\ Added(now) = Added(last[i]) + Rate * (now - last[i])
          /\ Rate * (now - last[i]) \in Nat /\ Added(last[i]) \in Nat
      BY <1>1, <2>1, AddedLater
    <2>3. DEFINE gained == Rate * (now - last[i])
    <2>4. gained \in Nat /\ Added(now) = Added(last[i]) + gained
      BY <2>2
    <2>5. Refilled(i) = IF tokens[i] + gained < Burst THEN tokens[i] + gained ELSE Burst
      BY <1>3 DEF Refilled
    <2> HIDE DEF gained
    <2>. QED BY <1>1, <2>1, <2>2, <2>4, <2>5
  <1>. QED BY <1>2, <1>3

\* A request takes a token of what there is.
LEMMA CheckKeeps ==
    ASSUME LimiterInv, NEW ip \in Ips, NEW allowed \in BOOLEAN, Check(ip, allowed), now' = now
    PROVE  LimiterInv'
  <1> DEFINE spent == IF allowed THEN 1 ELSE 0
  <1>1. /\ Refilled(ip) \in 0 .. Burst
        /\ accepted[ip] + Refilled(ip) <= Burst - 1 + Added(now)
        /\ Burst \in Nat
    BY RefilledFits, RateAssumption
  <1>2. /\ spent \in {0, 1} /\ Refilled(ip) - spent \in 0 .. Burst
        /\ tokens' = [tokens EXCEPT ![ip] = Refilled(ip) - spent]
        /\ accepted' = [accepted EXCEPT ![ip] = @ + spent]
        /\ last' = [last EXCEPT ![ip] = now]
        /\ known' = Retained \cup {ip}
    <2>1. CASE allowed
      <3>1. allowed = (Refilled(ip) >= 1)
        BY DEF Check
      <3>2. Refilled(ip) >= 1
        BY <2>1, <3>1, Zenon
      <3>. QED BY <1>1, <2>1, <3>2 DEF Check
    <2>2. CASE ~allowed
      BY <1>1, <2>2 DEF Check
    <2>. QED BY <2>1, <2>2
  <1> HIDE DEF spent
  <1>3. LimiterTypeOK'
    <2>1. Retained \in SUBSET Ips /\ lastPurge' \in Nat
      BY DEF Retained, LimiterInv, LimiterTypeOK, Check
    <2>. QED BY <1>2, <2>1 DEF LimiterInv, LimiterTypeOK
  <1>4. ASSUME NEW i \in Ips
        PROVE  IF i \in known'
               THEN last'[i] <= now' /\ accepted'[i] + tokens'[i] <= Burst - 1 + Added(last'[i])
               ELSE accepted'[i] <= Added(now')
    <2>1. CASE i = ip
      <3>1. /\ tokens'[i] = Refilled(ip) - spent /\ accepted'[i] = accepted[ip] + spent
            /\ last'[i] = now /\ i \in known'
        BY <1>2, <2>1 DEF LimiterInv, LimiterTypeOK
      <3>2. accepted[ip] \in Nat /\ now \in Nat /\ Added(now) \in Nat
        BY AddedNat DEF LimiterInv, LimiterTypeOK
      <3>. QED BY <1>1, <1>2, <3>1, <3>2
    <2>2. CASE i # ip
      <3>1. /\ tokens'[i] = tokens[i] /\ accepted'[i] = accepted[i] /\ last'[i] = last[i]
            /\ i \in known' <=> i \in Retained
        BY <1>2, <2>2 DEF LimiterInv, LimiterTypeOK
      <3>2. CASE i \in Retained
        BY <3>1, <3>2 DEF Retained, LimiterInv, BucketInv
      <3>3. CASE i \notin Retained
        BY <3>1, <3>3, Forgotten
      <3>. QED BY <3>2, <3>3
    <2>. QED BY <2>1, <2>2
  <1>5. BucketInv'
    BY <1>4 DEF BucketInv, Added
  <1>. QED BY <1>3, <1>5 DEF LimiterInv

\* With time the rate adds more.
LEMMA TimeKeeps ==
    ASSUME LimiterInv, now' = now + 1, UNCHANGED limiterVars
    PROVE  LimiterInv'
  <1>1. now \in Nat /\ Added(now) <= Added(now + 1) /\ Added(now) \in Nat /\ Added(now + 1) \in Nat
    <2>1. now \in Nat /\ now + 1 \in Nat /\ now <= now + 1
      BY DEF LimiterInv, LimiterTypeOK
    <2>. QED BY <2>1, AddedLater
  <1>2. LimiterTypeOK'
    BY DEF LimiterInv, LimiterTypeOK, limiterVars
  <1>3. ASSUME NEW i \in Ips
        PROVE  IF i \in known
               THEN last[i] <= now + 1 /\ accepted[i] + tokens[i] <= Burst - 1 + Added(last[i])
               ELSE accepted[i] <= Added(now + 1)
    BY <1>1 DEF LimiterInv, LimiterTypeOK, BucketInv
  <1>4. BucketInv'
    BY <1>3 DEF BucketInv, limiterVars, Added
  <1>. QED BY <1>2, <1>4 DEF LimiterInv

\* Every variable of the limiter keeps its type, and no address gets more through than a
\* burst and what the rate has added (RateLimiter::check), for any number of addresses
\* and however large the limits are.
THEOREM RateIsKept == LimiterSpec => [](LimiterTypeOK /\ NeverOverAdmits)
  <1>1. LimiterInv => NeverOverAdmits
    <2> SUFFICES ASSUME LimiterInv, NEW i \in Ips
                 PROVE  accepted[i] <= Burst - 1 + Added(now)
      BY DEF NeverOverAdmits, Added
    <2>1. Refilled(i) \in 0 .. Burst /\ accepted[i] + Refilled(i) <= Burst - 1 + Added(now)
      BY RefilledFits
    <2>2. accepted[i] \in Nat /\ Added(now) \in Nat /\ Burst \in Nat
      BY RateAssumption, AddedNat DEF LimiterInv, LimiterTypeOK
    <2>. QED BY <2>1, <2>2
  <1>2. ASSUME LimiterInv,
               [\/ \E ip \in Ips, allowed \in BOOLEAN : Check(ip, allowed) /\ UNCHANGED now
                \/ now' = now + 1 /\ UNCHANGED limiterVars]_<<now, limiterVars>>
        PROVE  LimiterInv'
    <2>1. CASE UNCHANGED <<now, limiterVars>>
      BY <1>2, <2>1 DEF limiterVars, LimiterInv, LimiterTypeOK, BucketInv, Added
    <2>. QED BY <1>2, <2>1, CheckKeeps, TimeKeeps
  <1>3. LimiterInv => LimiterTypeOK
    BY DEF LimiterInv
  <1>. QED BY LimiterInvInit, <1>1, <1>2, <1>3, PTL DEF LimiterSpec

-----------------------------------------------------------------------------
(* The requests: their types.                                              *)

Places == {"new", "read", "routed", "unauthorized", "poll"} \cup Waiting \cup Ended

Codes == {200, 401, 500}

\* The types of ProxyRequest without the limiter's, and what bounds the clock and the
\* generations of tokens.
RequestTypeOK ==
    /\ now \in 0 .. MaxTime
    /\ upstream \in [Accounts -> Upstreams]
    /\ valid \in [Accounts -> Gens] /\ \A a \in Accounts : valid[a] \in 1 .. 2 + changes
    /\ disk \in Image
    /\ cache \in Image
    /\ pc \in [Requests -> Places]
    /\ req \in [Requests -> Held]
    /\ pending \in Seq(Entry)
    /\ logged \in Seq(Entry)
    /\ sessions \in [Accounts \X Buckets -> Nat \cup {None}]
    /\ running \in BOOLEAN
    /\ changes \in 0 .. MaxChanges
    /\ clean \in SUBSET Requests
    /\ dropped \in SUBSET Requests

\* All that an answer keeps of a request.
Same(old, new) ==
    /\ new.acct = old.acct /\ new.streams = old.streams
    /\ new.wants = old.wants /\ new.usage = old.usage /\ new.code = old.code
    /\ new.again = old.again
    /\ new.stalled = old.stalled

\* What a handler holds, with one field changed.
LEMMA HeldChanges ==
    ASSUME NEW h \in Held
    PROVE  /\ \A v \in Accounts \cup {NoAccount} : [h EXCEPT !.acct = v] \in Held
           /\ \A v \in Accounts \cup {NoAccount} : [h EXCEPT !.sentAs = v] \in Held
           /\ \A v \in Gens : [h EXCEPT !.token = v] \in Held
           /\ \A v \in BOOLEAN : [h EXCEPT !.streams = v] \in Held
           /\ \A v \in BOOLEAN : [h EXCEPT !.wants = v] \in Held
           /\ \A v \in 0 .. MaxPolls : [h EXCEPT !.polls = v] \in Held
           /\ \A v \in 0 .. MaxTime : [h EXCEPT !.since = v] \in Held
           /\ \A v \in 0 .. 1 : [h EXCEPT !.usage = v] \in Held
           /\ \A v \in Codes : [h EXCEPT !.code = v] \in Held
           /\ \A v \in BOOLEAN : [h EXCEPT !.again = v] \in Held
           /\ \A v \in BOOLEAN : [h EXCEPT !.stalled = v] \in Held
  <1>1. \A v \in Accounts \cup {NoAccount} : [h EXCEPT !.acct = v] \in Held
    BY DEF Held
  <1>2. \A v \in Accounts \cup {NoAccount} : [h EXCEPT !.sentAs = v] \in Held
    BY DEF Held
  <1>3. \A v \in Gens : [h EXCEPT !.token = v] \in Held
    BY DEF Held
  <1>4. \A v \in BOOLEAN : [h EXCEPT !.streams = v] \in Held
    BY DEF Held
  <1>5. \A v \in BOOLEAN : [h EXCEPT !.wants = v] \in Held
    BY DEF Held
  <1>6. \A v \in 0 .. MaxPolls : [h EXCEPT !.polls = v] \in Held
    BY DEF Held
  <1>7. \A v \in 0 .. MaxTime : [h EXCEPT !.since = v] \in Held
    BY DEF Held
  <1>8. \A v \in 0 .. 1 : [h EXCEPT !.usage = v] \in Held
    BY DEF Held
  <1>9. \A v \in Codes : [h EXCEPT !.code = v] \in Held
    BY DEF Held, Codes
  <1>10. \A v \in BOOLEAN : [h EXCEPT !.again = v] \in Held
    BY DEF Held
  <1>11. \A v \in BOOLEAN : [h EXCEPT !.stalled = v] \in Held
    BY DEF Held
  <1>. QED BY <1>1, <1>2, <1>3, <1>4, <1>5, <1>6, <1>7, <1>8, <1>9, <1>10, <1>11

\* What a handler holds before it begins.
LEMMA NewIsHeld == NewRequest \in Held
  BY LimitsAssumption DEF NewRequest, Held, Gens

\* A step of one handler is a step of no other.
LEMMA GotoMoves ==
    ASSUME RequestTypeOK, NEW r \in Requests, NEW place \in Places, NEW h \in Held,
           Goto(r, place, h)
    PROVE  /\ pc' \in [Requests -> Places] /\ req' \in [Requests -> Held]
           /\ pc'[r] = place
           /\ place = "answered" => Same(h, req'[r])
           /\ place \notin Ended => req'[r] = h
           /\ place \in Ended \ {"answered"} => req'[r] = NewRequest
           /\ \A q \in Requests : q # r => pc'[q] = pc[q] /\ req'[q] = req[q]
  <1>. DEFINE end == [h EXCEPT !.sentAs = NoAccount, !.token = 0, !.polls = 0, !.since = 0]
  <1>1. end \in Held /\ Same(h, end)
    <2>1. 0 \in Gens /\ 0 \in 0 .. MaxPolls /\ 0 \in 0 .. MaxTime
      BY LimitsAssumption DEF Gens
    <2>2. Same(h, end)
      BY DEF Held, Same
    <2>3. end \in Held
      <3>. DEFINE e1 == [h EXCEPT !.sentAs = NoAccount]
                  e2 == [e1 EXCEPT !.token = 0]
                  e3 == [e2 EXCEPT !.polls = 0]
                  e4 == [e3 EXCEPT !.since = 0]
      <3>1. e1 \in Held
        BY HeldChanges
      <3>2. e2 \in Held
        BY <2>1, <3>1, HeldChanges
      <3>3. e3 \in Held
        BY <2>1, <3>2, HeldChanges
      <3>4. e4 \in Held
        BY <2>1, <3>3, HeldChanges
      <3>5. end = e4
        BY DEF Held
      <3>. QED BY <3>4, <3>5
    <2>. QED BY <2>2, <2>3
  <1>2. NewRequest \in Held
    BY NewIsHeld
  <1>3. /\ pc' = [pc EXCEPT ![r] = place]
        /\ req' = [req EXCEPT ![r] = IF place = "answered" THEN end
                                    ELSE IF place \in Ended THEN NewRequest ELSE h]
    BY DEF Goto
  <1>5. "answered" \in Ended
    BY DEF Ended
  <1>4. pc \in [Requests -> Places] /\ req \in [Requests -> Held]
    BY DEF RequestTypeOK
  <1>. HIDE DEF end
  <1>. QED BY <1>1, <1>2, <1>3, <1>4, <1>5

\* A request is counted in the usage file, or waits for it, or that cannot be written.
LEMMA RecordTypes ==
    ASSUME RequestTypeOK, NEW r \in Requests, NEW usage \in 0 .. 1, RecordUsage(r, usage)
    PROVE  /\ pending' \in Seq(Entry) /\ logged' \in Seq(Entry)
           /\ dropped' \in SUBSET Requests
  <1>. DEFINE entry == [of |-> r, usage |-> usage]
              entries == Append(pending, entry)
  <1>1. entries \in Seq(Entry) /\ \A i \in DOMAIN entries : entries[i].of \in Requests
    <2>1. entry \in Entry
      BY DEF Entry
    <2>. HIDE DEF entry
    <2>2. entries \in Seq(Entry)
      BY <2>1 DEF RequestTypeOK
    <2>. HIDE DEF entries
    <2>3. \A i \in DOMAIN entries : entries[i] \in Entry
      BY <2>2
    <2>4. \A e \in Entry : e.of \in Requests
      BY DEF Entry
    <2>. QED BY <2>2, <2>3, <2>4
  <1>2. \/ \E ok \in BOOLEAN : Flush(entries, ok)
        \/ pending' = entries /\ UNCHANGED <<logged, dropped>>
    BY DEF RecordUsage
  <1>. HIDE DEF entries
  <1>3. CASE pending' = entries /\ UNCHANGED <<logged, dropped>>
    BY <1>1, <1>3 DEF RequestTypeOK
  <1>4. ASSUME NEW ok \in BOOLEAN, Flush(entries, ok)
        PROVE  /\ pending' \in Seq(Entry) /\ logged' \in Seq(Entry)
               /\ dropped' \in SUBSET Requests
    <2>1. {entries[i].of : i \in DOMAIN entries} \subseteq Requests
      BY <1>1
    <2>2. logged \o entries \in Seq(Entry)
      BY <1>1 DEF RequestTypeOK
    <2>3. <<>> \in Seq(Entry)
      OBVIOUS
    <2>4. CASE ok
      BY <1>4, <2>2, <2>3, <2>4 DEF Flush, RequestTypeOK
    <2>5. CASE ~ok
      BY <1>4, <2>1, <2>3, <2>5 DEF Flush, RequestTypeOK
    <2>. QED BY <2>4, <2>5
  <1>. QED BY <1>2, <1>3, <1>4

\* So it is in a session.
LEMMA SessionTypes ==
    ASSUME RequestTypeOK, NEW a, NEW units \in Nat,
           RecordSession(a, units) \/ UpdateSession(a, units)
    PROVE  sessions' \in [Accounts \X Buckets -> Nat \cup {None}]
  <1>1. CASE RecordSession(a, units)
    <2>. DEFINE s == <<a, CurrentBucket>>
                new == (IF sessions[s] = None THEN 0 ELSE sessions[s]) + units
    <2>1. s \in Accounts \X Buckets => new \in Nat
      BY DEF RequestTypeOK
    <2>2. s \in Accounts \X Buckets => sessions' = [sessions EXCEPT ![s] = new]
      BY <1>1 DEF RecordSession, RequestTypeOK
    <2>3. s \notin Accounts \X Buckets => sessions' = sessions
      BY <1>1 DEF RecordSession, RequestTypeOK
    <2>. HIDE DEF s, new
    <2>. QED BY <2>1, <2>2, <2>3 DEF RequestTypeOK
  <1>2. CASE UpdateSession(a, units)
    <2>. DEFINE open == {b \in {CurrentBucket, CurrentBucket - 1} \cap Buckets : sessions[<<a, b>>] # None}
    <2>1. CASE units = 0 \/ open = {}
      BY <1>2, <2>1 DEF UpdateSession, RequestTypeOK
    <2>2. CASE ~(units = 0 \/ open = {})
      <3>1. sessions' = [sessions EXCEPT ![<<a, Max(open)>>] = @ + units]
        BY <1>2, <2>2 DEF UpdateSession
      <3>2. Max(open) \in open
        <4>1. open \subseteq Int
          BY DEF Buckets
        <4>2. CurrentBucket \in open \/ CurrentBucket - 1 \in open
          BY <2>2
        <4>3. \E x \in open : \A y \in open : x >= y
          BY <4>1, <4>2
        <4>. HIDE DEF open
        <4>. QED BY <4>3 DEF Max
      <3>3. sessions[<<a, Max(open)>>] # None
        BY <3>2
      <3>. DEFINE s == <<a, Max(open)>>
      <3>4. s \in Accounts \X Buckets => sessions[s] + units \in Nat
        BY <3>3 DEF RequestTypeOK
      <3>5. s \in Accounts \X Buckets => sessions' = [sessions EXCEPT ![s] = sessions[s] + units]
        BY <3>1 DEF RequestTypeOK
      <3>6. s \notin Accounts \X Buckets => sessions' = sessions
        BY <3>1 DEF RequestTypeOK
      <3>. HIDE DEF s
      <3>. QED BY <3>4, <3>5, <3>6 DEF RequestTypeOK
    <2>. QED BY <2>1, <2>2
  <1>. QED BY <1>1, <1>2

\* How a request goes on that was refused: it waits, or is sent once more.
Polls(r) ==
    /\ req[r].polls < MaxPolls
    /\ Goto(r, "poll", [req[r] EXCEPT !.polls = @ + 1]) /\ UNCHANGED accounting
Resends(r, a) ==
    /\ Goto(r, "resent", [req[r] EXCEPT !.sentAs = a, !.token = cache'.gen[a],
                                        !.since = now, !.again = TRUE])
    /\ UNCHANGED accounting

\* After a refusal the copy is reloaded; the refusal is the answer, or the request goes on.
LEMMA RetryDoes ==
    ASSUME NEW r, RetryOrWait(r)
    PROVE  /\ pc[r] \in {"unauthorized", "poll"}
           /\ UNCHANGED <<now, limiterVars, upstream, valid, disk, changes, running>>
           /\ \E readable \in BOOLEAN :
                 /\ Reload(readable)
                 /\ clean' = IF readable THEN clean ELSE clean \ {r}
           /\ \/ \E a \in ActiveIn(cache') : Resends(r, a)
              \/ /\ \/ \E a \in ActiveIn(cache') : cache'.gen[a] = req[r].token /\ a = req[r].sentAs
                    \/ ActiveIn(cache') = {}
                 /\ Answer(r, 401) \/ PassOn(r, 401) \/ Polls(r)
  <1>1. pc[r] \in {"unauthorized", "poll"}
    BY DEF RetryOrWait
  <1>2. UNCHANGED <<now, limiterVars, upstream, valid, disk, changes, running>>
    BY DEF RetryOrWait
  <1>3. \E readable \in BOOLEAN :
           /\ Reload(readable)
           /\ clean' = IF readable THEN clean ELSE clean \ {r}
    BY DEF RetryOrWait
  <1>4. \/ \E a \in ActiveIn(cache') : Resends(r, a)
        \/ /\ \/ \E a \in ActiveIn(cache') : cache'.gen[a] = req[r].token /\ a = req[r].sentAs
              \/ ActiveIn(cache') = {}
           /\ Answer(r, 401) \/ PassOn(r, 401) \/ Polls(r)
    BY DEF RetryOrWait, Polls, Resends
  <1>. QED BY <1>1, <1>2, <1>3, <1>4

\* What a handler holds after each of its steps.
LEMMA HeldNext ==
    ASSUME NEW h \in Held
    PROVE  /\ \A a \in Accounts, t \in Gens :
                  [h EXCEPT !.acct = a, !.sentAs = a, !.token = t] \in Held
           /\ \A t \in 0 .. MaxTime, wants, streams \in BOOLEAN :
                  [h EXCEPT !.since = t, !.wants = wants, !.streams = streams] \in Held
           /\ \A code \in Codes, units \in 0 .. 1 :
                  /\ [h EXCEPT !.code = code, !.usage = units] \in Held
                  /\ [h EXCEPT !.code = code, !.wants = FALSE, !.usage = units] \in Held
           /\ \A a \in Accounts, t \in Gens, s \in 0 .. MaxTime :
                  [h EXCEPT !.sentAs = a, !.token = t, !.since = s, !.again = TRUE] \in Held
  <1>1. ASSUME NEW a \in Accounts, NEW t \in Gens
        PROVE  [h EXCEPT !.acct = a, !.sentAs = a, !.token = t] \in Held
    <2>. DEFINE h1 == [h EXCEPT !.acct = a]
                h2 == [h1 EXCEPT !.sentAs = a]
                h3 == [h2 EXCEPT !.token = t]
    <2>1. h1 \in Held
      BY HeldChanges
    <2>2. [h EXCEPT !.acct = a, !.sentAs = a, !.token = t] = h3
      BY DEF Held
    <2>. HIDE DEF h1
    <2>3. h2 \in Held
      BY <2>1, HeldChanges
    <2>. HIDE DEF h2
    <2>. QED BY <2>2, <2>3, HeldChanges
  <1>2. ASSUME NEW t \in 0 .. MaxTime, NEW wants \in BOOLEAN, NEW streams \in BOOLEAN
        PROVE  [h EXCEPT !.since = t, !.wants = wants, !.streams = streams] \in Held
    <2>. DEFINE h1 == [h EXCEPT !.since = t]
                h2 == [h1 EXCEPT !.wants = wants]
                h3 == [h2 EXCEPT !.streams = streams]
    <2>1. h1 \in Held
      BY HeldChanges
    <2>2. [h EXCEPT !.since = t, !.wants = wants, !.streams = streams] = h3
      BY DEF Held
    <2>. HIDE DEF h1
    <2>3. h2 \in Held
      BY <2>1, HeldChanges
    <2>. HIDE DEF h2
    <2>4. h3 \in Held
      BY <2>3, HeldChanges
    <2>. HIDE DEF h3
    <2>. QED BY <2>2, <2>4
  <1>3. ASSUME NEW code \in Codes, NEW units \in 0 .. 1
        PROVE  /\ [h EXCEPT !.code = code, !.usage = units] \in Held
               /\ [h EXCEPT !.code = code, !.wants = FALSE, !.usage = units] \in Held
    <2>. DEFINE h1 == [h EXCEPT !.code = code]
                h2 == [h1 EXCEPT !.wants = FALSE]
    <2>1. h1 \in Held
      BY HeldChanges
    <2>2. /\ [h EXCEPT !.code = code, !.usage = units] = [h1 EXCEPT !.usage = units]
          /\ [h EXCEPT !.code = code, !.wants = FALSE, !.usage = units] = [h2 EXCEPT !.usage = units]
      BY DEF Held
    <2>. HIDE DEF h1
    <2>3. [h1 EXCEPT !.usage = units] \in Held
      BY <2>1, HeldChanges
    <2>4. h2 \in Held
      BY <2>1, HeldChanges
    <2>. HIDE DEF h2
    <2>5. [h2 EXCEPT !.usage = units] \in Held
      BY <2>4, HeldChanges
    <2>. QED BY <2>2, <2>3, <2>5
  <1>4. ASSUME NEW a \in Accounts, NEW t \in Gens, NEW s \in 0 .. MaxTime
        PROVE  [h EXCEPT !.sentAs = a, !.token = t, !.since = s, !.again = TRUE] \in Held
    <2>. DEFINE h1 == [h EXCEPT !.sentAs = a]
                h2 == [h1 EXCEPT !.token = t]
                h3 == [h2 EXCEPT !.since = s]
                h4 == [h3 EXCEPT !.again = TRUE]
    <2>1. h1 \in Held
      BY HeldChanges
    <2>2. [h EXCEPT !.sentAs = a, !.token = t, !.since = s, !.again = TRUE] = h4
      BY DEF Held
    <2>. HIDE DEF h1
    <2>3. h2 \in Held
      BY <2>1, HeldChanges
    <2>. HIDE DEF h2
    <2>4. h3 \in Held
      BY <2>3, HeldChanges
    <2>. HIDE DEF h3
    <2>. QED BY <2>2, <2>4, HeldChanges
  <1>. QED BY <1>1, <1>2, <1>3, <1>4

\* The active account has a token.
LEMMA ActiveTypes ==
    ASSUME NEW image \in Image, NEW a \in ActiveIn(image)
    PROVE  a \in Accounts /\ image.gen[a] \in Gens
  BY RequestAssumption DEF ActiveIn, Image

\* A copy of the file is the file.
LEMMA ReloadTypes == ASSUME RequestTypeOK, NEW readable, Reload(readable) PROVE cache' \in Image
  BY DEF RequestTypeOK, Reload

\* An answer that is counted, and one that is not.
LEMMA AnswerTypes ==
    ASSUME RequestTypeOK, NEW r \in Requests, NEW code \in Codes,
           \/ Answer(r, code)
           \/ PassOn(r, code)
    PROVE  /\ pc' \in [Requests -> Places] /\ req' \in [Requests -> Held]
           /\ pending' \in Seq(Entry) /\ logged' \in Seq(Entry)
           /\ dropped' \in SUBSET Requests
           /\ sessions' \in [Accounts \X Buckets -> Nat \cup {None}]
  <1>1. req[r] \in Held /\ "answered" \in Places
    BY DEF RequestTypeOK, Places, Ended
  <1>2. CASE Answer(r, code)
    <2>1. PICK units \in (IF code = 200 THEN {0, 1} ELSE {0}) :
              /\ Goto(r, "answered", [req[r] EXCEPT !.code = code, !.usage = units])
              /\ RecordUsage(r, units)
              /\ RecordSession(req[r].acct, WithCache(units))
      BY <1>2 DEF Answer
    <2>2. [req[r] EXCEPT !.code = code, !.usage = units] \in Held
      <3>1. units \in 0 .. 1
        OBVIOUS
      <3>. QED BY <1>1, <3>1, HeldNext
    <2>3. pc' \in [Requests -> Places] /\ req' \in [Requests -> Held]
      BY <1>1, <2>1, <2>2, GotoMoves
    <2>4. /\ pending' \in Seq(Entry) /\ logged' \in Seq(Entry)
          /\ dropped' \in SUBSET Requests
      BY <2>1, RecordTypes
    <2>5. sessions' \in [Accounts \X Buckets -> Nat \cup {None}]
      <3>1. WithCache(units) \in Nat
        BY DEF WithCache
      <3>. QED BY <2>1, <3>1, SessionTypes
    <2>. QED BY <2>3, <2>4, <2>5
  <1>3. CASE PassOn(r, code)
    <2>. DEFINE units == IF code = 200 THEN 1 ELSE 0
    <2>1. [req[r] EXCEPT !.code = code, !.wants = FALSE, !.usage = units] \in Held
      <3>1. units \in 0 .. 1
        OBVIOUS
      <3>. HIDE DEF units
      <3>. QED BY <1>1, <3>1, HeldNext
    <2>2. pc' \in [Requests -> Places] /\ req' \in [Requests -> Held]
      BY <1>1, <1>3, <2>1, GotoMoves DEF PassOn
    <2>. QED BY <1>3, <2>2 DEF PassOn, accounting, RequestTypeOK
  <1>. QED BY <1>2, <1>3

\* The types hold at the start.
LEMMA RequestTypeInit == ProxyInit => RequestTypeOK
  <1>. SUFFICES ASSUME ProxyInit PROVE RequestTypeOK
    OBVIOUS
  <1>1. 0 \in Gens /\ 1 \in Gens /\ 2 \in Gens /\ 0 \in 0 .. MaxTime /\ 0 \in 0 .. MaxPolls
        /\ 0 \in 0 .. MaxChanges
    BY LimitsAssumption DEF Gens
  <1>2. NewRequest \in Held
    BY NewIsHeld
  <1>3. disk \in Image /\ cache \in Image
    BY <1>1 DEF ProxyInit, Image
  <1>4. valid \in [Accounts -> Gens] /\ \A a \in Accounts : valid[a] \in 1 .. 2 + changes
    BY <1>1 DEF ProxyInit
  <1>5. now \in 0 .. MaxTime
    BY <1>1 DEF ProxyInit, LimiterInit
  <1>. QED BY <1>1, <1>2, <1>3, <1>4, <1>5 DEF ProxyInit, RequestTypeOK, Places

\* Every step of the proxy, of a client and of the daemon keeps the types.
LEMMA RequestTypeStep ==
    ASSUME RequestTypeOK, [ProxyNext]_proxyVars
    PROVE  RequestTypeOK'
  <1>. USE DEF credentials, accounting
  <1>1. ASSUME NEW r \in Requests
        PROVE  /\ req[r] \in Held /\ req[r].acct \in Accounts \cup {NoAccount}
               /\ req[r].usage \in Nat
               /\ req[r].polls \in Nat
    BY DEF RequestTypeOK, Held
  <1>2. /\ Ended \subseteq Places /\ Waiting \subseteq Places
        /\ "read" \in Places /\ "routed" \in Places /\ "unauthorized" \in Places
        /\ "poll" \in Places
        /\ "refused" \in Places /\ "failed" \in Places /\ "left" \in Places /\ "answered" \in Places
        /\ "sent" \in Places /\ "resent" \in Places /\ "stream" \in Places
        /\ "reassemble" \in Places
    BY DEF Places, Ended, Waiting
  <1>3. 200 \in Codes /\ 401 \in Codes /\ 500 \in Codes
    BY DEF Codes
  <1>4. ASSUME NEW r \in Requests, Arrive(r) PROVE RequestTypeOK'
    <2>1. PICK place \in {"read", "refused"} : Goto(r, place, req[r])
      BY <1>4 DEF Arrive
    <2>2. pc' \in [Requests -> Places] /\ req' \in [Requests -> Held]
      BY <1>1, <1>2, <2>1, GotoMoves
    <2>. QED BY <1>4, <2>2 DEF Arrive, RequestTypeOK
  <1>5. ASSUME NEW r \in Requests, Route(r) PROVE RequestTypeOK'
    <2>1. CASE Goto(r, "failed", req[r]) /\ UNCHANGED clean
      <3>1. pc' \in [Requests -> Places] /\ req' \in [Requests -> Held]
        BY <1>1, <1>2, <2>1, GotoMoves
      <3>. QED BY <1>5, <2>1, <3>1 DEF Route, RequestTypeOK
    <2>2. ASSUME NEW a \in ActiveIn(cache),
                 Goto(r, "routed", [req[r] EXCEPT !.acct = a, !.sentAs = a, !.token = cache.gen[a]]),
                 clean' = IF /\ disk.active # NoAccount /\ upstream[disk.active] = upstream[a]
                             /\ disk.gen[disk.active] = valid[disk.active]
                          THEN clean \cup {r} ELSE clean
          PROVE  RequestTypeOK'
      <3>1. a \in Accounts /\ cache.gen[a] \in Gens
        BY ActiveTypes DEF RequestTypeOK
      <3>2. [req[r] EXCEPT !.acct = a, !.sentAs = a, !.token = cache.gen[a]] \in Held
        BY <1>1, <3>1, HeldNext
      <3>3. pc' \in [Requests -> Places] /\ req' \in [Requests -> Held]
        BY <1>2, <2>2, <3>2, GotoMoves
      <3>. QED BY <1>5, <2>2, <3>3 DEF Route, RequestTypeOK
    <2>. QED BY <1>5, <2>1, <2>2 DEF Route
  <1>6. ASSUME NEW r \in Requests, NEW wants \in BOOLEAN, NEW streams \in BOOLEAN,
               Send(r, wants, streams)
        PROVE  RequestTypeOK'
    <2>1. now \in 0 .. MaxTime
      BY DEF RequestTypeOK
    <2>2. [req[r] EXCEPT !.since = now, !.wants = wants, !.streams = streams] \in Held
      BY <1>1, <2>1, HeldNext
    <2>3. pc' \in [Requests -> Places] /\ req' \in [Requests -> Held]
      BY <1>1, <1>2, <1>6, <2>2, GotoMoves DEF Send
    <2>. QED BY <1>6, <2>3 DEF Send, RequestTypeOK
  <1>7. ASSUME NEW r \in Requests, NoAnswer(r) PROVE RequestTypeOK'
    <2>1. pc' \in [Requests -> Places] /\ req' \in [Requests -> Held]
      BY <1>1, <1>2, <1>7, GotoMoves DEF NoAnswer
    <2>. QED BY <1>7, <2>1 DEF NoAnswer, RequestTypeOK
  <1>8. ASSUME NEW r \in Requests, NEW code \in Codes, Answer(r, code) \/ PassOn(r, code),
               UNCHANGED <<now, limiterVars, upstream, valid, disk, changes, running>>,
               cache' \in Image, clean' \in SUBSET Requests
        PROVE  RequestTypeOK'
    <2>1. /\ pc' \in [Requests -> Places] /\ req' \in [Requests -> Held]
          /\ pending' \in Seq(Entry) /\ logged' \in Seq(Entry)
          /\ dropped' \in SUBSET Requests
          /\ sessions' \in [Accounts \X Buckets -> Nat \cup {None}]
      BY <1>8, AnswerTypes
    <2>. QED BY <1>8, <2>1 DEF RequestTypeOK
  <1>9. cache \in Image /\ clean \in SUBSET Requests
    BY DEF RequestTypeOK
  <1>10. ASSUME NEW r \in Requests, FirstAnswer(r) PROVE RequestTypeOK'
    <2>1. UNCHANGED <<now, limiterVars, upstream, valid, disk, cache, changes, running, clean>>
      BY <1>10 DEF FirstAnswer
    <2>2. \/ \E code \in Codes : Answer(r, code) \/ PassOn(r, code)
          \/ /\ Goto(r, "stream", req[r]) /\ RecordUsage(r, 0) /\ RecordSession(req[r].acct, 0)
          \/ Goto(r, "reassemble", req[r]) /\ UNCHANGED accounting
          \/ Goto(r, "unauthorized", req[r]) /\ UNCHANGED accounting
      BY <1>3, <1>10 DEF FirstAnswer, Success
    <2>3. CASE \E code \in Codes : Answer(r, code) \/ PassOn(r, code)
      BY <1>8, <1>9, <2>1, <2>3
    <2>4. CASE Goto(r, "stream", req[r]) /\ RecordUsage(r, 0) /\ RecordSession(req[r].acct, 0)
      <3>1. pc' \in [Requests -> Places] /\ req' \in [Requests -> Held]
        BY <1>1, <1>2, <2>4, GotoMoves
      <3>2. /\ pending' \in Seq(Entry) /\ logged' \in Seq(Entry)
            /\ dropped' \in SUBSET Requests
        BY <2>4, RecordTypes
      <3>3. sessions' \in [Accounts \X Buckets -> Nat \cup {None}]
        BY <2>4, SessionTypes
      <3>. QED BY <2>1, <3>1, <3>2, <3>3 DEF RequestTypeOK
    <2>5. CASE \/ Goto(r, "reassemble", req[r]) /\ UNCHANGED accounting
               \/ Goto(r, "unauthorized", req[r]) /\ UNCHANGED accounting
      <3>1. pc' \in [Requests -> Places] /\ req' \in [Requests -> Held]
        BY <1>1, <1>2, <2>5, GotoMoves
      <3>. QED BY <2>1, <2>5, <3>1 DEF RequestTypeOK
    <2>. QED BY <2>2, <2>3, <2>4, <2>5
  <1>11. ASSUME NEW r \in Requests, RetryOrWait(r) PROVE RequestTypeOK'
    <2>1. PICK readable \in BOOLEAN : /\ Reload(readable)
                                      /\ clean' = IF readable THEN clean ELSE clean \ {r}
      BY <1>11, RetryDoes
    <2>2. cache' \in Image /\ clean' \in SUBSET Requests
      BY <1>9, <2>1, ReloadTypes
    <2>3. UNCHANGED <<now, limiterVars, upstream, valid, disk, changes, running>>
      BY <1>11, RetryDoes
    <2>4. \/ Answer(r, 401) \/ PassOn(r, 401) \/ Polls(r)
          \/ \E a \in ActiveIn(cache') : Resends(r, a)
      BY <1>11, RetryDoes
    <2>5. CASE Answer(r, 401) \/ PassOn(r, 401)
      BY <1>3, <1>8, <2>2, <2>3, <2>5
    <2>6. CASE Polls(r)
      <3>1. req[r].polls + 1 \in 0 .. MaxPolls
        BY <1>1, <2>6, LimitsAssumption DEF Polls
      <3>2. [req[r] EXCEPT !.polls = @ + 1] \in Held
        BY <1>1, <3>1, HeldChanges
      <3>3. pc' \in [Requests -> Places] /\ req' \in [Requests -> Held]
        BY <1>2, <2>6, <3>2, GotoMoves DEF Polls
      <3>4. UNCHANGED accounting
        BY <2>6 DEF Polls
      <3>. QED BY <2>2, <2>3, <3>3, <3>4 DEF RequestTypeOK
    <2>7. ASSUME NEW a \in ActiveIn(cache'), Resends(r, a)
          PROVE  RequestTypeOK'
      <3>1. a \in Accounts /\ cache'.gen[a] \in Gens /\ now \in 0 .. MaxTime
        BY <2>2, ActiveTypes DEF RequestTypeOK
      <3>2. [req[r] EXCEPT !.sentAs = a, !.token = cache'.gen[a], !.since = now, !.again = TRUE]
              \in Held
        BY <1>1, <3>1, HeldNext
      <3>3. pc' \in [Requests -> Places] /\ req' \in [Requests -> Held]
        BY <1>2, <2>7, <3>2, GotoMoves DEF Resends
      <3>4. UNCHANGED accounting
        BY <2>7 DEF Resends
      <3>. QED BY <2>2, <2>3, <3>3, <3>4 DEF RequestTypeOK
    <2>. QED BY <2>4, <2>5, <2>6, <2>7
  <1>12. ASSUME NEW r \in Requests, SecondAnswer(r) PROVE RequestTypeOK'
    <2>1. UNCHANGED <<now, limiterVars, upstream, valid, disk, cache, changes, running, clean>>
      BY <1>12 DEF SecondAnswer
    <2>2. PICK code \in Codes : Answer(r, code) \/ PassOn(r, code)
      BY <1>12 DEF SecondAnswer, Code, Codes
    <2>. QED BY <1>8, <1>9, <2>1, <2>2
  <1>13. ASSUME NEW r \in Requests, StreamEvent(r) PROVE RequestTypeOK'
    <2>1. [req[r] EXCEPT !.usage = 1] \in Held
      <3>1. 1 \in 0 .. 1
        OBVIOUS
      <3>. QED BY <1>1, <3>1, HeldChanges
    <2>2. pc' \in [Requests -> Places] /\ req' \in [Requests -> Held]
      BY <1>2, <1>13, <2>1, GotoMoves DEF StreamEvent
    <2>. QED BY <1>13, <2>2 DEF StreamEvent, RequestTypeOK
  <1>14. ASSUME NEW r \in Requests, StreamEnds(r) PROVE RequestTypeOK'
    <2>1. pc' \in [Requests -> Places] /\ req' \in [Requests -> Held]
      BY <1>1, <1>2, <1>14, GotoMoves DEF StreamEnds
    <2>2. sessions' \in [Accounts \X Buckets -> Nat \cup {None}]
      <3>1. WithCache(req[r].usage) \in Nat
        BY <1>1 DEF WithCache
      <3>. QED BY <1>1, <1>14, <3>1, SessionTypes DEF StreamEnds
    <2>. QED BY <1>14, <2>1, <2>2 DEF StreamEnds, RequestTypeOK
  <1>15. ASSUME NEW r \in Requests, ReassemblyEnds(r) PROVE RequestTypeOK'
    <2>1. pc' \in [Requests -> Places] /\ req' \in [Requests -> Held]
      BY <1>1, <1>2, <1>15, GotoMoves DEF ReassemblyEnds
    <2>2. CASE RecordUsage(r, req[r].usage) /\ RecordSession(req[r].acct, req[r].usage)
      <3>1. /\ pending' \in Seq(Entry) /\ logged' \in Seq(Entry)
            /\ dropped' \in SUBSET Requests
        <4>1. req[r].usage \in 0 .. 1
          BY <1>1 DEF Held
        <4>. QED BY <2>2, <4>1, RecordTypes
      <3>2. sessions' \in [Accounts \X Buckets -> Nat \cup {None}]
        BY <1>1, <2>2, SessionTypes
      <3>. QED BY <1>15, <2>1, <3>1, <3>2 DEF ReassemblyEnds, RequestTypeOK
    <2>3. CASE UNCHANGED accounting
      BY <1>15, <2>1, <2>3 DEF ReassemblyEnds, RequestTypeOK
    <2>. QED BY <1>15, <2>2, <2>3 DEF ReassemblyEnds
  <1>16. ASSUME NEW r \in Requests, ClientLeaves(r) \/ ClientStalls(r) PROVE RequestTypeOK'
    <2>1. [req[r] EXCEPT !.stalled = TRUE] \in Held
      BY <1>1, HeldChanges
    <2>2. pc' \in [Requests -> Places] /\ req' \in [Requests -> Held]
      BY <1>1, <1>2, <1>16, <2>1, GotoMoves DEF ClientLeaves, ClientStalls
    <2>. QED BY <1>16, <2>2 DEF ClientLeaves, ClientStalls, RequestTypeOK
  <1>17. ASSUME NEW a \in Accounts, RotateToken(a) PROVE RequestTypeOK'
    <2>1. changes + 1 \in 0 .. MaxChanges /\ valid[a] + 1 \in 1 .. 2 + (changes + 1)
      BY <1>17, LimitsAssumption DEF RotateToken, RequestTypeOK
    <2>2. valid[a] + 1 \in Gens
      BY <2>1, LimitsAssumption DEF Gens
    <2>3. clean' \in SUBSET Requests
      BY <1>17 DEF RotateToken, Disturb, RequestTypeOK
    <2>4. ASSUME NEW b \in Accounts PROVE valid'[b] \in 1 .. 2 + changes'
      BY <1>17, <2>1 DEF RotateToken, RequestTypeOK
    <2>5. valid' \in [Accounts -> Gens]
      BY <1>17, <2>2 DEF RotateToken, RequestTypeOK
    <2>. QED BY <1>17, <2>1, <2>3, <2>4, <2>5 DEF RotateToken, RequestTypeOK
  <1>18. ASSUME NEW image \in Image, WriteFile(image) PROVE RequestTypeOK'
    <2>1. changes + 1 \in 0 .. MaxChanges
      BY <1>18, LimitsAssumption DEF WriteFile, RequestTypeOK
    <2>2. clean' \in SUBSET Requests
      BY <1>18 DEF WriteFile, Disturb, RequestTypeOK
    <2>3. \A a \in Accounts : valid[a] \in 1 .. 2 + (changes + 1)
      BY DEF RequestTypeOK
    <2>. QED BY <1>18, <2>1, <2>2, <2>3 DEF WriteFile, RequestTypeOK
  <1>19. ASSUME NEW a \in Accounts, StoreToken(a) PROVE RequestTypeOK'
    <2>1. [disk EXCEPT !.gen[a] = valid[a]] \in Image
      BY DEF RequestTypeOK, Image
    <2>. QED BY <1>18, <1>19, <2>1 DEF StoreToken
  <1>20. ASSUME NEW a \in Accounts \cup {NoAccount}, SwitchActive(a) PROVE RequestTypeOK'
    <2>1. [disk EXCEPT !.active = a] \in Image
      BY DEF RequestTypeOK, Image
    <2>. QED BY <1>18, <1>20, <2>1 DEF SwitchActive
  <1>21. CASE BackgroundReload
    BY <1>21 DEF BackgroundReload, Reload, RequestTypeOK
  <1>22. CASE GetStats \/ Shutdown
    <2>1. {pending[i].of : i \in DOMAIN pending} \subseteq Requests /\ <<>> \in Seq(Entry)
          /\ logged \o pending \in Seq(Entry)
      <3>1. \A i \in DOMAIN pending : pending[i] \in Entry
        BY DEF RequestTypeOK
      <3>2. \A e \in Entry : e.of \in Requests
        BY DEF Entry
      <3>. QED BY <3>1, <3>2 DEF RequestTypeOK
    <2>2. /\ pending' \in Seq(Entry) /\ logged' \in Seq(Entry)
          /\ dropped' \in SUBSET Requests
      BY <1>22, <2>1 DEF GetStats, Flush, Shutdown, RequestTypeOK
    <2>. QED BY <1>22, <2>2 DEF GetStats, Shutdown, RequestTypeOK
  <1>23. CASE Tick
    <2>1. now' \in 0 .. MaxTime
      BY <1>23, LimitsAssumption DEF Tick, RequestTypeOK
    <2>. QED BY <1>23, <2>1 DEF Tick, RequestTypeOK
  <1>24. CASE UNCHANGED proxyVars
    BY <1>24 DEF proxyVars, RequestTypeOK
  <1>. QED BY <1>4, <1>5, <1>6, <1>7, <1>10, <1>11, <1>12, <1>13, <1>14, <1>15, <1>16, <1>17,
              <1>19, <1>20, <1>21, <1>22, <1>23, <1>24 DEF ProxyNext, Handle

\* What the requests do to the limiter is what its own specification allows.
LEMMA LimiterStep ==
    ASSUME RequestTypeOK, [ProxyNext]_proxyVars
    PROVE  [\/ \E ip \in Ips, allowed \in BOOLEAN : Check(ip, allowed) /\ UNCHANGED now
            \/ now' = now + 1 /\ UNCHANGED limiterVars]_<<now, limiterVars>>
  <1>1. ASSUME NEW r \in Requests, Arrive(r)
        PROVE  \E ip \in Ips, allowed \in BOOLEAN : Check(ip, allowed) /\ UNCHANGED now
    BY <1>1, RequestAssumption DEF Arrive
  <1>2. ASSUME NEW r \in Requests,
               \/ Route(r) \/ \E wants, streams \in BOOLEAN : Send(r, wants, streams)
               \/ NoAnswer(r) \/ FirstAnswer(r) \/ RetryOrWait(r) \/ SecondAnswer(r)
               \/ StreamEvent(r) \/ StreamEnds(r) \/ ReassemblyEnds(r)
               \/ ClientLeaves(r) \/ ClientStalls(r)
        PROVE  UNCHANGED <<now, limiterVars>>
    BY <1>2 DEF Route, Send, NoAnswer, FirstAnswer, RetryOrWait, SecondAnswer, StreamEvent,
                StreamEnds, ReassemblyEnds, ClientLeaves, ClientStalls
  <1>3. ASSUME \/ \E a \in Accounts : RotateToken(a) \/ StoreToken(a)
               \/ \E a \in Accounts \cup {NoAccount} : SwitchActive(a)
               \/ BackgroundReload \/ GetStats \/ Shutdown \/ UNCHANGED proxyVars
        PROVE  UNCHANGED <<now, limiterVars>>
    BY <1>3 DEF RotateToken, StoreToken, SwitchActive, WriteFile, BackgroundReload, GetStats,
                Shutdown, proxyVars
  <1>4. CASE Tick
    BY <1>4 DEF Tick
  <1>. QED BY <1>1, <1>2, <1>3, <1>4 DEF ProxyNext, Handle

\* The requests use the limiter as it is meant to be used.
THEOREM RequestsAreLimited == ProxySpec => LimiterSpec
  <1>1. ProxyInit => LimiterInit
    BY DEF ProxyInit
  <1>. QED BY <1>1, RequestTypeInit, RequestTypeStep, LimiterStep, PTL DEF ProxySpec, LimiterSpec

\* Every variable of the proxy keeps its type, and no address gets more requests through
\* than a burst and what the rate has added (handle_proxy and RateLimiter::check), for any
\* number of requests, addresses and accounts.
THEOREM ProxyTypes == ProxySpec => [](ProxyTypeOK /\ NeverOverAdmits)
  <1>1. RequestTypeOK /\ LimiterTypeOK => ProxyTypeOK
    BY DEF RequestTypeOK, ProxyTypeOK, Places
  <1>. QED BY <1>1, RequestTypeInit, RequestTypeStep, RequestsAreLimited, RateIsKept, PTL
           DEF ProxySpec

-----------------------------------------------------------------------------
(* The requests: the answers.                                              *)

StepOf(r) == Handle(r) \/ ClientLeaves(r) \/ ClientStalls(r)

\* A step of one request leaves the others where they are, and the file and the tokens too.
LEMMA StepsAreLocal ==
    ASSUME RequestTypeOK, NEW r \in Requests, StepOf(r)
    PROVE  /\ \A q \in Requests : q # r => pc'[q] = pc[q] /\ req'[q] = req[q]
           /\ UNCHANGED <<upstream, valid, disk, changes, running, now>>
  <1>. DEFINE Local == \E place, h : Goto(r, place, h)
  <1>1. ASSUME Local
        PROVE  \A q \in Requests : q # r => pc'[q] = pc[q] /\ req'[q] = req[q]
    BY <1>1 DEF Goto, RequestTypeOK
  <1>2. ASSUME NEW code, Answer(r, code) \/ PassOn(r, code) PROVE Local
    BY <1>2 DEF Answer, PassOn
  <1>3. CASE Arrive(r) \/ Route(r) \/ \E wants, streams \in BOOLEAN : Send(r, wants, streams)
    <2>1. Local
      BY <1>3 DEF Arrive, Route, Send
    <2>. QED BY <1>1, <1>3, <2>1 DEF Arrive, Route, Send, credentials
  <1>4. CASE FirstAnswer(r)
    <2>1. Local
      BY <1>2, <1>4 DEF FirstAnswer, Success
    <2>. QED BY <1>1, <1>4, <2>1 DEF FirstAnswer, credentials
  <1>5. CASE RetryOrWait(r)
    <2>1. Local
      <3>1. Polls(r) => Local
        BY DEF Polls
      <3>2. \A a : Resends(r, a) => Local
        BY DEF Resends
      <3>. QED BY <1>2, <1>5, <3>1, <3>2, RetryDoes
    <2>2. UNCHANGED <<upstream, valid, disk, changes, running, now>>
      BY <1>5, RetryDoes
    <2>. QED BY <1>1, <2>1, <2>2
  <1>6. CASE NoAnswer(r) \/ SecondAnswer(r) \/ StreamEvent(r)
    <2>1. Local
      BY <1>2, <1>6 DEF NoAnswer, SecondAnswer, StreamEvent
    <2>. QED BY <1>1, <1>6, <2>1 DEF NoAnswer, SecondAnswer, StreamEvent, credentials
  <1>7. CASE StreamEnds(r) \/ ReassemblyEnds(r) \/ ClientLeaves(r) \/ ClientStalls(r)
    <2>1. Local
      BY <1>7 DEF StreamEnds, ReassemblyEnds, ClientLeaves, ClientStalls
    <2>. QED BY <1>1, <1>7, <2>1
             DEF StreamEnds, ReassemblyEnds, ClientLeaves, ClientStalls, credentials
  <1>. QED BY <1>3, <1>4, <1>5, <1>6, <1>7 DEF StepOf, Handle

\* A clean request is one whose file is right, and goes to the upstream that the file's account
\* has.  Its first answer is a 401 only if its token is not the valid one, and what it is sent
\* with then is that.
CleanRequest(r) ==
    /\ pc[r] \notin Ended =>
          /\ disk.active \in Accounts /\ disk.gen[disk.active] = valid[disk.active]
          /\ pc[r] \in {"routed", "sent", "unauthorized", "resent", "stream", "reassemble"}
          /\ pc[r] \in {"routed", "sent", "unauthorized", "resent"} =>
                /\ upstream[req[r].acct] = upstream[disk.active]
                /\ upstream[req[r].sentAs] = upstream[disk.active]
          /\ pc[r] = "unauthorized" => req[r].token # valid[req[r].sentAs]
          /\ pc[r] = "resent" => req[r].token = valid[req[r].sentAs]
    /\ pc[r] = "answered" => req[r].code # 401

CleanInv ==
    /\ RequestTypeOK
    /\ \A r \in Requests : pc[r] \notin Ended => req[r].code = 200
    /\ \A r \in clean : CleanRequest(r)

\* The answer to a request ends it, with its code.
LEMMA EndsWithCode ==
    ASSUME RequestTypeOK, NEW r \in Requests, NEW code \in Codes, Answer(r, code) \/ PassOn(r, code)
    PROVE  /\ pc'[r] = "answered" /\ req'[r].code = code /\ req'[r].acct = req[r].acct
           /\ req'[r].streams = req[r].streams /\ req'[r].again = req[r].again
           /\ req'[r].stalled = req[r].stalled
  <1>1. req[r] \in Held /\ "answered" \in Places
    BY DEF RequestTypeOK, Places, Ended
  <1>2. CASE Answer(r, code)
    <2>1. PICK units \in (IF code = 200 THEN {0, 1} ELSE {0}) :
              Goto(r, "answered", [req[r] EXCEPT !.code = code, !.usage = units])
      BY <1>2 DEF Answer
    <2>. DEFINE h == [req[r] EXCEPT !.code = code, !.usage = units]
    <2>2. h \in Held
      <3>1. units \in 0 .. 1
        OBVIOUS
      <3>. QED BY <1>1, <3>1, HeldNext
    <2>3. /\ h.code = code /\ h.acct = req[r].acct /\ h.streams = req[r].streams
          /\ h.again = req[r].again /\ h.stalled = req[r].stalled
      BY <1>1 DEF Held
    <2>. HIDE DEF h
    <2>4. Goto(r, "answered", h)
      BY <2>1 DEF h
    <2>. QED BY <1>1, <2>2, <2>3, <2>4, GotoMoves DEF Same
  <1>3. CASE PassOn(r, code)
    <2>. DEFINE units == IF code = 200 THEN 1 ELSE 0
                h == [req[r] EXCEPT !.code = code, !.wants = FALSE, !.usage = units]
    <2>1. h \in Held
      <3>1. units \in 0 .. 1
        OBVIOUS
      <3>. HIDE DEF units
      <3>. QED BY <1>1, <3>1, HeldNext
    <2>2. /\ h.code = code /\ h.acct = req[r].acct /\ h.streams = req[r].streams
          /\ h.again = req[r].again /\ h.stalled = req[r].stalled
      BY <1>1 DEF Held
    <2>3. Goto(r, "answered", h)
      BY <1>3 DEF PassOn
    <2>. HIDE DEF h
    <2>. QED BY <1>1, <2>1, <2>2, <2>3, GotoMoves DEF Same
  <1>. QED BY <1>2, <1>3

\* The step of a clean request.
LEMMA CleanStepOf ==
    ASSUME CleanInv, NEW r \in Requests, StepOf(r)
    PROVE  /\ pc'[r] \notin Ended => req'[r].code = 200
           /\ r \in clean' => CleanRequest(r)'
  <1>. DEFINE Fine == /\ pc'[r] \notin Ended => req'[r].code = 200
                      /\ r \in clean' => CleanRequest(r)'
  <1>0. req[r] \in Held
    BY DEF CleanInv, RequestTypeOK
  <1>1. /\ RequestTypeOK /\ req[r] \in Held
        /\ pc[r] \notin Ended => req[r].code = 200
        /\ r \in clean => CleanRequest(r)
    BY DEF CleanInv, RequestTypeOK
  <1>2. UNCHANGED <<upstream, valid, disk>>
    BY <1>1, StepsAreLocal
  <1>3. /\ Ended \subseteq Places
        /\ "read" \in Places /\ "routed" \in Places /\ "unauthorized" \in Places
        /\ "poll" \in Places
        /\ "sent" \in Places /\ "resent" \in Places /\ "stream" \in Places
        /\ "reassemble" \in Places
    BY DEF Places, Ended, Waiting
  <1>4. 200 \in Codes /\ 401 \in Codes /\ 500 \in Codes
    BY DEF Codes
  <1>5. CASE \E place \in {"refused", "failed", "left"} : Goto(r, place, req[r])
    <2>1. pc'[r] \in {"refused", "failed", "left"}
      BY <1>1, <1>3, <1>5, GotoMoves DEF Ended
    <2>. QED BY <2>1 DEF CleanRequest, Ended
  <1>6. CASE Arrive(r)
    <2>1. CASE Goto(r, "read", req[r])
      <3>1. pc'[r] = "read" /\ req'[r] = req[r]
        BY <1>1, <1>3, <2>1, GotoMoves DEF Ended
      <3>2. pc[r] = "new" /\ clean' = clean
        BY <1>6 DEF Arrive
      <3>. QED BY <1>1, <3>1, <3>2 DEF CleanRequest, Ended
    <2>2. CASE Goto(r, "refused", req[r])
      BY <1>5, <2>2
    <2>. QED BY <1>6, <2>1, <2>2 DEF Arrive
  <1>7. CASE Route(r)
    <2>1. ASSUME NEW a \in ActiveIn(cache),
                 Goto(r, "routed", [req[r] EXCEPT !.acct = a, !.sentAs = a, !.token = cache.gen[a]]),
                 clean' = IF /\ disk.active # NoAccount /\ upstream[disk.active] = upstream[a]
                             /\ disk.gen[disk.active] = valid[disk.active]
                          THEN clean \cup {r} ELSE clean
          PROVE  Fine
      <3>. DEFINE h == [req[r] EXCEPT !.acct = a, !.sentAs = a, !.token = cache.gen[a]]
      <3>1. h \in Held
        <4>1. a \in Accounts /\ cache.gen[a] \in Gens
          BY <1>1, ActiveTypes DEF RequestTypeOK
        <4>. QED BY <1>0, <4>1, HeldNext
      <3>2. h.code = req[r].code /\ h.acct = a /\ h.sentAs = a
        BY <1>1 DEF Held
      <3>3. Goto(r, "routed", h)
        BY <2>1
      <3>. HIDE DEF h
      <3>4. pc'[r] = "routed" /\ req'[r] = h
        BY <1>1, <1>3, <3>1, <3>3, GotoMoves DEF Ended
      <3>5. pc[r] = "read"
        BY <1>7 DEF Route
      <3>6. r \notin clean
        BY <1>1, <3>5 DEF CleanRequest, Ended
      <3>7. r \in clean' => /\ disk.active \in Accounts /\ upstream[a] = upstream[disk.active]
                             /\ disk.gen[disk.active] = valid[disk.active]
        BY <1>1, <2>1, <3>6 DEF RequestTypeOK, Image
      <3>. QED BY <1>1, <1>2, <3>2, <3>4, <3>5, <3>7 DEF CleanRequest, Ended
    <2>. QED BY <1>5, <1>7, <2>1 DEF Route
  <1>8. CASE \E wants, streams \in BOOLEAN : Send(r, wants, streams)
    <2>1. PICK wants \in BOOLEAN, streams \in BOOLEAN : Send(r, wants, streams)
      BY <1>8
    <2>. DEFINE h == [req[r] EXCEPT !.since = now, !.wants = wants, !.streams = streams]
    <2>2. CASE Goto(r, "sent", h)
      <3>1. h \in Held /\ h.code = req[r].code /\ h.acct = req[r].acct /\ h.sentAs = req[r].sentAs
        <4>1. now \in 0 .. MaxTime
          BY <1>1 DEF RequestTypeOK
        <4>2. h \in Held
          BY <1>0, <4>1, HeldNext
        <4>3. h.code = req[r].code /\ h.acct = req[r].acct /\ h.sentAs = req[r].sentAs
          BY <1>1 DEF Held
        <4>. QED BY <4>2, <4>3
      <3>. HIDE DEF h
      <3>2. pc'[r] = "sent" /\ req'[r] = h
        BY <1>1, <1>3, <2>2, <3>1, GotoMoves DEF Ended
      <3>3. pc[r] = "routed" /\ clean' = clean
        BY <2>1 DEF Send
      <3>. QED BY <1>1, <1>2, <3>1, <3>2, <3>3 DEF CleanRequest, Ended
    <2>. QED BY <1>5, <2>1, <2>2 DEF Send
  <1>9. CASE NoAnswer(r) \/ ClientLeaves(r)
    BY <1>5, <1>9 DEF NoAnswer, ClientLeaves
  <1>10. ASSUME NEW code \in Codes, Answer(r, code) \/ PassOn(r, code),
                r \in clean' => code # 401
         PROVE  Fine
    <2>1. pc'[r] = "answered" /\ req'[r].code = code
      BY <1>1, <1>10, EndsWithCode
    <2>. QED BY <1>10, <2>1 DEF CleanRequest, Ended
  <1>11. ASSUME NEW place \in {"stream", "reassemble"}, Goto(r, place, req[r]),
                pc[r] \notin Ended, clean' = clean
         PROVE  Fine
    <2>1. pc'[r] = place /\ req'[r] = req[r]
      BY <1>1, <1>3, <1>11, GotoMoves DEF Ended
    <2>. QED BY <1>1, <1>2, <1>11, <2>1 DEF CleanRequest, Ended
  <1>12. CASE FirstAnswer(r)
    <2>1. pc[r] = "sent" /\ clean' = clean
      BY <1>12 DEF FirstAnswer
    <2>2. PICK code \in Code(req[r].acct, req[r].sentAs, req[r].token) :
             \/ code = 200 /\ Success(r)
             \/ code = 401 /\ Goto(r, "unauthorized", req[r])
             \/ code = 500 /\ (Answer(r, 500) \/ PassOn(r, 500))
      BY <1>12 DEF FirstAnswer
    <2>3. CASE code = 200 /\ Success(r)
      <3>1. \/ Answer(r, 200)
            \/ \E place \in {"stream", "reassemble"} : Goto(r, place, req[r])
        BY <2>3 DEF Success
      <3>. QED BY <1>4, <1>10, <1>11, <2>1, <3>1 DEF Ended
    <2>4. CASE code = 401 /\ Goto(r, "unauthorized", req[r])
      <3>1. pc'[r] = "unauthorized" /\ req'[r] = req[r]
        BY <1>1, <1>3, <2>4, GotoMoves DEF Ended
      <3>2. r \in clean => valid[req[r].sentAs] # req[r].token
        BY <1>1, <2>1, <2>2, <2>4 DEF Code, CleanRequest, Ended
      <3>. QED BY <1>1, <1>2, <2>1, <3>1, <3>2 DEF CleanRequest, Ended
    <2>5. CASE code = 500 /\ (Answer(r, 500) \/ PassOn(r, 500))
      BY <1>4, <1>10, <2>5
    <2>. QED BY <2>2, <2>3, <2>4, <2>5
  <1>13. CASE RetryOrWait(r)
    <2>1. PICK readable \in BOOLEAN : /\ Reload(readable)
                                      /\ clean' = IF readable THEN clean ELSE clean \ {r}
      BY <1>13, RetryDoes
    <2>2. pc[r] \in {"unauthorized", "poll"}
      BY <1>13, RetryDoes
    <2>3. ASSUME r \in clean'
          PROVE  /\ cache' = disk /\ ActiveIn(cache') = {disk.active} /\ r \in clean
                 /\ req[r].token # valid[req[r].sentAs]
                 /\ disk.gen[disk.active] = valid[disk.active]
                 /\ pc[r] = "unauthorized" /\ upstream[req[r].acct] = upstream[disk.active]
      <3>1. r \in clean /\ cache' = disk
        BY <2>1, <2>3 DEF Reload
      <3>2. /\ disk.active \in Accounts /\ disk.gen[disk.active] = valid[disk.active]
            /\ req[r].token # valid[req[r].sentAs]
            /\ pc[r] = "unauthorized" /\ upstream[req[r].acct] = upstream[disk.active]
        BY <1>1, <2>2, <3>1 DEF CleanRequest, Ended
      <3>3. valid[disk.active] > 0
        BY <1>1, <3>2 DEF RequestTypeOK
      <3>. QED BY <3>1, <3>2, <3>3, RequestAssumption DEF ActiveIn
    <2>4. \/ \E a \in ActiveIn(cache') : Resends(r, a)
          \/ /\ \/ \E a \in ActiveIn(cache') : cache'.gen[a] = req[r].token /\ a = req[r].sentAs
                \/ ActiveIn(cache') = {}
             /\ Answer(r, 401) \/ PassOn(r, 401) \/ Polls(r)
      BY <1>13, RetryDoes
    <2>5. ASSUME NEW a \in ActiveIn(cache'), Resends(r, a)
          PROVE  Fine
      <3>. DEFINE h == [req[r] EXCEPT !.sentAs = a, !.token = cache'.gen[a], !.since = now,
                                         !.again = TRUE]
      <3>1. h \in Held
        <4>1. cache' \in Image /\ now \in 0 .. MaxTime
          BY <1>1, <2>1, ReloadTypes DEF RequestTypeOK
        <4>2. a \in Accounts /\ cache'.gen[a] \in Gens
          BY <4>1, ActiveTypes
        <4>. QED BY <1>0, <4>1, <4>2, HeldNext
      <3>2. /\ h.code = req[r].code /\ h.token = cache'.gen[a] /\ h.sentAs = a
            /\ h.acct = req[r].acct
        BY <1>1 DEF Held
      <3>3. Goto(r, "resent", h)
        BY <2>5 DEF Resends
      <3>. HIDE DEF h
      <3>4. pc'[r] = "resent" /\ req'[r] = h
        BY <1>1, <1>3, <3>1, <3>3, GotoMoves DEF Ended
      <3>5. req'[r].code = 200
        BY <1>1, <2>2, <3>2, <3>4 DEF Ended
      <3>6. ASSUME r \in clean' PROVE CleanRequest(r)'
        <4>1. a = disk.active /\ h.token = valid[a] /\ r \in clean
          BY <2>3, <3>2, <3>6
        <4>2. disk.active \in Accounts
          BY <1>1, <2>2, <4>1 DEF CleanRequest, Ended
        <4>. QED BY <1>2, <2>3, <3>2, <3>4, <3>6, <4>1, <4>2 DEF CleanRequest, Ended
      <3>. QED BY <3>5, <3>6
    <2>6. CASE \/ \E a \in ActiveIn(cache') : cache'.gen[a] = req[r].token /\ a = req[r].sentAs
               \/ ActiveIn(cache') = {}
      <3>1. r \notin clean'
        BY <2>3, <2>6
      <3>2. CASE Answer(r, 401) \/ PassOn(r, 401)
        BY <1>4, <1>10, <3>1, <3>2
      <3>3. CASE Polls(r)
        <4>. DEFINE h == [req[r] EXCEPT !.polls = @ + 1]
        <4>1. h \in Held
          <5>1. req[r].polls + 1 \in 0 .. MaxPolls
            BY <1>1, <3>3, LimitsAssumption DEF Held, Polls
          <5>. QED BY <1>0, <5>1, HeldChanges
        <4>2. h.code = req[r].code
          BY <1>1 DEF Held
        <4>3. Goto(r, "poll", h)
          BY <3>3 DEF Polls
        <4>. HIDE DEF h
        <4>4. pc'[r] = "poll" /\ req'[r] = h
          BY <1>1, <1>3, <4>1, <4>3, GotoMoves DEF Ended
        <4>. QED BY <1>1, <2>2, <3>1, <4>2, <4>4 DEF Ended
      <3>. QED BY <2>4, <2>5, <3>2, <3>3
    <2>. QED BY <2>4, <2>5, <2>6
  <1>14. CASE SecondAnswer(r)
    <2>1. pc[r] = "resent" /\ clean' = clean
      BY <1>14 DEF SecondAnswer
    <2>2. PICK code \in Code(req[r].acct, req[r].sentAs, req[r].token) : Answer(r, code) \/ PassOn(r, code)
      BY <1>14 DEF SecondAnswer
    <2>3. code \in Codes /\ (r \in clean => code # 401)
      BY <1>1, <2>1, <2>2 DEF Code, Codes, CleanRequest, Ended
    <2>. QED BY <1>10, <2>1, <2>2, <2>3
  <1>15. CASE StreamEvent(r) \/ ClientStalls(r)
    <2>1. pc[r] \in {"stream", "reassemble"} /\ clean' = clean
      BY <1>15 DEF StreamEvent, ClientStalls
    <2>2. PICK h \in {[req[r] EXCEPT !.usage = 1], [req[r] EXCEPT !.stalled = TRUE]} :
              Goto(r, pc[r], h)
      BY <1>15 DEF StreamEvent, ClientStalls
    <2>3. h \in Held
      <3>1. 1 \in 0 .. 1
        OBVIOUS
      <3>2. [req[r] EXCEPT !.usage = 1] \in Held
        BY <1>0, <3>1, HeldChanges
      <3>3. [req[r] EXCEPT !.stalled = TRUE] \in Held
        BY <1>0, HeldChanges
      <3>. QED BY <3>2, <3>3
    <2>4. h.code = req[r].code
      BY <1>1 DEF Held
    <2>5. pc'[r] = pc[r] /\ req'[r] = h
      BY <1>1, <1>3, <2>1, <2>2, <2>3, GotoMoves DEF Ended
    <2>. QED BY <1>1, <1>2, <2>1, <2>4, <2>5 DEF CleanRequest, Ended
  <1>16. CASE (StreamEnds(r) \/ ReassemblyEnds(r)) /\ Goto(r, "answered", req[r])
    <2>1. pc[r] \in {"stream", "reassemble"}
      BY <1>16 DEF StreamEnds, ReassemblyEnds
    <2>2. pc'[r] = "answered" /\ req'[r].code = 200
      <3>1. "answered" \in Places /\ req[r].code = 200
        BY <1>1, <2>1 DEF Places, Ended
      <3>. QED BY <1>1, <1>16, <3>1, GotoMoves DEF Same
    <2>. QED BY <2>2 DEF CleanRequest, Ended
  <1>17. CASE StreamEnds(r) \/ ReassemblyEnds(r)
    BY <1>5, <1>16, <1>17 DEF StreamEnds, ReassemblyEnds
  <1>. QED BY <1>6, <1>7, <1>8, <1>9, <1>12, <1>13, <1>14, <1>15, <1>17 DEF StepOf, Handle

\* What is done to the file ends what was clean.
LEMMA CleanStep ==
    ASSUME CleanInv, [ProxyNext]_proxyVars
    PROVE  CleanInv'
  <1>1. RequestTypeOK /\ RequestTypeOK'
    BY RequestTypeStep DEF CleanInv
  <1>2. ASSUME NEW r \in Requests, StepOf(r) PROVE CleanInv'
    <2>1. /\ \A q \in Requests : q # r => pc'[q] = pc[q] /\ req'[q] = req[q]
          /\ UNCHANGED <<upstream, valid, disk>>
      BY <1>1, <1>2, StepsAreLocal
    <2>2. /\ pc'[r] \notin Ended => req'[r].code = 200
          /\ r \in clean' => CleanRequest(r)'
      BY <1>2, CleanStepOf
    <2>3. clean' \subseteq clean \cup {r}
      BY <1>2 DEF StepOf, Handle, Arrive, Route, Send, NoAnswer, FirstAnswer, RetryOrWait,
                  SecondAnswer, StreamEvent, StreamEnds, ReassemblyEnds, ClientLeaves, ClientStalls
    <2>4. ASSUME NEW q \in Requests, q # r
          PROVE  /\ pc'[q] \notin Ended => req'[q].code = 200
                 /\ q \in clean' => CleanRequest(q)'
      BY <2>1, <2>3, <2>4 DEF CleanInv, CleanRequest
    <2>5. clean' \subseteq Requests
      BY <1>1 DEF RequestTypeOK
    <2>. QED BY <1>1, <2>2, <2>4, <2>5 DEF CleanInv
  <1>3. ASSUME Disturb, UNCHANGED <<pc, req>> PROVE CleanInv'
    <2>1. \A r \in clean' : r \in clean /\ pc[r] \in Ended
      BY <1>3 DEF Disturb
    <2>. QED BY <1>1, <1>3, <2>1 DEF CleanInv, CleanRequest
  <1>4. CASE \/ \E a \in Accounts : RotateToken(a) \/ StoreToken(a)
             \/ \E a \in Accounts \cup {NoAccount} : SwitchActive(a)
    BY <1>3, <1>4 DEF RotateToken, StoreToken, SwitchActive, WriteFile
  <1>5. CASE BackgroundReload \/ GetStats \/ Shutdown \/ Tick \/ UNCHANGED proxyVars
    <2>1. UNCHANGED <<pc, req, upstream, valid, disk, clean>>
      BY <1>5 DEF BackgroundReload, GetStats, Shutdown, Tick, proxyVars, credentials
    <2>. QED BY <1>1, <2>1 DEF CleanInv, CleanRequest
  <1>. QED BY <1>2, <1>4, <1>5 DEF ProxyNext, StepOf

\* A request during which nothing was amiss with the credentials file is not answered by
\* 401, however old the token of the proxy's copy was when it came (the 401 handling of
\* handle_proxy), if the copy's account has the upstream of the file's: for any number of
\* requests, accounts and upstreams and however often the file is written.
THEOREM RetryIsEnough == ProxySpec => []NoNeedless401
  <1>1. ProxyInit => CleanInv
    <2>. SUFFICES ASSUME ProxyInit PROVE CleanInv
      OBVIOUS
    <2>. QED BY RequestTypeInit DEF ProxyInit, NewRequest, CleanInv
  <1>2. CleanInv => NoNeedless401
    BY DEF CleanInv, CleanRequest, NoNeedless401
  <1>. QED BY <1>1, <1>2, CleanStep, PTL DEF ProxySpec

-----------------------------------------------------------------------------
(* The requests: what is counted.                                          *)

Of(s) == {s[i].of : i \in DOMAIN s}
Once(s) == \A i, j \in DOMAIN s : s[i].of = s[j].of => i = j
Recorded == Of(pending) \cup Of(logged) \cup dropped

\* Where a request is that has been counted.
CountedPlaces == {"stream", "answered", "left"}

\* No request is counted twice, and none before its answer.  That of a stream is counted
\* when it begins, that of any other success with it, but for the second one of a stream.
CountInv ==
    /\ RequestTypeOK
    /\ Once(pending) /\ Once(logged) /\ Of(pending) \cap Of(logged) = {}
    /\ \A r \in Requests :
          /\ r \in Of(pending) \cup Of(logged) => pc[r] \in CountedPlaces
          /\ pc[r] = "stream" => r \in Recorded
          /\ pc[r] = "resent" => req[r].again
          /\ pc[r] = "answered" /\ req[r].code = 200
                => r \in Recorded \/ (req[r].streams /\ req[r].again)

\* A sequence with one more, and two of them.
LEMMA OnceMore ==
    ASSUME NEW s \in Seq(Entry), NEW e \in Entry, Once(s), e.of \notin Of(s)
    PROVE  /\ Append(s, e) \in Seq(Entry)
           /\ Once(Append(s, e)) /\ Of(Append(s, e)) = Of(s) \cup {e.of}
  <1>. DEFINE t == Append(s, e)
  <1>1. /\ t \in Seq(Entry) /\ Len(t) = Len(s) + 1 /\ t[Len(s) + 1] = e
        /\ \A i \in 1 .. Len(s) : t[i] = s[i]
        /\ DOMAIN t = 1 .. Len(s) + 1 /\ DOMAIN s = 1 .. Len(s) /\ Len(s) \in Nat
    OBVIOUS
  <1>2. \A i \in DOMAIN t : i \in DOMAIN s \/ i = Len(s) + 1
    BY <1>1
  <1>. HIDE DEF t
  <1>3. Once(t)
    BY <1>1, <1>2 DEF Once, Of
  <1>4. Of(t) = Of(s) \cup {e.of}
    <2>1. Of(t) \subseteq Of(s) \cup {e.of}
      BY <1>1, <1>2 DEF Of
    <2>2. Of(s) \subseteq Of(t)
      <3>1. \A i \in DOMAIN s : i \in DOMAIN t /\ t[i] = s[i]
        BY <1>1
      <3>. QED BY <3>1 DEF Of
    <2>3. e.of \in Of(t)
      <3>1. Len(s) + 1 \in DOMAIN t
        BY <1>1
      <3>. QED BY <1>1, <3>1 DEF Of
    <2>. QED BY <2>1, <2>2, <2>3
  <1>. QED BY <1>1, <1>3, <1>4 DEF t

\* What is once in one of two lists and not in the other is once in both together.
LEMMA OnceBoth ==
    ASSUME NEW s \in Seq(Entry), NEW t \in Seq(Entry), Once(s), Once(t),
           Of(s) \cap Of(t) = {}
    PROVE  Once(s \o t) /\ Of(s \o t) = Of(s) \cup Of(t)
  <1>. DEFINE u == s \o t
  <1>1. /\ Len(s) \in Nat /\ Len(t) \in Nat
        /\ DOMAIN s = 1 .. Len(s) /\ DOMAIN t = 1 .. Len(t) /\ DOMAIN u = 1 .. Len(s) + Len(t)
        /\ \A i \in 1 .. Len(s) : u[i] = s[i]
        /\ \A i \in 1 .. Len(t) : u[Len(s) + i] = t[i]
    OBVIOUS
  <1>. HIDE DEF u
  <1>2. \A i \in DOMAIN u : \/ i \in DOMAIN s /\ u[i] = s[i]
                            \/ i - Len(s) \in DOMAIN t /\ u[i] = t[i - Len(s)]
    <2>1. \A i \in DOMAIN u : i \in DOMAIN s \/ i - Len(s) \in 1 .. Len(t)
      BY <1>1
    <2>2. \A i \in DOMAIN u : Len(s) + (i - Len(s)) = i
      BY <1>1
    <2>. QED BY <1>1, <2>1, <2>2
  <1>3. Once(u)
    <2>. SUFFICES ASSUME NEW i \in DOMAIN u, NEW j \in DOMAIN u, u[i].of = u[j].of PROVE i = j
      BY DEF Once
    <2>1. ~ (i \in DOMAIN s /\ u[i] = s[i] /\ j - Len(s) \in DOMAIN t /\ u[j] = t[j - Len(s)])
      BY DEF Of
    <2>2. ~ (j \in DOMAIN s /\ u[j] = s[j] /\ i - Len(s) \in DOMAIN t /\ u[i] = t[i - Len(s)])
      BY DEF Of
    <2>3. CASE i \in DOMAIN s /\ u[i] = s[i] /\ j \in DOMAIN s /\ u[j] = s[j]
      BY <2>3 DEF Once
    <2>4. CASE /\ i - Len(s) \in DOMAIN t /\ u[i] = t[i - Len(s)]
               /\ j - Len(s) \in DOMAIN t /\ u[j] = t[j - Len(s)]
      <3>1. i - Len(s) = j - Len(s)
        BY <2>4 DEF Once
      <3>. QED BY <1>1, <3>1
    <2>. QED BY <1>2, <2>1, <2>2, <2>3, <2>4
  <1>4. Of(u) = Of(s) \cup Of(t)
    <2>1. Of(u) \subseteq Of(s) \cup Of(t)
      BY <1>2 DEF Of
    <2>2. Of(s) \subseteq Of(u)
      <3>1. \A i \in DOMAIN s : i \in DOMAIN u
        BY <1>1
      <3>. QED BY <1>1, <3>1 DEF Of
    <2>3. Of(t) \subseteq Of(u)
      <3>1. \A i \in DOMAIN t : Len(s) + i \in DOMAIN u
        BY <1>1
      <3>. QED BY <1>1, <3>1 DEF Of
    <2>. QED BY <2>1, <2>2, <2>3
  <1>. QED BY <1>3, <1>4 DEF u

\* What is flushed is written or dropped, all of it.
LEMMA FlushKeeps ==
    ASSUME NEW entries \in Seq(Entry), logged \in Seq(Entry), Once(entries), Once(logged),
           Of(entries) \cap Of(logged) = {}, NEW ok \in BOOLEAN, Flush(entries, ok)
    PROVE  /\ Once(pending') /\ Once(logged') /\ Of(pending') \cap Of(logged') = {}
           /\ Of(pending') \cup Of(logged') \subseteq Of(entries) \cup Of(logged)
           /\ Of(entries) \cup Of(logged) \cup dropped = Recorded'
  <1>1. Once(<<>>) /\ Of(<<>>) = {}
    BY DEF Once, Of
  <1>2. pending' = <<>>
    BY DEF Flush
  <1>3. CASE ok
    <2>1. logged' = logged \o entries /\ dropped' = dropped
      BY <1>3 DEF Flush
    <2>2. Once(logged') /\ Of(logged') = Of(logged) \cup Of(entries)
      BY <2>1, OnceBoth
    <2>. QED BY <1>1, <1>2, <2>1, <2>2 DEF Recorded
  <1>4. CASE ~ok
    <2>1. logged' = logged /\ dropped' = dropped \cup Of(entries)
      BY <1>4 DEF Flush, Of
    <2>. QED BY <1>1, <1>2, <2>1 DEF Recorded
  <1>. QED BY <1>3, <1>4

\* An entry is made of it, with some usage.
Records(r) == \E usage \in 0 .. 1 : RecordUsage(r, usage)

\* A request is counted once if it has not been.
LEMMA RecordKeeps ==
    ASSUME CountInv, NEW r \in Requests, Records(r), pc[r] \notin CountedPlaces
    PROVE  /\ Once(pending') /\ Once(logged') /\ Of(pending') \cap Of(logged') = {}
           /\ Of(pending') \cup Of(logged') \subseteq Of(pending) \cup Of(logged) \cup {r}
           /\ Recorded \cup {r} = Recorded'
  <1>0. PICK usage \in 0 .. 1 : RecordUsage(r, usage)
    BY DEF Records
  <1>. DEFINE entry == [of |-> r, usage |-> usage]
              entries == Append(pending, entry)
  <1>1. r \notin Of(pending) \cup Of(logged) /\ pending \in Seq(Entry)
        /\ logged \in Seq(Entry)
    BY DEF CountInv, RequestTypeOK
  <1>2. entries \in Seq(Entry) /\ Once(entries) /\ Of(entries) = Of(pending) \cup {r}
    <2>1. entry \in Entry /\ entry.of = r
      BY DEF Entry
    <2>. HIDE DEF entry
    <2>. QED BY <1>1, <2>1, OnceMore DEF CountInv
  <1>3. Of(entries) \cap Of(logged) = {}
    BY <1>1, <1>2 DEF CountInv
  <1>4. \/ \E ok \in BOOLEAN : Flush(entries, ok)
        \/ pending' = entries /\ UNCHANGED <<logged, dropped>>
    BY <1>0 DEF RecordUsage
  <1>. HIDE DEF entries
  <1>5. CASE \E ok \in BOOLEAN : Flush(entries, ok)
    BY <1>1, <1>2, <1>3, <1>5, FlushKeeps DEF CountInv, Recorded
  <1>6. CASE pending' = entries /\ UNCHANGED <<logged, dropped>>
    BY <1>2, <1>3, <1>6 DEF CountInv, Recorded
  <1>. QED BY <1>4, <1>5, <1>6

\* Where a step of a request leads.
LEMMA GotoLeads ==
    ASSUME RequestTypeOK, NEW r \in Requests, NEW place, NEW h, Goto(r, place, h)
    PROVE  pc'[r] = place /\ (place \notin Ended => req'[r] = h)
  BY DEF Goto, RequestTypeOK, Ended

\* What each step of a request does to the counting.
LEMMA WhatCounts ==
    ASSUME RequestTypeOK, NEW r \in Requests, StepOf(r)
    PROVE  \/ /\ UNCHANGED <<pending, logged, dropped>>
              /\ pc[r] \notin CountedPlaces
              /\ pc'[r] \notin CountedPlaces
              /\ pc'[r] = "resent" => req'[r].again
           \/ /\ UNCHANGED <<pending, logged, dropped>>
              /\ pc'[r] = "left"
           \/ /\ UNCHANGED <<pending, logged, dropped>>
              /\ pc[r] = "stream" /\ pc'[r] \in {"stream", "answered"}
           \/ /\ Records(r)
              /\ pc[r] \notin CountedPlaces /\ pc'[r] \in {"stream", "answered"}
           \/ /\ UNCHANGED <<pending, logged, dropped>>
              /\ pc[r] \notin CountedPlaces /\ pc'[r] = "answered"
              /\ req'[r].code = 200 => pc[r] = "resent" /\ req'[r].streams /\ req'[r].again = req[r].again
  <1>. USE DEF accounting, CountedPlaces
  <1>1. ASSUME NEW code \in Codes, \/ Answer(r, code)
                                   \/ /\ PassOn(r, code)
                                      /\ code = 200 => pc[r] = "resent" /\ req[r].streams,
               pc[r] \notin CountedPlaces
        PROVE  /\ pc'[r] = "answered"
               /\ \/ Records(r)
                  \/ /\ UNCHANGED <<pending, logged, dropped>>
                     /\ req'[r].code = 200
                          => pc[r] = "resent" /\ req'[r].streams /\ req'[r].again = req[r].again
    <2>1. /\ pc'[r] = "answered" /\ req'[r].code = code
          /\ req'[r].streams = req[r].streams /\ req'[r].again = req[r].again
      BY <1>1, EndsWithCode
    <2>2. Answer(r, code) => Records(r)
      BY DEF Answer, Records
    <2>. QED BY <1>1, <2>1, <2>2 DEF PassOn
  <1>2. CASE Arrive(r) \/ Route(r) \/ (\E wants, streams \in BOOLEAN : Send(r, wants, streams))
             \/ NoAnswer(r)
    <2>1. /\ UNCHANGED <<pending, logged, dropped>>
          /\ pc[r] \in {"new", "read", "routed", "sent", "resent"}
          /\ \E place \in {"read", "refused", "failed", "routed", "sent"} : \E h : Goto(r, place, h)
      BY <1>2 DEF Arrive, Route, Send, NoAnswer
    <2>2. pc'[r] \in {"read", "refused", "failed", "routed", "sent"}
      BY <2>1, GotoLeads
    <2>. QED BY <2>1, <2>2
  <1>3. CASE FirstAnswer(r)
    <2>1. pc[r] = "sent"
      BY <1>3 DEF FirstAnswer
    <2>2. \/ Answer(r, 200) \/ Answer(r, 500) \/ PassOn(r, 500)
          \/ Goto(r, "stream", req[r]) /\ Records(r)
          \/ Goto(r, "reassemble", req[r]) /\ UNCHANGED accounting
          \/ Goto(r, "unauthorized", req[r]) /\ UNCHANGED accounting
      <3>1. PICK code \in Code(req[r].acct, req[r].sentAs, req[r].token) :
               \/ code = 200 /\ Success(r)
               \/ code = 401 /\ Goto(r, "unauthorized", req[r]) /\ UNCHANGED accounting
               \/ code = 500 /\ (Answer(r, 500) \/ PassOn(r, 500))
        BY <1>3 DEF FirstAnswer
      <3>2. Success(r) => \/ Answer(r, 200)
                          \/ Goto(r, "stream", req[r]) /\ Records(r)
                          \/ Goto(r, "reassemble", req[r]) /\ UNCHANGED accounting
        BY DEF Success, Records
      <3>. QED BY <3>1, <3>2
    <2>3. CASE Answer(r, 200) \/ Answer(r, 500) \/ PassOn(r, 500)
      <3>1. 200 \in Codes /\ 500 \in Codes /\ 500 # 200
        BY DEF Codes
      <3>. QED BY <1>1, <2>1, <2>3, <3>1
    <2>4. CASE Goto(r, "stream", req[r]) /\ Records(r)
      <3>1. pc'[r] = "stream"
        BY <2>4, GotoLeads
      <3>. QED BY <2>1, <2>4, <3>1
    <2>5. CASE \/ Goto(r, "reassemble", req[r]) /\ UNCHANGED accounting
               \/ Goto(r, "unauthorized", req[r]) /\ UNCHANGED accounting
      <3>1. pc'[r] \in {"reassemble", "unauthorized"}
        BY <2>5, GotoLeads
      <3>. QED BY <2>1, <2>5, <3>1
    <2>. QED BY <2>2, <2>3, <2>4, <2>5
  <1>4. CASE RetryOrWait(r)
    <2>1. pc[r] \in {"unauthorized", "poll"}
      BY <1>4, RetryDoes
    <2>2. \/ Answer(r, 401) \/ PassOn(r, 401) \/ Polls(r)
          \/ \E a \in ActiveIn(cache') : Resends(r, a)
      BY <1>4, RetryDoes
    <2>3. CASE Answer(r, 401) \/ PassOn(r, 401)
      <3>1. 401 \in Codes
        BY DEF Codes
      <3>. QED BY <1>1, <2>1, <2>3, <3>1
    <2>4. CASE Polls(r)
      <3>1. pc'[r] = "poll" /\ UNCHANGED <<pending, logged, dropped>>
        BY <2>4, GotoLeads DEF Polls
      <3>. QED BY <2>1, <3>1
    <2>5. ASSUME NEW a \in ActiveIn(cache'), Resends(r, a)
          PROVE  UNCHANGED <<pending, logged, dropped>> /\ pc'[r] = "resent" /\ req'[r].again
      <3>1. /\ pc'[r] = "resent"
            /\ req'[r] = [req[r] EXCEPT !.sentAs = a, !.token = cache'.gen[a],
                                        !.since = now, !.again = TRUE]
            /\ UNCHANGED <<pending, logged, dropped>>
        BY <2>5, GotoLeads DEF Ended, Resends
      <3>2. req[r] \in Held
        BY DEF RequestTypeOK
      <3>3. req'[r].again
        <4>. DEFINE h == [[[req[r] EXCEPT !.sentAs = a] EXCEPT !.token = cache'.gen[a]]
                             EXCEPT !.since = now]
        <4>1. "again" \in DOMAIN h
          BY <3>2 DEF Held
        <4>2. req'[r] = [h EXCEPT !.again = TRUE]
          BY <3>1
        <4>. HIDE DEF h
        <4>. QED BY <4>1, <4>2
      <3>. QED BY <3>1, <3>3
    <2>6. CASE \E a \in ActiveIn(cache') : Resends(r, a)
      BY <2>1, <2>5, <2>6
    <2>. QED BY <2>2, <2>3, <2>4, <2>6
  <1>5. CASE SecondAnswer(r)
    <2>1. pc[r] = "resent"
      BY <1>5 DEF SecondAnswer
    <2>2. PICK code \in Code(req[r].acct, req[r].sentAs, req[r].token) :
              IF req[r].streams THEN PassOn(r, code) ELSE Answer(r, code)
      BY <1>5 DEF SecondAnswer
    <2>3. code \in Codes
      BY DEF Code, Codes
    <2>. QED BY <1>1, <2>1, <2>2, <2>3
  <1>6. CASE StreamEvent(r) \/ StreamEnds(r) \/ ClientStalls(r)
    <2>1. /\ UNCHANGED <<pending, logged, dropped>>
          /\ \/ pc[r] = "reassemble" /\ (\E h : Goto(r, "reassemble", h))
             \/ pc[r] = "stream" /\ (\E place \in {"stream", "answered"} : \E h : Goto(r, place, h))
      BY <1>6 DEF StreamEvent, StreamEnds, ClientStalls
    <2>2. \/ pc[r] = "reassemble" /\ pc'[r] = "reassemble"
          \/ pc[r] = "stream" /\ pc'[r] \in {"stream", "answered"}
      BY <2>1, GotoLeads
    <2>. QED BY <2>1, <2>2
  <1>7. CASE ReassemblyEnds(r)
    <2>0. req[r].usage \in 0 .. 1
      BY DEF RequestTypeOK, Held
    <2>1. /\ pc[r] = "reassemble"
          /\ \/ Records(r) /\ Goto(r, "answered", req[r])
             \/ UNCHANGED accounting /\ Goto(r, "failed", req[r])
      BY <1>7, <2>0 DEF ReassemblyEnds, Records
    <2>2. \/ Records(r) /\ pc'[r] = "answered"
          \/ UNCHANGED accounting /\ pc'[r] = "failed"
      BY <2>1, GotoLeads
    <2>. QED BY <2>1, <2>2
  <1>8. CASE ClientLeaves(r)
    <2>1. UNCHANGED <<pending, logged, dropped>> /\ Goto(r, "left", req[r])
      BY <1>8 DEF ClientLeaves
    <2>. QED BY <2>1, GotoLeads
  <1>. QED BY <1>2, <1>3, <1>4, <1>5, <1>6, <1>7, <1>8 DEF StepOf, Handle

\* Every step of a request keeps what it is counted by.
LEMMA CountStep ==
    ASSUME CountInv, [ProxyNext]_proxyVars
    PROVE  CountInv'
  <1>1. RequestTypeOK /\ RequestTypeOK'
    BY RequestTypeStep DEF CountInv
  <1>2. ASSUME NEW r \in Requests, StepOf(r) PROVE CountInv'
    <2>1. \A q \in Requests : q # r => pc'[q] = pc[q] /\ req'[q] = req[q]
      BY <1>1, <1>2, StepsAreLocal
    <2>2. CASE /\ UNCHANGED <<pending, logged, dropped>>
               /\ pc[r] \notin CountedPlaces
               /\ pc'[r] \notin CountedPlaces
               /\ pc'[r] = "resent" => req'[r].again
      BY <1>1, <2>1, <2>2 DEF CountInv, Recorded, CountedPlaces
    <2>3. CASE UNCHANGED <<pending, logged, dropped>> /\ pc'[r] = "left"
      BY <1>1, <2>1, <2>3 DEF CountInv, Recorded, CountedPlaces
    <2>4. CASE /\ UNCHANGED <<pending, logged, dropped>>
               /\ pc[r] = "stream" /\ pc'[r] \in {"stream", "answered"}
      BY <1>1, <2>1, <2>4 DEF CountInv, Recorded, CountedPlaces
    <2>5. CASE /\ Records(r)
               /\ pc[r] \notin CountedPlaces /\ pc'[r] \in {"stream", "answered"}
      <3>1. /\ Once(pending') /\ Once(logged') /\ Of(pending') \cap Of(logged') = {}
            /\ Of(pending') \cup Of(logged') \subseteq Of(pending) \cup Of(logged) \cup {r}
            /\ Recorded \cup {r} = Recorded'
        BY <2>5, RecordKeeps
      <3>2. ASSUME NEW q \in Requests, q # r
            PROVE  /\ q \in Of(pending') \cup Of(logged') => pc'[q] \in CountedPlaces
                   /\ pc'[q] = "stream" => q \in Recorded'
                   /\ pc'[q] = "resent" => req'[q].again
                   /\ pc'[q] = "answered" /\ req'[q].code = 200
                        => q \in Recorded' \/ (req'[q].streams /\ req'[q].again)
        BY <2>1, <3>1, <3>2 DEF CountInv
      <3>. QED BY <1>1, <2>5, <3>1, <3>2 DEF CountInv, CountedPlaces
    <2>6. CASE /\ UNCHANGED <<pending, logged, dropped>>
               /\ pc[r] \notin CountedPlaces /\ pc'[r] = "answered"
               /\ req'[r].code = 200
                    => pc[r] = "resent" /\ req'[r].streams /\ req'[r].again = req[r].again
      BY <1>1, <2>1, <2>6 DEF CountInv, Recorded, CountedPlaces
    <2>. QED BY <1>1, <1>2, <2>2, <2>3, <2>4, <2>5, <2>6, WhatCounts
  <1>3. ASSUME UNCHANGED <<pc, req>>, NEW ok \in BOOLEAN, Flush(pending, ok) PROVE CountInv'
    <2>1. /\ Once(pending') /\ Once(logged') /\ Of(pending') \cap Of(logged') = {}
          /\ Of(pending') \cup Of(logged') \subseteq Of(pending) \cup Of(logged)
          /\ Recorded = Recorded'
      BY <1>3, FlushKeeps DEF CountInv, RequestTypeOK, Recorded
    <2>. QED BY <1>1, <1>3, <2>1 DEF CountInv
  <1>4. CASE GetStats
    BY <1>3, <1>4 DEF GetStats
  <1>5. CASE Shutdown
    <2>1. Flush(pending, FALSE) /\ UNCHANGED <<pc, req>>
      BY <1>5 DEF Shutdown, Flush
    <2>. QED BY <1>3, <2>1
  <1>6. CASE \/ \E a \in Accounts : RotateToken(a) \/ StoreToken(a)
             \/ \E a \in Accounts \cup {NoAccount} : SwitchActive(a)
             \/ BackgroundReload \/ Tick \/ UNCHANGED proxyVars
    <2>1. UNCHANGED <<pc, req, pending, logged, dropped>>
      BY <1>6 DEF RotateToken, StoreToken, SwitchActive, WriteFile, BackgroundReload, Tick,
                  proxyVars, accounting
    <2>. QED BY <1>1, <2>1 DEF CountInv, Recorded
  <1>. QED BY <1>2, <1>4, <1>5, <1>6 DEF ProxyNext, StepOf

\* The entries of a request in a sequence of different ones.
LEMMA EntriesOnce ==
    ASSUME NEW s \in Seq(Entry), NEW r, Once(s)
    PROVE  Cardinality({i \in DOMAIN s : s[i].of = r}) = IF r \in Of(s) THEN 1 ELSE 0
  <1>1. CASE r \in Of(s)
    <2>1. PICK i \in DOMAIN s : s[i].of = r
      BY <1>1 DEF Of
    <2>2. {j \in DOMAIN s : s[j].of = r} = {i}
      BY <2>1 DEF Once
    <2>. QED BY <1>1, <2>2, FS_Singleton
  <1>2. CASE r \notin Of(s)
    <2>1. {j \in DOMAIN s : s[j].of = r} = {}
      BY <1>2 DEF Of
    <2>. QED BY <1>2, <2>1, FS_EmptySet
  <1>. QED BY <1>1, <1>2

\* Nothing is counted in the beginning.
LEMMA CountInit == ProxyInit => CountInv
  <1>. SUFFICES ASSUME ProxyInit PROVE CountInv
    OBVIOUS
  <1>1. Once(<<>>) /\ Of(<<>>) = {}
    BY DEF Once, Of
  <1>. QED BY <1>1, RequestTypeInit DEF ProxyInit, CountInv

-----------------------------------------------------------------------------
(* Sums over finite sets.  SumFunction is a fold; what it is follows by induction over the *)
(* subsets of its domain.                                                                  *)

LessThan == OpToRel(<, Nat)

\* A set of numbers has a least one.
LEMMA LeastNat ==
    ASSUME NEW s \in SUBSET Nat, s # {}
    PROVE  \E n \in s : \A m \in s : n <= m
  <1>1. \E x \in s : \A y \in s : <<y, x>> \notin LessThan
    BY NatLessThanWellFounded, WFMin DEF LessThan
  <1>2. PICK x \in s : \A y \in s : <<y, x>> \notin LessThan
    BY <1>1
  <1>3. \A y \in s : ~(y < x)
    BY <1>2 DEF LessThan, OpToRel
  <1>. QED BY <1>3

\* Induction over the subsets of a finite set: P is the set of those of which it holds.
LEMMA SubsetInduction ==
    ASSUME NEW S, IsFiniteSet(S), NEW P, {} \in P,
           \A s \in SUBSET S : s # {} /\ (\A x \in s : s \ {x} \in P) => s \in P
    PROVE  SUBSET S \subseteq P
  <1>. DEFINE Bad == {s \in SUBSET S : s \notin P}
              Sizes == {Cardinality(s) : s \in Bad}
  <1>1. SUFFICES ASSUME Bad # {} PROVE FALSE
    OBVIOUS
  <1>2. \A s \in SUBSET S : IsFiniteSet(s) /\ Cardinality(s) \in Nat
    BY FS_Subset, FS_CardinalityType
  <1>3. \E n \in Sizes : \A m \in Sizes : n <= m
    <2>1. Sizes \in SUBSET Nat /\ Sizes # {}
      BY <1>1, <1>2
    <2>. HIDE DEF Sizes
    <2>. QED BY <2>1, LeastNat
  <1>4. PICK s \in Bad : \A t \in Bad : Cardinality(s) <= Cardinality(t)
    BY <1>3
  <1>5. s # {}
    OBVIOUS
  <1>6. ASSUME NEW x \in s PROVE s \ {x} \in P
    <2>1. Cardinality(s \ {x}) = Cardinality(s) - 1
      BY <1>2, FS_RemoveElement
    <2>2. Cardinality(s) \in Nat /\ s \ {x} \in SUBSET S
      BY <1>2
    <2>3. s \ {x} \notin Bad
      BY <1>4, <2>1, <2>2
    <2>. QED BY <2>2, <2>3
  <1>. QED BY <1>5, <1>6

\* What the fold of SumFunction is on each subset of a domain.
Folds(f, S, it) ==
    it = [s \in SUBSET S |->
             IF s = {} THEN 0
             ELSE f[CHOOSE x \in s : TRUE] + it[s \ {CHOOSE x \in s : TRUE}]]

FoldOf(f, S) == CHOOSE it : Folds(f, S, it)

\* A sum is such a fold.
LEMMA SumIsFold ==
    ASSUME NEW f
    PROVE  SumFunction(f) = FoldOf(f, DOMAIN f)[DOMAIN f]
  BY DEF SumFunction, SumFunctionOnSet, FoldFunctionOnSet, MapThenFoldSet, FoldOf, Folds

\* Induction over numbers: P is the set of those of which it holds.
LEMMA NumberInduction ==
    ASSUME NEW P, 0 \in P, \A n \in Nat : n \in P => n + 1 \in P
    PROVE  Nat \subseteq P
  <1>1. SUFFICES ASSUME Nat \ P # {} PROVE FALSE
    OBVIOUS
  <1>2. PICK n \in Nat \ P : \A m \in Nat \ P : n <= m
    BY <1>1, LeastNat
  <1>3. n # 0 /\ n - 1 \in Nat /\ n - 1 \notin Nat \ P
    BY <1>2
  <1>. QED BY <1>2, <1>3

\* There is such a fold of any function on a finite set.
LEMMA FoldExists ==
    ASSUME NEW f, NEW S, IsFiniteSet(S)
    PROVE  Folds(f, S, FoldOf(f, S))
  <1>. DEFINE Rest(s) == s \ {CHOOSE x \in s : TRUE}
              Upto(n) == {s \in SUBSET S : Cardinality(s) <= n}
              Next(s, g) == IF s = {} THEN 0 ELSE f[CHOOSE x \in s : TRUE] + g[Rest(s)]
              Level(n, g) == g = [s \in Upto(n) |-> Next(s, g)]
              P == {n \in Nat : \E g : Level(n, g)}
  <1>1. \A s \in SUBSET S : IsFiniteSet(s) /\ Cardinality(s) \in Nat
    BY FS_Subset, FS_CardinalityType
  <1>2. ASSUME NEW n \in Nat, NEW s \in Upto(n + 1), s # {}
        PROVE  Rest(s) \in Upto(n)
    <2>1. (CHOOSE x \in s : TRUE) \in s
      BY <1>2
    <2>2. Cardinality(Rest(s)) = Cardinality(s) - 1
      BY <1>1, <2>1, FS_RemoveElement
    <2>. QED BY <1>1, <2>2
  <1>3. 0 \in P
    <2>. DEFINE g == [s \in Upto(0) |-> 0]
    <2>1. \A s \in Upto(0) : s = {}
      BY <1>1, FS_EmptySet
    <2>2. g = [s \in Upto(0) |-> Next(s, g)]
      BY <2>1
    <2>. QED BY <2>2
  <1>4. ASSUME NEW n \in Nat, n \in P
        PROVE  n + 1 \in P
    <2>1. PICK g : Level(n, g)
      BY <1>4
    <2>. DEFINE h == [s \in Upto(n + 1) |-> Next(s, g)]
    <2>2. \A s \in Upto(n) : s \in Upto(n + 1)
      BY <1>1
    <2>3. ASSUME NEW s \in Upto(n) PROVE h[s] = g[s]
      <3>1. g[s] = Next(s, g)
        BY <2>1
      <3>2. h[s] = Next(s, g)
        BY <2>2
      <3>. QED BY <3>1, <3>2
    <2>4. ASSUME NEW s \in Upto(n + 1) PROVE Next(s, g) = Next(s, h)
      <3>1. CASE s = {}
        BY <3>1
      <3>2. CASE s # {}
        <4>1. h[Rest(s)] = g[Rest(s)]
          BY <3>2, <1>2, <2>3
        <4>. HIDE DEF h
        <4>. QED BY <3>2, <4>1
      <3>. QED BY <3>1, <3>2
    <2>5. h = [s \in Upto(n + 1) |-> Next(s, h)]
      <3>. HIDE DEF Next
      <3>. QED BY <2>4
    <2>. HIDE DEF h
    <2>6. Level(n + 1, h)
      BY <2>5
    <2>. HIDE DEF Level
    <2>. QED BY <2>6
  <1>5. PICK g : Level(Cardinality(S), g)
    <2>. HIDE DEF P
    <2>1. Cardinality(S) \in P
      BY <1>1, <1>3, <1>4, NumberInduction
    <2>. QED BY <2>1 DEF P
  <1>6. Upto(Cardinality(S)) = SUBSET S
    BY <1>1, FS_Subset
  <1>7. Folds(f, S, g)
    BY <1>5, <1>6 DEF Folds
  <1>. QED BY <1>7 DEF FoldOf

\* Sums of numbers are numbers, and the difference of two that differ at one place is
\* the difference there.
LEMMA SumAtOnePlace ==
    ASSUME NEW S, IsFiniteSet(S), NEW f \in [S -> Nat], NEW g \in [S -> Nat], NEW b \in S,
           \A x \in S \ {b} : g[x] = f[x]
    PROVE  /\ SumFunction(f) \in Nat /\ SumFunction(g) \in Nat
           /\ SumFunction(g) + f[b] = SumFunction(f) + g[b]
  <1>. DEFINE F == FoldOf(f, S)
              G == FoldOf(g, S)
              Has(s) == IF b \in s THEN 1 ELSE 0
              P == {s \in SUBSET S : /\ F[s] \in Nat /\ G[s] \in Nat
                                     /\ G[s] + Has(s) * f[b] = F[s] + Has(s) * g[b]}
  <1>1. Folds(f, S, F) /\ Folds(g, S, G)
    BY FoldExists
  <1>. HIDE DEF F, G
  <1>2. {} \in P
    BY <1>1 DEF Folds
  <1>3. ASSUME NEW s \in SUBSET S, s # {}, \A x \in s : s \ {x} \in P
        PROVE  s \in P
    <2>. DEFINE x == CHOOSE y \in s : TRUE
    <2>1. x \in s
      BY <1>3
    <2>2. F[s] = f[x] + F[s \ {x}] /\ G[s] = g[x] + G[s \ {x}]
      BY <1>1, <1>3 DEF Folds
    <2>. HIDE DEF x
    <2>3. s \ {x} \in P
      BY <1>3, <2>1
    <2>4. f[x] \in Nat /\ g[x] \in Nat /\ f[b] \in Nat /\ g[b] \in Nat
      BY <2>1
    <2>5. CASE x = b
      BY <2>1, <2>2, <2>3, <2>4, <2>5
    <2>6. CASE x # b
      <3>1. f[x] = g[x] /\ Has(s) = Has(s \ {x})
        BY <2>1, <2>6
      <3>2. CASE Has(s) = 1
        BY <2>2, <2>3, <2>4, <3>1, <3>2
      <3>3. CASE Has(s) = 0
        BY <2>2, <2>3, <2>4, <3>1, <3>3
      <3>. QED BY <3>2, <3>3
    <2>. QED BY <2>5, <2>6
  <1>4. S \in P
    <2>. HIDE DEF P
    <2>. QED BY <1>2, <1>3, SubsetInduction
  <1>5. SumFunction(f) = F[S] /\ SumFunction(g) = G[S]
    BY SumIsFold DEF F, G
  <1>. QED BY <1>4, <1>5

\* The sum of nothing but zeros is zero.
LEMMA SumOfZeros ==
    ASSUME NEW S, IsFiniteSet(S), NEW f \in [S -> {0}]
    PROVE  SumFunction(f) = 0
  <1>. DEFINE F == FoldOf(f, S)
              P == {s \in SUBSET S : F[s] = 0}
  <1>1. Folds(f, S, F)
    BY FoldExists
  <1>. HIDE DEF F
  <1>2. {} \in P
    BY <1>1 DEF Folds
  <1>3. ASSUME NEW s \in SUBSET S, s # {}, \A x \in s : s \ {x} \in P
        PROVE  s \in P
    <2>. DEFINE x == CHOOSE y \in s : TRUE
    <2>1. x \in s
      BY <1>3
    <2>2. F[s] = f[x] + F[s \ {x}]
      BY <1>1, <1>3 DEF Folds
    <2>. HIDE DEF x
    <2>3. F[s \ {x}] = 0 /\ f[x] = 0
      BY <1>3, <2>1
    <2>. QED BY <2>2, <2>3
  <1>4. S \in P
    <2>. HIDE DEF P
    <2>. QED BY <1>2, <1>3, SubsetInduction
  <1>. QED BY <1>4, SumIsFold DEF F

-----------------------------------------------------------------------------
(* The requests: the sessions.                                             *)

\* What is owed to an account for the answers to its requests, all of them or those that were
\* read.
Answers(a, which) ==
    [r \in Requests |->
        IF pc[r] = "answered" /\ req[r].acct = a /\ (which = "all" \/ ~req[r].stalled)
        THEN Owed(req[r]) ELSE 0]
Total(a, which) == SumFunction(Answers(a, which))

\* The answer is passed on event by event.
Live(h) == h.streams /\ h.wants

\* What a request has on its way: an account, no usage before its answer, and no more time
\* than its timeout, but for a client that does not read; a stream has a session that was
\* there when it began.  Only a request that was sent again knows of it.
Served(r) ==
    /\ pc[r] \in {"routed", "unauthorized", "poll"} \cup Waiting => req[r].acct \in Accounts
    /\ pc[r] \in {"new", "read", "routed", "sent", "unauthorized", "poll", "resent"}
          => req[r].usage = 0
    /\ pc[r] \in {"new", "read", "routed", "sent", "unauthorized", "poll"} => ~req[r].again
    /\ pc[r] = "resent" => req[r].again
    /\ pc[r] = "stream" => ~req[r].again /\ Live(req[r])
    /\ pc[r] = "reassemble" => ~req[r].again /\ ~req[r].wants /\ req[r].streams
    /\ pc[r] \in Waiting
          => req[r].since <= now /\ (req[r].stalled \/ now - req[r].since <= Timeout)
    /\ pc[r] = "stream"
          => \E b \in Buckets : /\ sessions[<<req[r].acct, b>>] # None
                                /\ req[r].since \div Bucket <= b /\ b <= now \div Bucket

SessionInv ==
    /\ RequestTypeOK
    /\ \A r \in Requests : Served(r)
    /\ \A a \in Accounts : Total(a, "read") <= InSessions(a) /\ InSessions(a) <= Total(a, "all")

\* Buckets are as far apart as their times.
LEMMA BucketsApart ==
    ASSUME NEW x \in Nat, NEW y \in Nat, x <= y
    PROVE  /\ x \div Bucket \in Nat /\ y \div Bucket \in Nat
           /\ x \div Bucket <= y \div Bucket
           /\ y - x <= Timeout => y \div Bucket <= (x \div Bucket) + 1
  <1>. DEFINE p == x \div Bucket
              q == y \div Bucket
  <1>1. Bucket \in Nat \ {0} /\ Timeout \in Nat /\ Timeout <= Bucket
    BY LimitsAssumption, TimeoutAssumption
  <1>2. p \in Nat /\ p * Bucket <= x /\ x < p * Bucket + Bucket
    BY <1>1
  <1>3. q \in Nat /\ q * Bucket <= y /\ y < q * Bucket + Bucket
    BY <1>1
  <1>. HIDE DEF p, q
  <1>4. p <= q
    <2>1. SUFFICES ASSUME p >= q + 1 PROVE FALSE
      BY <1>2, <1>3
    <2>2. p * Bucket >= (q + 1) * Bucket
      BY <1>1, <1>2, <1>3, <2>1
    <2>3. (q + 1) * Bucket = q * Bucket + Bucket
      BY <1>1, <1>3
    <2>. QED BY <1>1, <1>2, <1>3, <2>2, <2>3
  <1>5. y - x <= Timeout => q <= p + 1
    <2>1. SUFFICES ASSUME y - x <= Timeout, q >= p + 2 PROVE FALSE
      BY <1>2, <1>3
    <2>2. q * Bucket >= (p + 2) * Bucket
      BY <1>1, <1>2, <1>3, <2>1
    <2>3. (p + 2) * Bucket = p * Bucket + Bucket + Bucket
      BY <1>1, <1>2
    <2>. QED BY <1>1, <1>2, <1>3, <2>1, <2>2, <2>3
  <1>. QED BY <1>2, <1>3, <1>4, <1>5 DEF p, q

\* The bucket of the time is one.
LEMMA BucketTypes ==
    ASSUME RequestTypeOK
    PROVE  CurrentBucket \in Buckets /\ Buckets \subseteq Nat /\ IsFiniteSet(Buckets)
  <1>1. now \in Nat /\ MaxTime \in Nat /\ now <= MaxTime
    BY LimitsAssumption DEF RequestTypeOK
  <1>2. /\ now \div Bucket \in Nat /\ MaxTime \div Bucket \in Nat
        /\ now \div Bucket <= MaxTime \div Bucket
    BY <1>1, BucketsApart
  <1>. QED BY <1>2, FS_Interval DEF CurrentBucket, Buckets

\* A session gets units, and no other does.
LEMMA SessionGains ==
    ASSUME RequestTypeOK, NEW a \in Accounts, NEW b \in Buckets, NEW units \in Nat,
           sessions' = [sessions EXCEPT ![<<a, b>>] = (IF @ = None THEN 0 ELSE @) + units]
    PROVE  /\ InSessions(a)' = InSessions(a) + units
           /\ \A c \in Accounts : /\ InSessions(c) \in Nat /\ InSessions(c)' \in Nat
                                  /\ c # a => InSessions(c)' = InSessions(c)
           /\ sessions'[<<a, b>>] # None
           /\ \A s \in Accounts \X Buckets : sessions[s] # None => sessions'[s] # None
  <1>. DEFINE S(c) == [d \in Buckets |-> IF sessions[<<c, d>>] = None THEN 0 ELSE sessions[<<c, d>>]]
              old == IF sessions[<<a, b>>] = None THEN 0 ELSE sessions[<<a, b>>]
  <1>1. sessions \in [Accounts \X Buckets -> Nat \cup {None}] /\ None \notin Nat
    BY DEF RequestTypeOK, None
  <1>2. <<a, b>> \in Accounts \X Buckets /\ old \in Nat
    BY <1>1
  <1>3. /\ \A s \in Accounts \X Buckets : s # <<a, b>> => sessions'[s] = sessions[s]
        /\ sessions'[<<a, b>>] = old + units
    BY <1>1, <1>2
  <1>4. old + units \in Nat /\ old + units # None
    BY <1>2 DEF None
  <1>5. IsFiniteSet(Buckets)
    BY BucketTypes
  <1>6. ASSUME NEW c \in Accounts PROVE S(c) \in [Buckets -> Nat] /\ S(c)' \in [Buckets -> Nat]
    <2>1. \A d \in Buckets : sessions[<<c, d>>] \in Nat \cup {None}
      BY <1>1
    <2>2. \A d \in Buckets : sessions'[<<c, d>>] \in Nat \cup {None}
      BY <1>1, <1>3, <1>4
    <2>. QED BY <2>1, <2>2
  <1>7. InSessions(a)' = InSessions(a) + units
    <2>1. S(a)[b] = old /\ S(a)'[b] = old + units
      BY <1>3, <1>4
    <2>2. \A d \in Buckets \ {b} : S(a)'[d] = S(a)[d]
      BY <1>3
    <2>. DEFINE f == S(a)
                g == S(a)'
    <2>3. f \in [Buckets -> Nat] /\ g \in [Buckets -> Nat]
      BY <1>6
    <2>. HIDE DEF f, g, old, S
    <2>4. /\ SumFunction(f) \in Nat /\ SumFunction(g) \in Nat
          /\ SumFunction(g) + f[b] = SumFunction(f) + g[b]
      BY <1>5, <2>2, <2>3, SumAtOnePlace DEF f, g
    <2>5. f[b] = old /\ g[b] = old + units
      BY <2>1 DEF f, g
    <2>6. SumFunction(g) = SumFunction(f) + units
      BY <1>2, <2>4, <2>5
    <2>. QED BY <2>6 DEF f, g, S, InSessions
  <1>8. ASSUME NEW c \in Accounts
        PROVE  /\ InSessions(c) \in Nat /\ InSessions(c)' \in Nat
               /\ c # a => InSessions(c)' = InSessions(c)
    <2>. DEFINE f == S(c)
                g == S(c)'
    <2>1. f \in [Buckets -> Nat] /\ g \in [Buckets -> Nat]
      BY <1>6
    <2>2. c # a => f = g
      BY <1>3
    <2>. HIDE DEF f, g, S
    <2>3. SumFunction(f) \in Nat /\ SumFunction(g) \in Nat
      BY <1>5, <2>1, SumAtOnePlace
    <2>. QED BY <2>2, <2>3 DEF f, g, S, InSessions
  <1>. QED BY <1>1, <1>3, <1>4, <1>7, <1>8

\* What is owed is a number.
LEMMA OwedTypes == ASSUME NEW h \in Held PROVE Owed(h) \in Nat
  <1>1. h.usage \in Nat
    BY DEF Held
  <1>2. WithCache(h.usage) \in Nat
    BY <1>1 DEF WithCache
  <1>. QED BY <1>1, <1>2 DEF Owed

\* Sums are numbers.
LEMMA SumsAreNumbers ==
    ASSUME RequestTypeOK, NEW a \in Accounts
    PROVE  /\ InSessions(a) \in Nat
           /\ \A which \in {"read", "all"} :
                  Answers(a, which) \in [Requests -> Nat] /\ Total(a, which) \in Nat
  <1>1. InSessions(a) \in Nat
    <2>. DEFINE f == [d \in Buckets |-> IF sessions[<<a, d>>] = None THEN 0 ELSE sessions[<<a, d>>]]
    <2>1. f \in [Buckets -> Nat]
      BY DEF RequestTypeOK
    <2>2. IsFiniteSet(Buckets) /\ CurrentBucket \in Buckets
      BY BucketTypes
    <2>. HIDE DEF f
    <2>3. SumFunction(f) \in Nat
      BY <2>1, <2>2, SumAtOnePlace
    <2>. QED BY <2>3 DEF f, InSessions
  <1>2. ASSUME NEW which \in {"read", "all"}
        PROVE  Answers(a, which) \in [Requests -> Nat] /\ Total(a, which) \in Nat
    <2>1. Answers(a, which) \in [Requests -> Nat]
      <3>1. \A r \in Requests : Owed(req[r]) \in Nat
        BY OwedTypes DEF RequestTypeOK
      <3>. QED BY <3>1 DEF Answers
    <2>2. CASE Requests = {}
      <3>1. SumFunction(Answers(a, which)) = 0
        BY <2>1, <2>2, RequestAssumption, SumOfZeros
      <3>. QED BY <2>1, <3>1 DEF Total
    <2>3. CASE Requests # {}
      <3>1. PICK r \in Requests : TRUE
        BY <2>3
      <3>2. SumFunction(Answers(a, which)) \in Nat
        BY <2>1, <3>1, RequestAssumption, SumAtOnePlace
      <3>. QED BY <2>1, <3>2 DEF Total
    <2>. QED BY <2>2, <2>3
  <1>. QED BY <1>1, <1>2

\* The step of one request changes the totals by what it adds itself.
LEMMA TotalGains ==
    ASSUME RequestTypeOK, RequestTypeOK', NEW r \in Requests, pc[r] # "answered",
           \A q \in Requests : q # r => pc'[q] = pc[q] /\ req'[q] = req[q],
           NEW a \in Accounts, NEW which \in {"read", "all"}
    PROVE  /\ Total(a, which)' =
                 Total(a, which) + (IF /\ pc'[r] = "answered" /\ req'[r].acct = a
                                       /\ which = "all" \/ ~req'[r].stalled
                                    THEN Owed(req'[r]) ELSE 0)
           /\ Total(a, which) \in Nat
  <1>. DEFINE f == Answers(a, which)
              g == Answers(a, which)'
  <1>1. f \in [Requests -> Nat] /\ g \in [Requests -> Nat]
    <2>1. \A q \in Requests : Owed(req[q]) \in Nat /\ Owed(req'[q]) \in Nat
      <3>1. req \in [Requests -> Held] /\ req' \in [Requests -> Held]
        BY DEF RequestTypeOK
      <3>. QED BY <3>1, OwedTypes
    <2>. QED BY <2>1 DEF Answers
  <1>2. f[r] = 0 /\ \A q \in Requests \ {r} : g[q] = f[q]
    BY DEF Answers
  <1>3. g[r] = IF pc'[r] = "answered" /\ req'[r].acct = a /\ (which = "all" \/ ~req'[r].stalled)
               THEN Owed(req'[r]) ELSE 0
    BY DEF Answers
  <1>. HIDE DEF f, g
  <1>4. SumFunction(f) \in Nat /\ SumFunction(g) \in Nat
        /\ SumFunction(g) + f[r] = SumFunction(f) + g[r]
    BY <1>1, <1>2, RequestAssumption, SumAtOnePlace
  <1>5. SumFunction(g) = SumFunction(f) + g[r]
    BY <1>1, <1>2, <1>4
  <1>. QED BY <1>3, <1>4, <1>5 DEF f, g, Total

\* What an answer adds, and what it says of itself.
LEMMA AnswerAdds ==
    ASSUME RequestTypeOK, NEW r \in Requests, NEW code \in Codes
    PROVE  /\ Answer(r, code) /\ (code = 200 => ~req[r].streams)
                => RecordSession(req[r].acct, Owed(req'[r]))
           /\ PassOn(r, code) /\ (code = 200 => req[r].streams /\ req[r].again)
                => UNCHANGED sessions /\ Owed(req'[r]) = 0
  <1>1. req[r] \in Held /\ "answered" \in Places
    BY DEF RequestTypeOK, Places, Ended
  <1>2. ASSUME Answer(r, code), code = 200 => ~req[r].streams
        PROVE  RecordSession(req[r].acct, Owed(req'[r]))
    <2>1. PICK units \in (IF code = 200 THEN {0, 1} ELSE {0}) :
              /\ Goto(r, "answered", [req[r] EXCEPT !.code = code, !.usage = units])
              /\ RecordSession(req[r].acct, WithCache(units))
      BY <1>2 DEF Answer
    <2>. DEFINE h == [req[r] EXCEPT !.code = code, !.usage = units]
    <2>2. h \in Held
      <3>1. units \in 0 .. 1
        OBVIOUS
      <3>. QED BY <1>1, <3>1, HeldNext
    <2>3. h.usage = units /\ h.streams = req[r].streams
      BY <1>1 DEF Held
    <2>. HIDE DEF h
    <2>4. Goto(r, "answered", h)
      BY <2>1 DEF h
    <2>5. req'[r].usage = units /\ req'[r].streams = req[r].streams
      BY <1>1, <2>2, <2>3, <2>4, GotoMoves DEF Same
    <2>6. Owed(req'[r]) = WithCache(units)
      <3>1. CASE code = 200
        BY <1>2, <2>5, <3>1 DEF Owed
      <3>2. CASE code # 200
        BY <2>5, <3>2 DEF Owed, WithCache
      <3>. QED BY <3>1, <3>2
    <2>. QED BY <2>1, <2>6
  <1>3. ASSUME PassOn(r, code), code = 200 => req[r].streams /\ req[r].again
        PROVE  UNCHANGED sessions /\ Owed(req'[r]) = 0
    <2>. DEFINE units == IF code = 200 THEN 1 ELSE 0
                h == [req[r] EXCEPT !.code = code, !.wants = FALSE, !.usage = units]
    <2>1. h \in Held
      <3>1. units \in 0 .. 1
        OBVIOUS
      <3>. HIDE DEF units
      <3>. QED BY <1>1, <3>1, HeldNext
    <2>2. h.usage = units /\ h.streams = req[r].streams /\ h.again = req[r].again
      BY <1>1 DEF Held
    <2>3. Goto(r, "answered", h) /\ UNCHANGED sessions
      BY <1>3 DEF PassOn, accounting
    <2>. HIDE DEF h
    <2>4. /\ req'[r].usage = units /\ req'[r].streams = req[r].streams
          /\ req'[r].again = req[r].again
      BY <1>1, <2>1, <2>2, <2>3, GotoMoves DEF Same
    <2>5. Owed(req'[r]) = 0
      <3>1. CASE code = 200
        BY <1>3, <2>4, <3>1 DEF Owed
      <3>2. CASE code # 200
        BY <2>4, <3>2 DEF Owed, WithCache
      <3>. QED BY <3>1, <3>2
    <2>. QED BY <2>3, <2>5
  <1>. QED BY <1>2, <1>3

\* What a step of a request does to its account's sessions.
Adds(r) ==
    \/ UNCHANGED sessions /\ pc'[r] # "answered"
    \/ UNCHANGED sessions /\ pc'[r] = "answered" /\ Owed(req'[r]) = 0
    \/ RecordSession(req[r].acct, 0) /\ pc'[r] # "answered" /\ req[r].acct \in Accounts
    \/ /\ RecordSession(req[r].acct, Owed(req'[r])) /\ req[r].acct \in Accounts
       /\ pc'[r] = "answered" /\ req'[r].acct = req[r].acct
    \/ /\ UpdateSession(req[r].acct, Owed(req'[r])) /\ pc[r] = "stream" /\ req[r].acct \in Accounts
       /\ pc'[r] = "answered" /\ Same(req[r], req'[r])

\* A step of a request adds what the request got to what its account has served.
LEMMA ServedStepOf ==
    ASSUME RequestTypeOK, RequestTypeOK', NEW r \in Requests, Served(r), StepOf(r)
    PROVE  Served(r)' /\ Adds(r) /\ pc[r] \notin Ended
  <1>1. req[r] \in Held /\ now' = now /\ now \in Nat
    BY StepsAreLocal DEF RequestTypeOK
  <1>2. /\ Ended \subseteq Places
        /\ "read" \in Places /\ "routed" \in Places /\ "unauthorized" \in Places
        /\ "poll" \in Places
        /\ "sent" \in Places /\ "resent" \in Places /\ "stream" \in Places
        /\ "reassemble" \in Places
    BY DEF Places, Ended, Waiting
  <1>3. pc'[r] \in Ended => Served(r)'
    BY DEF Served, Ended, Waiting
  <1>4. 200 \in Codes /\ 401 \in Codes /\ 500 \in Codes
    BY DEF Codes
  <1>5. ASSUME \E place \in {"refused", "failed", "left"} : \E h : Goto(r, place, h),
               UNCHANGED sessions
        PROVE  Served(r)' /\ Adds(r)
    <2>1. pc'[r] \in {"refused", "failed", "left"}
      BY <1>5, GotoLeads
    <2>. QED BY <1>3, <1>5, <2>1 DEF Adds, Ended
  <1>6. ASSUME NEW code \in Codes,
               \/ Answer(r, code) /\ (code = 200 => ~req[r].streams)
               \/ PassOn(r, code) /\ (code = 200 => req[r].streams /\ req[r].again),
               req[r].acct \in Accounts
        PROVE  Served(r)' /\ Adds(r)
    <2>1. pc'[r] = "answered" /\ req'[r].acct = req[r].acct
      BY <1>6, EndsWithCode
    <2>2. \/ RecordSession(req[r].acct, Owed(req'[r]))
          \/ UNCHANGED sessions /\ Owed(req'[r]) = 0
      BY <1>6, AnswerAdds
    <2>. QED BY <1>3, <1>6, <2>1, <2>2 DEF Adds, Ended
  <1>7. CASE Arrive(r)
    <2>1. UNCHANGED sessions /\ pc[r] = "new"
      BY <1>7 DEF Arrive, accounting
    <2>2. Goto(r, "read", req[r]) \/ Goto(r, "refused", req[r])
      BY <1>7 DEF Arrive
    <2>3. CASE Goto(r, "read", req[r])
      <3>1. pc'[r] = "read" /\ req'[r] = req[r]
        BY <2>3, GotoLeads DEF Ended
      <3>. QED BY <2>1, <3>1 DEF Served, Adds, Ended, Waiting
    <2>. QED BY <1>5, <2>1, <2>2, <2>3 DEF Ended
  <1>8. CASE Route(r)
    <2>1. UNCHANGED sessions /\ pc[r] = "read"
      BY <1>8 DEF Route, accounting
    <2>2. ASSUME NEW a \in ActiveIn(cache),
                 Goto(r, "routed", [req[r] EXCEPT !.acct = a, !.sentAs = a, !.token = cache.gen[a]])
          PROVE  Served(r)' /\ Adds(r)
      <3>1. /\ pc'[r] = "routed"
            /\ req'[r] = [req[r] EXCEPT !.acct = a, !.sentAs = a, !.token = cache.gen[a]]
        BY <2>2, GotoLeads DEF Ended
      <3>2. a \in Accounts
        BY ActiveTypes DEF RequestTypeOK
      <3>3. req'[r].acct = a /\ req'[r].usage = req[r].usage /\ req'[r].again = req[r].again
        BY <1>1, <3>1 DEF Held
      <3>. QED BY <2>1, <3>1, <3>2, <3>3 DEF Served, Adds, Waiting
    <2>. QED BY <1>5, <1>8, <2>1, <2>2 DEF Route, Ended
  <1>9. CASE \E wants, streams \in BOOLEAN : Send(r, wants, streams)
    <2>1. PICK wants \in BOOLEAN, streams \in BOOLEAN : Send(r, wants, streams)
      BY <1>9
    <2>2. UNCHANGED sessions /\ pc[r] = "routed"
      BY <2>1 DEF Send, accounting
    <2>3. CASE Goto(r, "sent", [req[r] EXCEPT !.since = now, !.wants = wants, !.streams = streams])
      <3>1. /\ pc'[r] = "sent"
            /\ req'[r] = [req[r] EXCEPT !.since = now, !.wants = wants, !.streams = streams]
        BY <2>3, GotoLeads DEF Ended
      <3>2. /\ req'[r].acct = req[r].acct /\ req'[r].usage = req[r].usage /\ req'[r].since = now
            /\ req'[r].again = req[r].again
        BY <1>1, <3>1 DEF Held
      <3>3. now - now <= Timeout /\ now <= now
        BY <1>1, LimitsAssumption
      <3>4. req[r].acct \in Accounts /\ req[r].usage = 0 /\ ~req[r].again
        BY <2>2 DEF Served
      <3>5. Served(r)'
        BY <1>1, <3>1, <3>2, <3>3, <3>4 DEF Served
      <3>. QED BY <2>2, <3>1, <3>5 DEF Adds, Ended
    <2>. QED BY <1>5, <2>1, <2>2, <2>3 DEF Send, Ended
  <1>10. CASE NoAnswer(r) \/ ClientLeaves(r)
    <2>1. UNCHANGED sessions /\ pc[r] \notin Ended
      BY <1>10 DEF NoAnswer, ClientLeaves, accounting, Ended, Waiting
    <2>. QED BY <1>5, <1>10, <2>1 DEF NoAnswer, ClientLeaves
  <1>11. CASE FirstAnswer(r)
    <2>1. pc[r] = "sent" /\ req[r].usage = 0 /\ req[r].acct \in Accounts /\ ~req[r].again
      BY <1>11 DEF FirstAnswer, Served, Waiting
    <2>2. \/ Answer(r, 200) /\ ~req[r].streams
          \/ Answer(r, 500) \/ PassOn(r, 500)
          \/ Goto(r, "stream", req[r]) /\ RecordSession(req[r].acct, 0) /\ Live(req[r])
          \/ /\ Goto(r, "reassemble", req[r]) /\ UNCHANGED sessions
             /\ req[r].streams /\ ~req[r].wants
          \/ Goto(r, "unauthorized", req[r]) /\ UNCHANGED sessions
      <3>1. PICK code \in Code(req[r].acct, req[r].sentAs, req[r].token) :
               \/ code = 200 /\ Success(r)
               \/ code = 401 /\ Goto(r, "unauthorized", req[r]) /\ UNCHANGED accounting
               \/ code = 500 /\ (Answer(r, 500) \/ PassOn(r, 500))
        BY <1>11 DEF FirstAnswer
      <3>2. Success(r) => \/ Answer(r, 200) /\ ~req[r].streams
                          \/ Goto(r, "stream", req[r]) /\ RecordSession(req[r].acct, 0) /\ Live(req[r])
                          \/ /\ Goto(r, "reassemble", req[r]) /\ UNCHANGED accounting
                             /\ req[r].streams /\ ~req[r].wants
        BY DEF Success, Live
      <3>. QED BY <3>1, <3>2 DEF accounting
    <2>3. CASE (Answer(r, 200) /\ ~req[r].streams) \/ Answer(r, 500) \/ PassOn(r, 500)
      BY <1>4, <1>6, <2>1, <2>3 DEF Ended
    <2>4. CASE Goto(r, "stream", req[r]) /\ RecordSession(req[r].acct, 0) /\ Live(req[r])
      <3>1. pc'[r] = "stream" /\ req'[r] = req[r]
        BY <2>4, GotoLeads DEF Ended
      <3>2. CurrentBucket \in Buckets
        BY BucketTypes
      <3>3. sessions'[<<req[r].acct, CurrentBucket>>] # None
        <4>. DEFINE a == req[r].acct
        <4>1. a \in Accounts /\ 0 \in Nat
          BY <2>1
        <4>2. sessions' = [sessions EXCEPT ![<<a, CurrentBucket>>] = (IF @ = None THEN 0 ELSE @) + 0]
          BY <2>4 DEF RecordSession
        <4>. HIDE DEF a
        <4>3. sessions'[<<a, CurrentBucket>>] # None
          BY <1>1, <3>2, <4>1, <4>2, SessionGains
        <4>. QED BY <4>3 DEF a
      <3>4. req[r].since \div Bucket <= CurrentBucket /\ CurrentBucket <= CurrentBucket
        <4>1. req[r].since \in Nat /\ req[r].since <= now
          BY <1>1, <2>1 DEF Held, Served, Waiting
        <4>2. now \div Bucket \in Nat /\ req[r].since \div Bucket <= now \div Bucket
          BY <1>1, <4>1, BucketsApart
        <4>. QED BY <4>2 DEF CurrentBucket
      <3>5. Served(r)'
        <4>. DEFINE b == CurrentBucket
        <4>1. /\ b \in Buckets /\ sessions'[<<req[r].acct, b>>] # None
              /\ req[r].since \div Bucket <= b /\ b <= now' \div Bucket
          BY <1>1, <3>2, <3>3, <3>4 DEF CurrentBucket
        <4>2. /\ req[r].acct \in Accounts /\ ~req[r].again /\ Live(req[r])
              /\ req[r].since <= now /\ (req[r].stalled \/ now - req[r].since <= Timeout)
          BY <2>1, <2>4 DEF Served, Waiting
        <4>. HIDE DEF b
        <4>. QED BY <1>1, <3>1, <4>1, <4>2 DEF Served, Waiting, Live
      <3>. QED BY <2>1, <2>4, <3>1, <3>5 DEF Adds, Ended
    <2>5. CASE /\ Goto(r, "reassemble", req[r]) /\ UNCHANGED sessions
               /\ req[r].streams /\ ~req[r].wants
      <3>1. pc'[r] = "reassemble" /\ req'[r] = req[r]
        BY <2>5, GotoLeads DEF Ended
      <3>. QED BY <1>1, <2>1, <2>5, <3>1 DEF Served, Adds, Waiting, Ended
    <2>6. CASE Goto(r, "unauthorized", req[r]) /\ UNCHANGED sessions
      <3>1. pc'[r] = "unauthorized" /\ req'[r] = req[r]
        BY <2>6, GotoLeads DEF Ended
      <3>. QED BY <1>1, <2>1, <2>6, <3>1 DEF Served, Adds, Waiting, Ended
    <2>. QED BY <2>2, <2>3, <2>4, <2>5, <2>6
  <1>12. CASE RetryOrWait(r)
    <2>1. pc[r] \in {"unauthorized", "poll"}
      BY <1>12, RetryDoes
    <2>2. req[r].usage = 0 /\ req[r].acct \in Accounts /\ ~req[r].again
      BY <2>1 DEF Served, Waiting
    <2>3. \/ Answer(r, 401) \/ PassOn(r, 401) \/ Polls(r)
          \/ \E a \in ActiveIn(cache') : Resends(r, a)
      BY <1>12, RetryDoes
    <2>4. CASE Answer(r, 401) \/ PassOn(r, 401)
      BY <1>4, <1>6, <2>1, <2>2, <2>4 DEF Ended
    <2>5. CASE Polls(r)
      <3>1. /\ pc'[r] = "poll" /\ req'[r] = [req[r] EXCEPT !.polls = @ + 1]
            /\ UNCHANGED sessions
        BY <2>5, GotoLeads DEF Ended, Polls, accounting
      <3>2. /\ req'[r].acct = req[r].acct /\ req'[r].usage = req[r].usage
            /\ req'[r].again = req[r].again
        BY <1>1, <3>1 DEF Held
      <3>. QED BY <2>1, <2>2, <3>1, <3>2 DEF Served, Adds, Waiting, Ended
    <2>6. ASSUME NEW a \in ActiveIn(cache'), Resends(r, a)
          PROVE  Served(r)' /\ Adds(r)
      <3>1. /\ pc'[r] = "resent" /\ UNCHANGED sessions
            /\ req'[r] = [req[r] EXCEPT !.sentAs = a, !.token = cache'.gen[a],
                                        !.since = now, !.again = TRUE]
        BY <2>6, GotoLeads DEF Ended, Resends, accounting
      <3>2. req'[r].acct = req[r].acct /\ req'[r].usage = req[r].usage /\ req'[r].since = now
        BY <1>1, <3>1 DEF Held
      <3>5. req'[r].again
        <4>. DEFINE h == [[[req[r] EXCEPT !.sentAs = a] EXCEPT !.token = cache'.gen[a]]
                             EXCEPT !.since = now]
        <4>1. "again" \in DOMAIN h
          BY <1>1 DEF Held
        <4>2. req'[r] = [h EXCEPT !.again = TRUE]
          BY <3>1
        <4>. HIDE DEF h
        <4>. QED BY <4>1, <4>2
      <3>3. now - now <= Timeout
        BY <1>1, LimitsAssumption
      <3>4. pc'[r] = "resent" /\ UNCHANGED sessions
        BY <3>1
      <3>. QED BY <1>1, <2>2, <3>2, <3>3, <3>4, <3>5 DEF Served, Adds, Waiting
    <2>7. pc[r] \notin Ended
      BY <2>1 DEF Ended
    <2>. QED BY <2>3, <2>4, <2>5, <2>6, <2>7
  <1>13. CASE SecondAnswer(r)
    <2>1. pc[r] = "resent" /\ req[r].usage = 0 /\ req[r].acct \in Accounts /\ req[r].again
      BY <1>13 DEF SecondAnswer, Served, Waiting
    <2>2. PICK code \in Code(req[r].acct, req[r].sentAs, req[r].token) :
              IF req[r].streams THEN PassOn(r, code) ELSE Answer(r, code)
      BY <1>13 DEF SecondAnswer
    <2>3. code \in Codes
      BY DEF Code, Codes
    <2>. QED BY <1>6, <2>1, <2>2, <2>3 DEF Ended
  <1>14. CASE StreamEvent(r) \/ ClientStalls(r)
    <2>1. /\ UNCHANGED sessions /\ pc[r] \in {"stream", "reassemble"}
          /\ \E h \in {[req[r] EXCEPT !.usage = 1], [req[r] EXCEPT !.stalled = TRUE]} :
                Goto(r, pc[r], h)
      BY <1>14 DEF StreamEvent, ClientStalls, accounting
    <2>2. PICK h \in {[req[r] EXCEPT !.usage = 1], [req[r] EXCEPT !.stalled = TRUE]} :
              Goto(r, pc[r], h)
      BY <2>1
    <2>3. pc'[r] = pc[r] /\ req'[r] = h
      BY <2>1, <2>2, GotoLeads DEF Ended
    <2>4. /\ h.acct = req[r].acct /\ h.since = req[r].since /\ h.again = req[r].again
          /\ h.wants = req[r].wants /\ h.streams = req[r].streams
          /\ req[r].stalled => h.stalled
      BY <1>1 DEF Held
    <2>5. Served(r)'
      BY <1>1, <2>1, <2>3, <2>4 DEF Served, Waiting, Live
    <2>. QED BY <2>1, <2>3, <2>5 DEF Adds, Ended
  <1>15. CASE StreamEnds(r)
    <2>1. /\ pc[r] = "stream" /\ Goto(r, "answered", req[r])
          /\ UpdateSession(req[r].acct, WithCache(req[r].usage))
      BY <1>15 DEF StreamEnds
    <2>2. pc'[r] = "answered" /\ Same(req[r], req'[r])
      BY <1>1, <1>2, <2>1, GotoMoves DEF Ended
    <2>3. req[r].acct \in Accounts /\ ~req[r].again /\ req[r].wants
      BY <2>1 DEF Served, Waiting, Live
    <2>4. Owed(req'[r]) = WithCache(req[r].usage)
      BY <2>2, <2>3 DEF Owed, Same
    <2>. QED BY <1>3, <2>1, <2>2, <2>3, <2>4 DEF Adds, Ended
  <1>16. CASE ReassemblyEnds(r)
    <2>1. /\ pc[r] = "reassemble" /\ req[r].acct \in Accounts
          /\ ~req[r].again /\ ~req[r].wants /\ req[r].streams
      BY <1>16 DEF ReassemblyEnds, Served, Waiting
    <2>2. CASE Goto(r, "answered", req[r]) /\ RecordSession(req[r].acct, req[r].usage)
      <3>1. pc'[r] = "answered" /\ Same(req[r], req'[r])
        BY <1>1, <1>2, <2>2, GotoMoves DEF Ended
      <3>2. Owed(req'[r]) = req[r].usage /\ req'[r].acct = req[r].acct
        BY <2>1, <3>1 DEF Same, Owed
      <3>. QED BY <1>3, <2>1, <2>2, <3>1, <3>2 DEF Adds, Ended
    <2>3. CASE Goto(r, "failed", req[r]) /\ UNCHANGED sessions
      BY <1>5, <2>1, <2>3 DEF Ended
    <2>. QED BY <1>16, <2>2, <2>3 DEF ReassemblyEnds, accounting
  <1>. QED BY <1>7, <1>8, <1>9, <1>10, <1>11, <1>12, <1>13, <1>14, <1>15, <1>16 DEF StepOf, Handle

\* The end of a stream finds the session in which it began, if its client reads it.
LEMMA UpdateFinds ==
    ASSUME RequestTypeOK, NEW r \in Requests, Served(r), pc[r] = "stream", NEW units \in Nat,
           UpdateSession(req[r].acct, units)
    PROVE  \/ \E b \in Buckets :
                 sessions' = [sessions EXCEPT ![<<req[r].acct, b>>] =
                                 (IF @ = None THEN 0 ELSE @) + units]
           \/ UNCHANGED sessions /\ (units = 0 \/ req[r].stalled)
  <1>. DEFINE a == req[r].acct
              open == {b \in {CurrentBucket, CurrentBucket - 1} \cap Buckets : sessions[<<a, b>>] # None}
  <1>1. /\ a \in Accounts /\ req[r].since \in Nat /\ now \in Nat /\ req[r].since <= now
        /\ req[r].stalled \/ now - req[r].since <= Timeout
    <2>1. req[r] \in Held /\ now \in Nat
      BY DEF RequestTypeOK
    <2>2. req[r].since \in Nat
      BY <2>1 DEF Held
    <2>. QED BY <2>1, <2>2 DEF Served, Waiting
  <1>2. ~ req[r].stalled => open # {}
    <2>1. PICK b \in Buckets : /\ sessions[<<a, b>>] # None
                               /\ req[r].since \div Bucket <= b /\ b <= now \div Bucket
      BY DEF Served
    <2>2. b \in Nat
      BY <2>1, BucketTypes
    <2>3. ~ req[r].stalled => b \in {CurrentBucket, CurrentBucket - 1}
      <3>1. /\ now \div Bucket \in Nat /\ req[r].since \div Bucket \in Nat
            /\ ~ req[r].stalled => now \div Bucket <= (req[r].since \div Bucket) + 1
        BY <1>1, BucketsApart
      <3>. QED BY <2>1, <2>2, <3>1 DEF CurrentBucket
    <2>. QED BY <2>1, <2>3
  <1>3. CASE units = 0 \/ open = {}
    <2>1. UNCHANGED sessions
      BY <1>3 DEF UpdateSession
    <2>. HIDE DEF open
    <2>. QED BY <1>2, <1>3, <2>1
  <1>4. CASE ~ (units = 0 \/ open = {})
    <2>1. sessions' = [sessions EXCEPT ![<<a, Max(open)>>] = @ + units]
      BY <1>4 DEF UpdateSession
    <2>2. Max(open) \in open
      <3>1. open \subseteq Int /\ open \subseteq {CurrentBucket, CurrentBucket - 1}
        BY DEF Buckets
      <3>2. CurrentBucket \in open \/ CurrentBucket - 1 \in open
        BY <1>4
      <3>3. \E x \in open : \A y \in open : x >= y
        BY <3>1, <3>2
      <3>. HIDE DEF open
      <3>. QED BY <3>3 DEF Max
    <2>3. Max(open) \in Buckets /\ sessions[<<a, Max(open)>>] # None
      BY <2>2
    <2>. HIDE DEF open
    <2>4. sessions' = [sessions EXCEPT ![<<a, Max(open)>>] =
                          (IF @ = None THEN 0 ELSE @) + units]
      <3>1. sessions \in [Accounts \X Buckets -> Nat \cup {None}]
        BY DEF RequestTypeOK
      <3>. QED BY <2>1, <2>3, <3>1
    <2>. QED BY <2>3, <2>4
  <1>. QED BY <1>3, <1>4

\* The sums of what has been answered and of the sessions go together.
LEMMA SessionStepOf ==
    ASSUME SessionInv, RequestTypeOK', NEW r \in Requests, StepOf(r)
    PROVE  SessionInv'
  <1>1. RequestTypeOK /\ Served(r) /\ req[r] \in Held /\ req'[r] \in Held
    BY DEF SessionInv, RequestTypeOK
  <1>2. Served(r)' /\ Adds(r) /\ pc[r] \notin Ended
    BY <1>1, ServedStepOf
  <1>3. \A q \in Requests : q # r => pc'[q] = pc[q] /\ req'[q] = req[q]
    BY <1>1, StepsAreLocal
  <1>4. now' = now
    BY <1>1, StepsAreLocal
  <1>5. ASSUME NEW a \in Accounts
        PROVE  /\ Total(a, "all")' =
                     Total(a, "all") + (IF pc'[r] = "answered" /\ req'[r].acct = a
                                        THEN Owed(req'[r]) ELSE 0)
               /\ Total(a, "read")' =
                     Total(a, "read") + (IF /\ pc'[r] = "answered" /\ req'[r].acct = a
                                            /\ ~req'[r].stalled
                                         THEN Owed(req'[r]) ELSE 0)
    <2>1. pc[r] # "answered" /\ "read" # "all"
      BY <1>2 DEF Ended
    <2>2. \A which \in {"read", "all"} :
             Total(a, which)' =
                 Total(a, which) + (IF /\ pc'[r] = "answered" /\ req'[r].acct = a
                                       /\ which = "all" \/ ~req'[r].stalled
                                    THEN Owed(req'[r]) ELSE 0)
      BY <1>1, <1>3, <2>1, TotalGains
    <2>. HIDE DEF Total
    <2>. QED BY <2>1, <2>2
  <1>6. ASSUME NEW a \in Accounts
        PROVE  /\ InSessions(a) \in Nat /\ Total(a, "read") \in Nat /\ Total(a, "all") \in Nat
               /\ Total(a, "read") <= InSessions(a) /\ InSessions(a) <= Total(a, "all")
    BY <1>1, SumsAreNumbers DEF SessionInv
  <1>7. Owed(req'[r]) \in Nat
    BY <1>1, OwedTypes
  <1>8. ASSUME \A s \in Accounts \X Buckets : sessions[s] # None => sessions'[s] # None,
               NEW q \in Requests
        PROVE  Served(q)'
    <2>1. CASE q = r
      BY <1>2, <2>1
    <2>2. CASE q # r
      <3>1. pc'[q] = pc[q] /\ req'[q] = req[q] /\ Served(q)
        BY <1>3, <2>2 DEF SessionInv
      <3>. QED BY <1>4, <1>8, <3>1 DEF Served, Waiting
    <2>. QED BY <2>1, <2>2
  <1>9. CASE /\ UNCHANGED sessions
             /\ pc'[r] # "answered" \/ Owed(req'[r]) = 0 \/ req'[r].stalled
    <2>1. ASSUME NEW a \in Accounts
          PROVE  Total(a, "read")' <= InSessions(a)' /\ InSessions(a)' <= Total(a, "all")'
      <3>1. InSessions(a)' = InSessions(a)
        BY <1>9 DEF InSessions
      <3>2. Total(a, "read")' = Total(a, "read")
        <4>1. CASE pc'[r] # "answered" \/ req'[r].stalled
          BY <1>5, <1>6, <4>1
        <4>2. CASE Owed(req'[r]) = 0
          BY <1>5, <1>6, <4>2
        <4>. QED BY <1>9, <4>1, <4>2
      <3>3. Total(a, "all")' \in Nat /\ Total(a, "all")' >= Total(a, "all")
        BY <1>5, <1>6, <1>7
      <3>. QED BY <1>6, <3>1, <3>2, <3>3
    <2>2. \A q \in Requests : Served(q)'
      BY <1>8, <1>9
    <2>. QED BY <2>1, <2>2 DEF SessionInv
  <1>10. ASSUME NEW b \in Buckets, NEW units \in Nat, NEW c \in Accounts, c = req[r].acct,
                sessions' = [sessions EXCEPT ![<<c, b>>] =
                                (IF @ = None THEN 0 ELSE @) + units],
                \/ pc'[r] = "answered" /\ req'[r].acct = c /\ Owed(req'[r]) = units
                \/ pc'[r] # "answered" /\ units = 0
         PROVE  SessionInv'
    <2>1. /\ InSessions(c)' = InSessions(c) + units
          /\ \A a \in Accounts : a # c => InSessions(a)' = InSessions(a)
          /\ \A s \in Accounts \X Buckets : sessions[s] # None => sessions'[s] # None
      BY <1>1, <1>10, SessionGains
    <2>2. ASSUME NEW a \in Accounts
          PROVE  Total(a, "read")' <= InSessions(a)' /\ InSessions(a)' <= Total(a, "all")'
      <3>1. CASE a = c
        <4>1. InSessions(a)' = InSessions(a) + units
          BY <2>1, <3>1
        <4>2. /\ Total(a, "all")' = Total(a, "all") + units
              /\ Total(a, "read")' = Total(a, "read") \/ Total(a, "read")' = Total(a, "read") + units
          <5>1. CASE pc'[r] = "answered" /\ req'[r].acct = c /\ Owed(req'[r]) = units
            BY <1>5, <1>6, <3>1, <5>1
          <5>2. CASE pc'[r] # "answered" /\ units = 0
            BY <1>5, <1>6, <5>2
          <5>. QED BY <1>10, <5>1, <5>2
        <4>. QED BY <1>6, <4>1, <4>2
      <3>2. CASE a # c
        <4>1. InSessions(a)' = InSessions(a)
          BY <2>1, <3>2
        <4>2. Total(a, "all")' = Total(a, "all") /\ Total(a, "read")' = Total(a, "read")
          <5>1. ~ (pc'[r] = "answered" /\ req'[r].acct = a)
            BY <1>10, <3>2
          <5>. QED BY <1>5, <1>6, <5>1
        <4>. QED BY <1>6, <4>1, <4>2
      <3>. QED BY <3>1, <3>2
    <2>3. \A q \in Requests : Served(q)'
      BY <1>8, <2>1
    <2>. QED BY <2>2, <2>3 DEF SessionInv
  <1>11. CurrentBucket \in Buckets
    BY <1>1, BucketTypes
  <1>12. CASE RecordSession(req[r].acct, 0) /\ pc'[r] # "answered" /\ req[r].acct \in Accounts
    BY <1>10, <1>11, <1>12 DEF RecordSession
  <1>13. CASE /\ RecordSession(req[r].acct, Owed(req'[r])) /\ req[r].acct \in Accounts
              /\ pc'[r] = "answered" /\ req'[r].acct = req[r].acct
    BY <1>7, <1>10, <1>11, <1>13 DEF RecordSession
  <1>14. CASE /\ UpdateSession(req[r].acct, Owed(req'[r])) /\ pc[r] = "stream"
              /\ req[r].acct \in Accounts
              /\ pc'[r] = "answered" /\ Same(req[r], req'[r])
    <2>1. /\ req'[r].acct = req[r].acct
          /\ req'[r].stalled = req[r].stalled
      BY <1>14 DEF Same
    <2>2. \/ \E b \in Buckets :
                sessions' = [sessions EXCEPT ![<<req[r].acct, b>>] =
                                (IF @ = None THEN 0 ELSE @) + Owed(req'[r])]
          \/ UNCHANGED sessions /\ (Owed(req'[r]) = 0 \/ req[r].stalled)
      BY <1>1, <1>7, <1>14, UpdateFinds
    <2>3. CASE UNCHANGED sessions /\ (Owed(req'[r]) = 0 \/ req[r].stalled)
      BY <1>9, <2>1, <2>3
    <2>4. ASSUME NEW b \in Buckets,
                 sessions' = [sessions EXCEPT ![<<req[r].acct, b>>] =
                                 (IF @ = None THEN 0 ELSE @) + Owed(req'[r])]
          PROVE  SessionInv'
      BY <1>7, <1>10, <1>14, <2>1, <2>4
    <2>. QED BY <2>2, <2>3, <2>4
  <1>. QED BY <1>2, <1>9, <1>12, <1>13, <1>14 DEF Adds

\* Every step keeps what the sessions hold.
LEMMA SessionStep ==
    ASSUME SessionInv, [ProxyNext]_proxyVars
    PROVE  SessionInv'
  <1>1. RequestTypeOK /\ RequestTypeOK'
    BY RequestTypeStep DEF SessionInv
  <1>2. ASSUME UNCHANGED <<pc, req, sessions>>, \A r \in Requests : Served(r)'
        PROVE  SessionInv'
    <2>1. ASSUME NEW a \in Accounts
          PROVE  Total(a, "read")' <= InSessions(a)' /\ InSessions(a)' <= Total(a, "all")'
      <3>1. /\ InSessions(a)' = InSessions(a)
            /\ Total(a, "read")' = Total(a, "read") /\ Total(a, "all")' = Total(a, "all")
        BY <1>2 DEF InSessions, Total, Answers
      <3>. QED BY <3>1 DEF SessionInv
    <2>. QED BY <1>1, <1>2, <2>1 DEF SessionInv
  <1>3. CASE Tick
    <2>1. UNCHANGED <<pc, req, sessions>> /\ now' = now + 1 /\ now \in Nat /\ now' \in Nat
      BY <1>1, <1>3 DEF Tick, accounting, RequestTypeOK
    <2>2. ASSUME NEW r \in Requests PROVE Served(r)'
      <3>1. Served(r) /\ req[r] \in Held
        BY <1>1 DEF SessionInv, RequestTypeOK
      <3>2. req[r].since \in Nat
        BY <3>1 DEF Held
      <3>3. pc[r] \in Waiting
              => req[r].since <= now' /\ (req[r].stalled \/ now' - req[r].since <= Timeout)
        <4>1. pc[r] \in Waiting => req[r].stalled \/ ~ (now - req[r].since >= Timeout)
          BY <1>3 DEF Tick, Overdue
        <4>2. Timeout \in Nat
          BY LimitsAssumption
        <4>. QED BY <2>1, <3>1, <3>2, <4>1, <4>2 DEF Served
      <3>4. pc[r] = "stream"
              => \E b \in Buckets : /\ sessions[<<req[r].acct, b>>] # None
                                    /\ req[r].since \div Bucket <= b /\ b <= now' \div Bucket
        <4>1. /\ now \div Bucket \in Nat /\ now' \div Bucket \in Nat
              /\ now \div Bucket <= now' \div Bucket
          BY <2>1, BucketsApart
        <4>2. Buckets \subseteq Nat
          BY <1>1, BucketTypes
        <4>. DEFINE begun == req[r].since \div Bucket
                    bucket == now \div Bucket
        <4>3. pc[r] = "stream"
                => \E b \in Buckets : /\ sessions[<<req[r].acct, b>>] # None
                                      /\ begun <= b /\ b <= bucket
          BY <3>1 DEF Served
        <4>4. bucket \in Nat /\ now' \div Bucket \in Nat /\ bucket <= now' \div Bucket
          BY <4>1
        <4>. HIDE DEF begun, bucket
        <4>5. \A b \in Buckets : b <= bucket => b <= now' \div Bucket
          <5>. DEFINE next == now' \div Bucket
          <5>1. next \in Nat /\ bucket <= next
            BY <4>4
          <5>. HIDE DEF next
          <5>2. \A b \in Nat : b <= bucket => b <= next
            BY <4>4, <5>1
          <5>. QED BY <4>2, <5>2 DEF next
        <4>6. ASSUME pc[r] = "stream"
              PROVE  \E b \in Buckets : /\ sessions[<<req[r].acct, b>>] # None
                                        /\ begun <= b /\ b <= now' \div Bucket
          BY <4>3, <4>5, <4>6
        <4>. QED BY <4>6 DEF begun
      <3>. QED BY <2>1, <3>1, <3>3, <3>4 DEF Served
    <2>. QED BY <1>2, <2>1, <2>2
  <1>4. CASE \/ \E a \in Accounts : RotateToken(a) \/ StoreToken(a)
             \/ \E a \in Accounts \cup {NoAccount} : SwitchActive(a)
             \/ BackgroundReload \/ GetStats \/ Shutdown \/ UNCHANGED proxyVars
    <2>1. UNCHANGED <<pc, req, sessions, now>>
      BY <1>4 DEF RotateToken, StoreToken, SwitchActive, WriteFile, BackgroundReload, GetStats,
                  Shutdown, proxyVars, accounting
    <2>2. \A r \in Requests : Served(r)'
      BY <2>1 DEF SessionInv, Served
    <2>. QED BY <1>2, <2>1, <2>2
  <1>. QED BY <1>1, <1>3, <1>4, SessionStepOf DEF ProxyNext, StepOf

\* The sessions are empty in the beginning.
LEMMA SessionInit == ProxyInit => SessionInv
  <1>. SUFFICES ASSUME ProxyInit PROVE SessionInv
    OBVIOUS
  <1>1. RequestTypeOK
    BY RequestTypeInit
  <1>2. ASSUME NEW r \in Requests PROVE Served(r)
    BY DEF ProxyInit, NewRequest, Served, Waiting
  <1>3. ASSUME NEW a \in Accounts, NEW which \in {"read", "all"} PROVE Total(a, which) = 0
    <2>1. Answers(a, which) \in [Requests -> {0}]
      BY DEF ProxyInit, Answers
    <2>. QED BY <2>1, RequestAssumption, SumOfZeros DEF Total
  <1>4. ASSUME NEW a \in Accounts PROVE InSessions(a) = 0
    <2>. DEFINE f == [d \in Buckets |-> IF sessions[<<a, d>>] = None THEN 0 ELSE sessions[<<a, d>>]]
    <2>1. f \in [Buckets -> {0}]
      BY DEF ProxyInit
    <2>2. IsFiniteSet(Buckets)
      BY <1>1, BucketTypes
    <2>. HIDE DEF f
    <2>3. SumFunction(f) = 0
      BY <2>1, <2>2, SumOfZeros
    <2>. QED BY <2>3 DEF f, InSessions
  <1>. QED BY <1>1, <1>2, <1>3, <1>4 DEF SessionInv

\* The sessions of an account hold the usage of the answers to the requests that began with
\* it, also of streams that end in another bucket than they began in, and of those alone,
\* but for streams that were sent again, the cache tokens of reassembled answers, and clients
\* that do not read (record_request and update_tokens of session_writer.rs as handler.rs
\* calls them): for any number of requests, accounts and buckets, and any timeout that a
\* bucket can hold.
THEOREM SessionsAreFull == ProxySpec => []SessionsHoldUsage
  <1>1. SessionInv => SessionsHoldUsage
    <2>. SUFFICES ASSUME SessionInv, NEW a \in Accounts
                  PROVE  LET answered == {r \in Requests : pc[r] = "answered" /\ req[r].acct = a}
                         IN  /\ Units({r \in answered : ~req[r].stalled}) <= InSessions(a)
                             /\ InSessions(a) <= Units(answered)
      BY DEF SessionsHoldUsage
    <2>. DEFINE answered == {r \in Requests : pc[r] = "answered" /\ req[r].acct = a}
    <2>1. Units({r \in answered : ~req[r].stalled}) = Total(a, "read")
      <3>1. [r \in Requests |-> IF r \in {q \in answered : ~req[q].stalled} THEN Owed(req[r]) ELSE 0]
              = Answers(a, "read")
        BY DEF Answers
      <3>. HIDE DEF answered
      <3>. QED BY <3>1 DEF Units, Total
    <2>2. Units(answered) = Total(a, "all")
      <3>1. [r \in Requests |-> IF r \in answered THEN Owed(req[r]) ELSE 0] = Answers(a, "all")
        BY DEF Answers
      <3>. HIDE DEF answered
      <3>. QED BY <3>1 DEF Units, Total
    <2>. QED BY <2>1, <2>2 DEF SessionInv
  <1>. QED BY <1>1, SessionInit, SessionStep, PTL DEF ProxySpec

-----------------------------------------------------------------------------
(* The requests: what their entries tell.                                  *)

\* The entries, written or about to be.
Booked == {pending[i] : i \in DOMAIN pending} \cup {logged[i] : i \in DOMAIN logged}

ToldInv ==
    /\ CountInv /\ SessionInv
    /\ \A e \in Booked : e.usage = Told(req[e.of])

\* A flush writes nothing but what it is given.
LEMMA FlushBooks ==
    ASSUME NEW entries \in Seq(Entry), logged \in Seq(Entry), NEW ok \in BOOLEAN,
           Flush(entries, ok)
    PROVE  Booked' \subseteq {entries[i] : i \in DOMAIN entries} \cup {logged[i] : i \in DOMAIN logged}
  <1>1. pending' = <<>> /\ (logged' = logged \o entries \/ logged' = logged)
    BY DEF Flush
  <1>2. {pending'[i] : i \in DOMAIN pending'} = {}
    BY <1>1
  <1>3. ASSUME logged' = logged \o entries, NEW i \in DOMAIN logged'
        PROVE  \/ i \in DOMAIN logged /\ logged'[i] = logged[i]
               \/ i - Len(logged) \in DOMAIN entries /\ logged'[i] = entries[i - Len(logged)]
    BY <1>3
  <1>. QED BY <1>1, <1>2, <1>3 DEF Booked

\* Recording adds one entry.
LEMMA RecordBooks ==
    ASSUME RequestTypeOK, NEW r \in Requests, NEW usage \in 0 .. 1, RecordUsage(r, usage)
    PROVE  Booked' \subseteq Booked \cup {[of |-> r, usage |-> usage]}
  <1>. DEFINE entry == [of |-> r, usage |-> usage]
              entries == Append(pending, entry)
  <1>1. /\ pending \in Seq(Entry) /\ logged \in Seq(Entry) /\ entry \in Entry
        /\ entries \in Seq(Entry)
    BY DEF RequestTypeOK, Entry
  <1>2. {entries[i] : i \in DOMAIN entries} \subseteq {pending[i] : i \in DOMAIN pending} \cup {entry}
    <2>. HIDE DEF entry
    <2>1. \A i \in DOMAIN entries : (i \in DOMAIN pending /\ entries[i] = pending[i]) \/ entries[i] = entry
      BY <1>1
    <2>. HIDE DEF entries
    <2>. QED BY <2>1
  <1>3. \/ \E ok \in BOOLEAN : Flush(entries, ok)
        \/ pending' = entries /\ logged' = logged
    BY DEF RecordUsage
  <1>. HIDE DEF entry, entries
  <1>4. CASE \E ok \in BOOLEAN : Flush(entries, ok)
    <2>1. Booked' \subseteq {entries[i] : i \in DOMAIN entries} \cup {logged[i] : i \in DOMAIN logged}
      BY <1>1, <1>4, FlushBooks
    <2>. QED BY <1>2, <2>1 DEF Booked, entry
  <1>5. CASE pending' = entries /\ logged' = logged
    BY <1>2, <1>5 DEF Booked, entry
  <1>. QED BY <1>3, <1>4, <1>5

\* What a request records is what is told of it after the step.
Tells(r) == \E usage \in 0 .. 1 : RecordUsage(r, usage) /\ usage = Told(req'[r])

\* Each step of a request leaves its entry true, makes it so, or comes before it.
LEMMA WhatIsTold ==
    ASSUME RequestTypeOK, NEW r \in Requests, Served(r), StepOf(r)
    PROVE  \/ UNCHANGED <<pending, logged>> /\ pc[r] \notin CountedPlaces
           \/ UNCHANGED <<pending, logged>> /\ pc[r] = "stream" /\ Told(req'[r]) = 0
           \/ Tells(r) /\ pc[r] \notin CountedPlaces
  <1>. USE DEF accounting, CountedPlaces
  <1>1. req[r] \in Held /\ Ended \subseteq Places /\ "answered" \in Places
    BY DEF RequestTypeOK, Places, Ended
  <1>2. ASSUME NEW code \in Codes, Answer(r, code), code = 200 => ~req[r].streams
        PROVE  Tells(r)
    <2>1. PICK units \in (IF code = 200 THEN {0, 1} ELSE {0}) :
              /\ Goto(r, "answered", [req[r] EXCEPT !.code = code, !.usage = units])
              /\ RecordUsage(r, units)
      BY <1>2 DEF Answer
    <2>. DEFINE h == [req[r] EXCEPT !.code = code, !.usage = units]
    <2>2. units \in 0 .. 1 /\ (units = 0 \/ ~req[r].streams)
      BY <1>2
    <2>3. h \in Held /\ h.usage = units /\ h.streams = req[r].streams
      <3>1. h \in Held
        BY <1>1, <2>2, HeldNext
      <3>. QED BY <1>1, <3>1 DEF Held
    <2>. HIDE DEF h
    <2>4. Goto(r, "answered", h)
      BY <2>1 DEF h
    <2>5. req'[r].usage = units /\ req'[r].streams = req[r].streams
      BY <1>1, <2>3, <2>4, GotoMoves DEF Same
    <2>6. Told(req'[r]) = units
      BY <2>2, <2>5 DEF Told
    <2>. QED BY <2>1, <2>2, <2>6 DEF Tells
  <1>3. ASSUME NEW code \in Codes, PassOn(r, code)
        PROVE  UNCHANGED <<pending, logged>>
    BY <1>3 DEF PassOn
  <1>4. CASE \/ Arrive(r) \/ Route(r) \/ (\E wants, streams \in BOOLEAN : Send(r, wants, streams))
             \/ NoAnswer(r)
    BY <1>4 DEF Arrive, Route, Send, NoAnswer
  <1>5. CASE FirstAnswer(r)
    <2>1. pc[r] = "sent"
      BY <1>5 DEF FirstAnswer
    <2>2. req[r].usage = 0
      BY <2>1 DEF Served
    <2>3. \/ Answer(r, 200) /\ ~req[r].streams
          \/ Answer(r, 500)
          \/ Goto(r, "stream", req[r]) /\ RecordUsage(r, 0)
          \/ UNCHANGED <<pending, logged>>
      BY <1>5 DEF FirstAnswer, Success, PassOn
    <2>4. 200 \in Codes /\ 500 \in Codes /\ 500 # 200
      BY DEF Codes
    <2>5. ASSUME Goto(r, "stream", req[r]), RecordUsage(r, 0) PROVE Tells(r)
      <3>1. req'[r] = req[r]
        BY <2>5, GotoLeads DEF Ended
      <3>. QED BY <2>2, <2>5, <3>1 DEF Tells, Told
    <2>. QED BY <1>2, <2>1, <2>3, <2>4, <2>5
  <1>6. CASE RetryOrWait(r)
    <2>1. pc[r] \in {"unauthorized", "poll"}
      BY <1>6, RetryDoes
    <2>2. Answer(r, 401) \/ UNCHANGED <<pending, logged>>
      <3>1. \/ Answer(r, 401) \/ PassOn(r, 401) \/ Polls(r)
            \/ \E a \in ActiveIn(cache') : Resends(r, a)
        BY <1>6, RetryDoes
      <3>. QED BY <3>1 DEF PassOn, Polls, Resends
    <2>3. 401 \in Codes /\ 401 # 200
      BY DEF Codes
    <2>. QED BY <1>2, <2>1, <2>2, <2>3
  <1>7. CASE SecondAnswer(r)
    <2>1. pc[r] = "resent"
      BY <1>7 DEF SecondAnswer
    <2>2. PICK code \in Code(req[r].acct, req[r].sentAs, req[r].token) :
              IF req[r].streams THEN PassOn(r, code) ELSE Answer(r, code)
      BY <1>7 DEF SecondAnswer
    <2>3. code \in Codes
      BY DEF Code, Codes
    <2>. QED BY <1>2, <1>3, <2>1, <2>2, <2>3
  <1>8. CASE StreamEvent(r) \/ ClientStalls(r)
    <2>1. /\ UNCHANGED <<pending, logged>> /\ pc[r] \in {"stream", "reassemble"}
          /\ \E h \in {[req[r] EXCEPT !.usage = 1], [req[r] EXCEPT !.stalled = TRUE]} :
                Goto(r, pc[r], h)
      BY <1>8 DEF StreamEvent, ClientStalls
    <2>2. PICK h \in {[req[r] EXCEPT !.usage = 1], [req[r] EXCEPT !.stalled = TRUE]} :
              Goto(r, pc[r], h)
      BY <2>1
    <2>3. req'[r] = h /\ h.streams = req[r].streams /\ h.wants = req[r].wants
      BY <1>1, <2>1, <2>2, GotoLeads DEF Ended, Held
    <2>4. pc[r] = "stream" => Told(req'[r]) = 0
      BY <2>3 DEF Served, Live, Told
    <2>. QED BY <2>1, <2>4
  <1>9. CASE StreamEnds(r)
    <2>1. UNCHANGED <<pending, logged>> /\ pc[r] = "stream" /\ Goto(r, "answered", req[r])
      BY <1>9 DEF StreamEnds
    <2>2. Same(req[r], req'[r])
      BY <1>1, <2>1, GotoMoves
    <2>3. Told(req'[r]) = 0
      BY <2>1, <2>2 DEF Same, Served, Live, Told
    <2>. QED BY <2>1, <2>3
  <1>10. CASE ReassemblyEnds(r)
    <2>1. /\ pc[r] = "reassemble" /\ ~req[r].wants
          /\ \/ Goto(r, "answered", req[r]) /\ RecordUsage(r, req[r].usage)
             \/ UNCHANGED <<pending, logged>>
      BY <1>10 DEF ReassemblyEnds, Served
    <2>2. ASSUME Goto(r, "answered", req[r]), RecordUsage(r, req[r].usage) PROVE Tells(r)
      <3>1. Same(req[r], req'[r])
        BY <1>1, <2>2, GotoMoves
      <3>2. Told(req'[r]) = req[r].usage /\ req[r].usage \in 0 .. 1
        BY <1>1, <2>1, <3>1 DEF Same, Told, Held
      <3>. QED BY <2>2, <3>2 DEF Tells
    <2>. QED BY <2>1, <2>2
  <1>11. CASE ClientLeaves(r)
    <2>1. /\ UNCHANGED <<pending, logged>> /\ Goto(r, "left", req[r])
          /\ pc[r] \in Waiting \cup {"poll"}
      BY <1>11 DEF ClientLeaves
    <2>2. req'[r] = NewRequest
      BY <1>1, <2>1, GotoMoves DEF Ended
    <2>3. Told(req'[r]) = 0
      BY <2>2 DEF Told, NewRequest
    <2>4. pc[r] = "stream" \/ pc[r] \notin CountedPlaces
      BY <2>1 DEF Waiting
    <2>. QED BY <2>1, <2>3, <2>4
  <1>. QED BY <1>4, <1>5, <1>6, <1>7, <1>8, <1>9, <1>10, <1>11 DEF StepOf, Handle

\* Every step keeps the entries true.
LEMMA ToldStep ==
    ASSUME ToldInv, [ProxyNext]_proxyVars
    PROVE  ToldInv'
  <1>1. CountInv /\ SessionInv /\ RequestTypeOK /\ CountInv' /\ SessionInv'
    BY CountStep, SessionStep DEF ToldInv, CountInv
  <1>2. \A e \in Booked : e.of \in Requests /\ pc[e.of] \in CountedPlaces
    <2>1. ASSUME NEW e \in Booked PROVE e.of \in Of(pending) \cup Of(logged)
      BY DEF Booked, Of
    <2>2. ASSUME NEW e \in Booked PROVE e.of \in Requests
      <3>1. pending \in Seq(Entry) /\ logged \in Seq(Entry)
        BY <1>1 DEF RequestTypeOK
      <3>2. e \in Entry
        <4>1. \A s \in Seq(Entry) : \A i \in DOMAIN s : s[i] \in Entry
          OBVIOUS
        <4>. QED BY <3>1, <4>1 DEF Booked
      <3>. QED BY <3>2 DEF Entry
    <2>. QED BY <1>1, <2>1, <2>2 DEF CountInv
  <1>3. SUFFICES \A e \in Booked' : e.usage = Told(req'[e.of])
    BY <1>1 DEF ToldInv, Told
  <1>4. ASSUME NEW r \in Requests, StepOf(r)
        PROVE  \A e \in Booked' : e.usage = Told(req'[e.of])
    <2>1. \A q \in Requests : q # r => req'[q] = req[q]
      BY <1>1, <1>4, StepsAreLocal
    <2>2. Served(r)
      BY <1>1 DEF SessionInv
    <2>3. ASSUME NEW e \in Booked, e.of # r PROVE e.usage = Told(req'[e.of])
      BY <1>2, <2>1, <2>3 DEF ToldInv
    <2>4. CASE UNCHANGED <<pending, logged>> /\ pc[r] \notin CountedPlaces
      <3>1. Booked' = Booked
        BY <2>4 DEF Booked
      <3>. QED BY <1>2, <2>3, <2>4, <3>1
    <2>5. CASE UNCHANGED <<pending, logged>> /\ pc[r] = "stream" /\ Told(req'[r]) = 0
      <3>1. Booked' = Booked
        BY <2>5 DEF Booked
      <3>2. Told(req[r]) = 0
        BY <2>2, <2>5 DEF Served, Live, Told
      <3>. QED BY <2>3, <2>5, <3>1, <3>2 DEF ToldInv
    <2>6. CASE Tells(r) /\ pc[r] \notin CountedPlaces
      <3>1. PICK usage \in 0 .. 1 : RecordUsage(r, usage) /\ usage = Told(req'[r])
        BY <2>6 DEF Tells
      <3>2. Booked' \subseteq Booked \cup {[of |-> r, usage |-> usage]}
        BY <1>1, <3>1, RecordBooks
      <3>. QED BY <1>2, <2>3, <2>6, <3>1, <3>2
    <2>. QED BY <1>1, <1>4, <2>2, <2>4, <2>5, <2>6, WhatIsTold
  <1>5. ASSUME UNCHANGED req, Booked' \subseteq Booked
        PROVE  \A e \in Booked' : e.usage = Told(req'[e.of])
    BY <1>5 DEF ToldInv
  <1>6. CASE GetStats \/ Shutdown
    <2>1. UNCHANGED req /\ \E ok \in BOOLEAN : Flush(pending, ok)
      <3>1. Shutdown => Flush(pending, FALSE)
        BY DEF Shutdown, Flush
      <3>. QED BY <1>6, <3>1 DEF GetStats, Shutdown
    <2>2. pending \in Seq(Entry) /\ logged \in Seq(Entry)
      BY <1>1 DEF RequestTypeOK
    <2>3. Booked' \subseteq {pending[i] : i \in DOMAIN pending} \cup {logged[i] : i \in DOMAIN logged}
      BY <2>1, <2>2, FlushBooks
    <2>4. Booked' \subseteq Booked
      BY <2>3 DEF Booked
    <2>. QED BY <1>5, <2>1, <2>4
  <1>7. CASE \/ \E a \in Accounts : RotateToken(a) \/ StoreToken(a)
             \/ \E a \in Accounts \cup {NoAccount} : SwitchActive(a)
             \/ BackgroundReload \/ Tick \/ UNCHANGED proxyVars
    <2>1. UNCHANGED <<req, pending, logged>>
      BY <1>7 DEF RotateToken, StoreToken, SwitchActive, WriteFile, BackgroundReload, Tick,
                  proxyVars, accounting
    <2>. QED BY <1>5, <2>1 DEF Booked
  <1>. QED BY <1>4, <1>6, <1>7 DEF ProxyNext, StepOf

\* Every success that a client got the whole of is in the usage records once, with the usage
\* that it reported unless it is a live stream, and no request is there twice, across flushes,
\* retries and streams (record and flush_locked of api_usage.rs as handler.rs calls them), for
\* any number of requests and whatever the size that forces a flush.
THEOREM UsageIsCountedOnce == ProxySpec => []CountedOnce
  <1>1. ProxyInit => ToldInv
    <2>. SUFFICES ASSUME ProxyInit PROVE ToldInv
      OBVIOUS
    <2>1. CountInv /\ SessionInv
      BY CountInit, SessionInit
    <2>. QED BY <2>1 DEF ProxyInit, ToldInv, Booked
  <1>2. ToldInv => CountedOnce
    <2>. SUFFICES ASSUME ToldInv PROVE CountedOnce
      OBVIOUS
    <2>1. ASSUME NEW r \in Requests
          PROVE  /\ Entries(r) <= 1
                 /\ pc[r] = "answered" /\ req[r].code = 200 /\ Entries(r) = 0
                      => r \in dropped \/ (req[r].streams /\ req[r].again)
      <3>1. Entries(r) = (IF r \in Of(pending) THEN 1 ELSE 0) + (IF r \in Of(logged) THEN 1 ELSE 0)
        BY EntriesOnce DEF Entries, ToldInv, CountInv, RequestTypeOK
      <3>2. ~ (r \in Of(pending) /\ r \in Of(logged))
        BY DEF ToldInv, CountInv
      <3>. QED BY <3>1, <3>2 DEF ToldInv, CountInv, Recorded
    <2>2. \A i \in DOMAIN logged : logged[i].usage = Told(req[logged[i].of])
      BY DEF ToldInv, Booked
    <2>. QED BY <2>1, <2>2 DEF CountedOnce
  <1>. QED BY <1>1, <1>2, ToldStep, PTL DEF ProxySpec

-----------------------------------------------------------------------------
(* Translation and impersonation.                                          *)

\* A profile has nothing in it but what native clients sent.
LearnedFromNative(data) ==
    \A h \in DOMAIN data.samples : data.samples[h].latest \in Native

NativeInv ==
    /\ profile # NoProfile => LearnedFromNative(profile)
    /\ file \notin {NoProfile, Torn} => LearnedFromNative(file)

\* A request is captured if its client is a native one, and then its headers are that's.
LEMMA MergeLearns ==
    ASSUME NEW old, NEW client \in Native, NEW headers, NEW body,
           old # NoProfile => LearnedFromNative(old)
    PROVE  LearnedFromNative(Merged(old, client, headers, body))
  <1>. DEFINE data == IF old = NoProfile THEN EmptyProfile ELSE old
              kept == Captured(headers)
              Seen(h) == Sampled(IF h \in DOMAIN data.samples THEN data.samples[h].seen ELSE <<>>, client)
              samples == [h \in DOMAIN data.samples \cup kept |->
                             IF h \in kept THEN [latest |-> client, seen |-> Seen(h)]
                             ELSE data.samples[h]]
  <1>1. LearnedFromNative(data)
    <2>1. DOMAIN EmptyProfile.samples = {}
      BY DEF EmptyProfile
    <2>. QED BY <2>1 DEF LearnedFromNative
  <1>2. Merged(old, client, headers, body).samples = samples
    BY DEF Merged
  <1>3. ASSUME NEW h \in DOMAIN samples PROVE samples[h].latest \in Native
    <2>. HIDE DEF data, kept, Seen
    <2>1. CASE h \in kept
      BY <2>1
    <2>2. CASE h \notin kept
      BY <1>1, <2>2 DEF LearnedFromNative
    <2>. QED BY <2>1, <2>2
  <1>. HIDE DEF samples
  <1>. QED BY <1>2, <1>3 DEF LearnedFromNative

\* What a capture, a flush and a start do to the profile and its file.
LEMMA NativeStep ==
    ASSUME NativeInv, [TranslationNext]_translationVars
    PROVE  NativeInv'
  <1>1. ASSUME NEW r, NEW provider, NEW oauth, Forward(r, provider, oauth) PROVE NativeInv'
    <2>. DEFINE body == ToAnthropic(r.fmt, r)
    <2>1. Capture(r.client, r.headers, body)
      BY <1>1 DEF Forward
    <2>. HIDE DEF body
    <2>2. CASE AutoCapture /\ Known(r.client)
      <3>1. profile' = Merged(profile, r.client, r.headers, body) /\ file' = file
        BY <2>1, <2>2 DEF Capture
      <3>2. LearnedFromNative(Merged(profile, r.client, r.headers, body))
        <4>1. r.client \in Native
          BY <2>2 DEF Known
        <4>2. profile # NoProfile => LearnedFromNative(profile)
          BY DEF NativeInv
        <4>. QED BY <4>1, <4>2, MergeLearns
      <3>3. LearnedFromNative(profile')
        BY <3>1, <3>2
      <3>. QED BY <3>1, <3>3 DEF NativeInv, LearnedFromNative
    <2>3. CASE ~ (AutoCapture /\ Known(r.client))
      BY <2>1, <2>3 DEF Capture, profiles, NativeInv, LearnedFromNative
    <2>. QED BY <2>2, <2>3
  <1>2. CASE FlushCapture
    BY <1>2 DEF FlushCapture, FlushProfiles, NativeInv, LearnedFromNative
  <1>3. CASE Restart
    BY <1>3 DEF Restart, LoadProfiles, NativeInv, LearnedFromNative
  <1>4. ASSUME UNCHANGED profiles PROVE NativeInv'
    BY <1>4 DEF profiles, NativeInv, LearnedFromNative
  <1>5. ASSUME NEW m, AnswerWhole(m) \/ ResentStream(m) \/ StreamOpens(m) PROVE NativeInv'
    BY <1>4, <1>5 DEF AnswerWhole, ResentStream, StreamOpens
  <1>6. ASSUME NEW upto, NEW cut, NEW fits, ChunkArrives(upto, cut, fits) PROVE NativeInv'
    BY <1>4, <1>6 DEF ChunkArrives
  <1>7. CASE Refused \/ AnswerEnds \/ StreamBreaks \/ NextRequest \/ UNCHANGED translationVars
    BY <1>4, <1>7 DEF Refused, AnswerEnds, StreamBreaks, NextRequest, translationVars
  <1>. QED BY <1>1, <1>2, <1>3, <1>5, <1>6, <1>7 DEF TranslationNext

\* Only Forward begins a request.
LEMMA SentBy ==
    ASSUME [TranslationNext]_translationVars, phase' = "sent"
    PROVE  \/ \E r \in Asks, provider \in {"anthropic", "gemini"}, oauth \in BOOLEAN :
                Forward(r, provider, oauth)
           \/ phase = "sent" /\ UNCHANGED <<asked, sent>>
  <1>1. ASSUME NEW m, AnswerWhole(m) \/ ResentStream(m) \/ StreamOpens(m) PROVE FALSE
    BY <1>1 DEF AnswerWhole, ResentStream, StreamOpens, Done
  <1>2. ASSUME NEW upto, NEW cut, NEW fits, ChunkArrives(upto, cut, fits) PROVE FALSE
    BY <1>2 DEF ChunkArrives
  <1>3. CASE Refused \/ AnswerEnds \/ StreamBreaks \/ NextRequest
    BY <1>3 DEF Refused, AnswerEnds, StreamBreaks, NextRequest, Done
  <1>4. CASE FlushCapture \/ Restart
    BY <1>4 DEF FlushCapture, Restart
  <1>5. CASE UNCHANGED translationVars
    BY <1>5 DEF translationVars
  <1>. QED BY <1>1, <1>2, <1>3, <1>4, <1>5 DEF TranslationNext

\* The profile that a request is made of has nothing but what native clients sent.
LEMMA ProfileLearned ==
    ASSUME NativeInv, NativeInv', NEW provider
    PROVE  ProfileFor(provider, profile') # NoProfile
              => LearnedFromNative(ProfileFor(provider, profile'))
  BY DEF ProfileFor, Readable, NativeInv

\* What is made of a request with such a profile has no header of its client.
LEMMA NothingOwn ==
    ASSUME NEW client, NEW headers, NEW body, NEW data, ImpersonatedAs(client),
           data # NoProfile => LearnedFromNative(data)
    PROVE  LET out == Sanitized(Processed(client, headers, body, data)).headers
           IN  \A h \in DOMAIN out : out[h] \in Native \cup {"built-in"}
  <1>. DEFINE made == Processed(client, headers, body, data)
              out == Sanitized(made).headers
  <1>1. \A h \in DOMAIN made.headers : made.headers[h] \in Native \cup {"built-in"}
    <2>1. CASE data = NoProfile
      <3>1. made.headers = Fallback
        BY <2>1 DEF Processed
      <3>. HIDE DEF made
      <3>. QED BY <3>1 DEF Fallback
    <2>2. CASE data # NoProfile
      <3>1. made.headers = ProfileHeaders(data)
        BY <2>2 DEF Processed
      <3>. HIDE DEF made
      <3>. QED BY <2>2, <3>1 DEF ProfileHeaders, LearnedFromNative
    <2>. QED BY <2>1, <2>2
  <1>. HIDE DEF made
  <1>2. out = [h \in DOMAIN made.headers \cap Outbound |-> made.headers[h]]
    BY DEF Sanitized
  <1>. HIDE DEF out
  <1>3. \A h \in DOMAIN out : out[h] \in Native \cup {"built-in"}
    BY <1>1, <1>2
  <1>. QED BY <1>3 DEF out, made

\* No step sends a header of the client's own for a client that is impersonated.
LEMMA OwnStep ==
    ASSUME NativeInv, NoOwnHeaders, [TranslationNext]_translationVars
    PROVE  NoOwnHeaders'
  <1>1. CASE phase' # "sent"
    BY <1>1 DEF NoOwnHeaders
  <1>2. CASE phase = "sent" /\ UNCHANGED <<phase, asked, sent>>
    BY <1>2 DEF NoOwnHeaders, ImpersonatedAs, Known
  <1>3. ASSUME NEW r, NEW provider, NEW oauth, Forward(r, provider, oauth) PROVE NoOwnHeaders'
    <2>. DEFINE body == ToAnthropic(r.fmt, r)
                made == Processed(r.client, r.headers, body, ProfileFor(provider, profile'))
                out == Sanitized(made)
                all == [h \in DOMAIN out.headers \cup {"content-type"} |->
                           IF h # "content-type" THEN out.headers[h]
                           ELSE IF h \in r.headers THEN r.client ELSE "built-in"]
                flag == IF oauth /\ provider = "anthropic" THEN OauthFlag(r, made.headers) ELSE {}
    <2>1. asked' = r
      BY <1>3 DEF Forward, Accept
    <2>2. sent'.headers = all /\ sent'.flag = flag
      <3>. HIDE DEF all, flag
      <3>1. sent' = [headers |-> all, flag |-> flag, body |-> out.body, model |-> Resolve(r.model),
                     wants |-> body.stream]
        BY <1>3 DEF Forward, all, flag
      <3>. QED BY <3>1
    <2>3. ASSUME ImpersonatedAs(r.client)
          PROVE  \A h \in DOMAIN out.headers : out.headers[h] \in Native \cup {"built-in"}
      <3>1. PICK data : data = ProfileFor(provider, profile')
        OBVIOUS
      <3>2. data # NoProfile => LearnedFromNative(data)
        BY <3>1, NativeStep, ProfileLearned
      <3>3. LET kept == Sanitized(Processed(r.client, r.headers, body, data)).headers
            IN  \A h \in DOMAIN kept : kept[h] \in Native \cup {"built-in"}
        <4>. HIDE DEF body
        <4>. QED BY <2>3, <3>2, NothingOwn
      <3>. QED BY <3>1, <3>3
    <2>4. ASSUME r.client \in flag, "anthropic-beta" \in DOMAIN all
          PROVE  all["anthropic-beta"] \notin Flagged
      <3>. HIDE DEF made
      <3>1. out.headers = [h \in DOMAIN made.headers \cap Outbound |-> made.headers[h]]
        BY DEF Sanitized
      <3>. HIDE DEF out
      <3>2. "anthropic-beta" \in DOMAIN out.headers /\ all["anthropic-beta"] = out.headers["anthropic-beta"]
        BY <2>4
      <3>3. "anthropic-beta" \in DOMAIN made.headers /\ all["anthropic-beta"] = made.headers["anthropic-beta"]
        BY <3>1, <3>2
      <3>4. r.client \in OauthFlag(r, made.headers)
        BY <2>4
      <3>. HIDE DEF all, flag
      <3>5. ~("anthropic-beta" \in DOMAIN made.headers /\ made.headers["anthropic-beta"] \in Flagged)
        BY <3>4 DEF OauthFlag
      <3>. QED BY <3>3, <3>5
    <2>5. ASSUME ImpersonatedAs(r.client), NEW h \in DOMAIN all \ {"content-type"}
          PROVE  all[h] \in Native \cup {"built-in"}
      <3>. HIDE DEF out
      <3>. QED BY <2>3, <2>5
    <2>. HIDE DEF all, flag
    <2>. QED BY <2>1, <2>2, <2>4, <2>5 DEF NoOwnHeaders, ImpersonatedAs, Known
  <1>4. phase' = "sent" /\ phase = "sent" => UNCHANGED phase
    OBVIOUS
  <1>. QED BY <1>1, <1>2, <1>3, <1>4, SentBy

\* A client that is impersonated sends none of its own headers, but for the content type and
\* its oauth flag where the native client's header brings none (process_request,
\* apply_impersonation and ensure_oauth_beta), however the profile came to be, for any
\* clients, headers, samples kept and requests, and whatever crash and failed write the
\* profile's file has been through.
THEOREM NothingLeaks == TranslationSpec => []NoOwnHeaders
  <1>1. TranslationInit => NativeInv /\ NoOwnHeaders
    BY DEF TranslationInit, NativeInv, NoOwnHeaders
  <1>. QED BY <1>1, NativeStep, OwnStep, PTL DEF TranslationSpec

-----------------------------------------------------------------------------
(* What is asked.                                                          *)

\* The body of a request, in the form of Anthropic.
Body(turns, system, form, stream, fields) ==
    [turns |-> turns, system |-> system, form |-> form, stream |-> stream, fields |-> fields]

\* What is made of a body keeps what was said, and asks for a stream if that did; if that
\* did not, only because another client is impersonated.
LEMMA BodyKept ==
    ASSUME NEW client, NEW headers, NEW turns, NEW system, NEW form, NEW stream, NEW fields,
           NEW data
    PROVE  LET body == Body(turns, system, form, stream, fields)
               out == Sanitized(Processed(client, headers, body, data)).body
           IN  /\ out.turns = turns /\ out.system = system
               /\ stream => out.stream
               /\ out.stream => stream \/ ImpersonatedAs(client)
  <1>. DEFINE body == Body(turns, system, form, stream, fields)
              made == Processed(client, headers, body, data).body
              out == Sanitized(Processed(client, headers, body, data)).body
  <1>1. \/ made = body
        \/ made = Rewritten(body, data) /\ ImpersonatedAs(client)
    BY DEF Processed
  <1>2. out = [made EXCEPT !.fields = @ \ ForbiddenFields]
    BY DEF Sanitized
  <1>3. CASE made = body
    <2>1. out = Body(turns, system, form, stream, fields \ ForbiddenFields)
      BY <1>2, <1>3 DEF Body
    <2>. HIDE DEF out
    <2>2. out.turns = turns /\ out.system = system /\ out.stream = stream
      BY <2>1 DEF Body
    <2>. QED BY <2>2 DEF out
  <1>4. CASE made = Rewritten(body, data) /\ ImpersonatedAs(client)
    <2>1. made = Body(turns, system, IF data.system = "array" /\ form = "string" THEN "array" ELSE form,
                      stream \/ data.streams, fields \cap data.fields)
      BY <1>4 DEF Rewritten, Body
    <2>. HIDE DEF made
    <2>2. out = Body(turns, system, IF data.system = "array" /\ form = "string" THEN "array" ELSE form,
                     stream \/ data.streams, (fields \cap data.fields) \ ForbiddenFields)
      BY <1>2, <2>1 DEF Body
    <2>. HIDE DEF out
    <2>3. out.turns = turns /\ out.system = system /\ out.stream = (stream \/ data.streams)
      BY <2>2 DEF Body
    <2>. QED BY <1>4, <2>3 DEF out
  <1>. QED BY <1>1, <1>3, <1>4

\* Turns are what was said, by the assistant or not.
LEMMA TurnsSaid ==
    ASSUME NEW turns, NEW assistant
    PROVE  /\ Said(AsTurns(turns, assistant)) = Said(turns)
           /\ \A i \in DOMAIN turns :
                 (turns[i].who = assistant) <=> (AsTurns(turns, assistant)[i].who = "assistant")
  <1>. DEFINE as == AsTurns(turns, assistant)
  <1>1. /\ DOMAIN as = DOMAIN turns
        /\ \A i \in DOMAIN turns : /\ as[i].text = turns[i].text
                                   /\ (turns[i].who = assistant) <=> (as[i].who = "assistant")
    BY DEF AsTurns
  <1>. HIDE DEF as
  <1>2. Said(as) = Said(turns)
    BY <1>1 DEF Said
  <1>. QED BY <1>1, <1>2 DEF as

\* The body in the form of Anthropic says what the client's does.
LEMMA BodySays ==
    ASSUME NEW r
    PROVE  \E turns, system, form, stream, fields :
              /\ ToAnthropic(r.fmt, r) = Body(turns, system, form, stream, fields)
              /\ LET said == By(r.turns, "system")
                     others == NotBy(r.turns, "system")
                     assistant == IF r.fmt = "gemini" THEN "model" ELSE "assistant"
                 IN  /\ turns = AsTurns(others, assistant)
                     /\ r.fmt # "gemini" /\ (\A i \in DOMAIN said : said[i].plain)
                           => system = Said(said)
                     /\ r.fmt = "gemini" => system = Said(FirstOf(said))
  <1>. DEFINE said == By(r.turns, "system")
              others == NotBy(r.turns, "system")
  <1>1. CASE r.fmt = "openai"
    <2>. DEFINE strings == [i \in DOMAIN said |-> IF said[i].plain THEN said[i].text ELSE ""]
                form == IF said = <<>> THEN "" ELSE "array"
    <2>1. ToAnthropic(r.fmt, r) = Body(AsTurns(others, "assistant"), strings, form, r.stream,
                                       r.fields \cap {"temperature"})
      BY <1>1 DEF ToAnthropic, FromOpenai, Body
    <2>. HIDE DEF said
    <2>2. (\A i \in DOMAIN said : said[i].plain) => strings = Said(said)
      BY DEF Said
    <2>. HIDE DEF strings, form
    <2>. QED BY <1>1, <2>1, <2>2 DEF said
  <1>2. CASE r.fmt = "gemini"
    <2>. DEFINE form == IF said = <<>> THEN "" ELSE "string"
    <2>1. ToAnthropic(r.fmt, r) = Body(AsTurns(others, "model"), Said(FirstOf(said)), form, FALSE,
                                       r.fields \cap {"temperature"})
      BY <1>2 DEF ToAnthropic, FromGemini, Body
    <2>. HIDE DEF form
    <2>. QED BY <1>2, <2>1
  <1>3. CASE r.fmt # "openai" /\ r.fmt # "gemini"
    <2>. DEFINE form == CASE Len(said) = 0 -> "" [] Len(said) = 1 -> "string" [] OTHER -> "array"
    <2>1. ToAnthropic(r.fmt, r) = Body(AsTurns(others, "assistant"), Said(said), form, r.stream,
                                       r.fields)
      BY <1>3 DEF ToAnthropic, Body
    <2>. HIDE DEF form
    <2>. QED BY <1>3, <2>1
  <1>. QED BY <1>1, <1>2, <1>3

\* What goes out of a request says what came in.
LEMMA AskedStep ==
    ASSUME AskedIsSent, [TranslationNext]_translationVars
    PROVE  AskedIsSent'
  <1>1. CASE phase' # "sent"
    BY <1>1 DEF AskedIsSent
  <1>2. CASE phase = "sent" /\ UNCHANGED <<asked, sent>>
    BY <1>2 DEF AskedIsSent, ImpersonatedAs, Known
  <1>3. ASSUME NEW r, NEW provider, NEW oauth, Forward(r, provider, oauth) PROVE AskedIsSent'
    <2>. DEFINE out == Sanitized(Processed(r.client, r.headers, ToAnthropic(r.fmt, r),
                                           ProfileFor(provider, profile')))
                all == [h \in DOMAIN out.headers \cup {"content-type"} |->
                           IF h # "content-type" THEN out.headers[h]
                           ELSE IF h \in r.headers THEN r.client ELSE "built-in"]
                flag == IF oauth /\ provider = "anthropic"
                        THEN OauthFlag(r, Processed(r.client, r.headers, ToAnthropic(r.fmt, r),
                                                    ProfileFor(provider, profile')).headers)
                        ELSE {}
    <2>1. asked' = r
      BY <1>3 DEF Forward, Accept
    <2>2. sent'.body = out.body /\ sent'.wants = ToAnthropic(r.fmt, r).stream
      <3>. HIDE DEF all, flag
      <3>1. sent' = [headers |-> all, flag |-> flag, body |-> out.body, model |-> Resolve(r.model),
                     wants |-> ToAnthropic(r.fmt, r).stream]
        BY <1>3 DEF Forward, all, flag
      <3>. HIDE DEF out
      <3>. QED BY <3>1
    <2>. DEFINE said == By(r.turns, "system")
                others == NotBy(r.turns, "system")
                assistant == IF r.fmt = "gemini" THEN "model" ELSE "assistant"
    <2>3. PICK turns, system, form, stream, fields :
              /\ ToAnthropic(r.fmt, r) = Body(turns, system, form, stream, fields)
              /\ turns = AsTurns(others, assistant)
              /\ r.fmt # "gemini" /\ (\A i \in DOMAIN said : said[i].plain)
                    => system = Said(said)
              /\ r.fmt = "gemini" => system = Said(FirstOf(said))
      BY BodySays
    <2>4. PICK data : data = ProfileFor(provider, profile')
      OBVIOUS
    <2>5. LET body == Body(turns, system, form, stream, fields)
              made == Sanitized(Processed(r.client, r.headers, body, data)).body
          IN  /\ made.turns = turns /\ made.system = system
              /\ stream => made.stream
              /\ made.stream => stream \/ ImpersonatedAs(r.client)
      BY BodyKept
    <2>6. /\ out.body.turns = turns /\ out.body.system = system
          /\ stream => out.body.stream
          /\ out.body.stream => stream \/ ImpersonatedAs(r.client)
      BY <2>3, <2>4, <2>5
    <2>7. sent'.wants = stream
      <3>1. Body(turns, system, form, stream, fields).stream = stream
        BY DEF Body
      <3>. QED BY <2>2, <2>3, <3>1
    <2>8. /\ Said(turns) = Said(others)
          /\ \A i \in DOMAIN others : (others[i].who = assistant) <=> (turns[i].who = "assistant")
      <3>. HIDE DEF others, assistant
      <3>. QED BY <2>3, TurnsSaid
    <2>. HIDE DEF out, said, others, assistant
    <2>9. /\ Said(sent'.body.turns) = Said(others)
          /\ \A i \in DOMAIN others :
                (others[i].who = assistant) <=> (sent'.body.turns[i].who = "assistant")
          /\ r.fmt # "gemini" /\ (\A i \in DOMAIN said : said[i].plain)
                => sent'.body.system = Said(said)
          /\ r.fmt = "gemini" => sent'.body.system = Said(FirstOf(said))
      BY <2>2, <2>3, <2>6, <2>8
    <2>10. /\ sent'.wants => sent'.body.stream
           /\ sent'.body.stream => sent'.wants \/ ImpersonatedAs(r.client)
      BY <2>2, <2>6, <2>7
    <2>. QED BY <2>1, <2>9, <2>10 DEF AskedIsSent, said, others, assistant, ImpersonatedAs, Known
  <1>4. phase' = "sent" /\ phase = "sent" => UNCHANGED phase
    OBVIOUS
  <1>. QED BY <1>1, <1>2, <1>3, <1>4, SentBy

\* What was said goes out in its order, to the right parts, whatever the format, the
\* profile and the length of the conversation (translate_request_to_anthropic,
\* process_request), but for the system messages that the code drops.
THEOREM NothingIsMissaid == TranslationSpec => []AskedIsSent
  <1>1. TranslationInit => AskedIsSent
    BY DEF TranslationInit, AskedIsSent
  <1>. QED BY <1>1, AskedStep, PTL DEF TranslationSpec

-----------------------------------------------------------------------------
(* The profile and its file.                                               *)

\* A profile that is not dirty is what a start would load: a save that failed, or half
\* failed, is not believed (flush_cache_count of cc_profile.rs), whatever is captured, and
\* however often the proxy stops or crashes.
THEOREM SavedIsBelieved == TranslationSpec => []CleanIsOnDisk
  <1>1. TranslationInit => CleanIsOnDisk
    BY DEF TranslationInit, CleanIsOnDisk
  <1>2. ASSUME CleanIsOnDisk, [TranslationNext]_translationVars PROVE CleanIsOnDisk'
    <2>1. ASSUME NEW r, NEW provider, NEW oauth, Forward(r, provider, oauth) PROVE CleanIsOnDisk'
      <3>1. Capture(r.client, r.headers, ToAnthropic(r.fmt, r))
        BY <2>1 DEF Forward
      <3>. QED BY <1>2, <3>1 DEF Capture, CleanIsOnDisk, profiles
    <2>2. CASE FlushCapture
      BY <1>2, <2>2 DEF FlushCapture, FlushProfiles, CleanIsOnDisk
    <2>3. CASE Restart
      BY <1>2, <2>3 DEF Restart, LoadProfiles, CleanIsOnDisk
    <2>4. ASSUME UNCHANGED profiles PROVE CleanIsOnDisk'
      BY <1>2, <2>4 DEF profiles, CleanIsOnDisk
    <2>5. ASSUME NEW m, AnswerWhole(m) \/ ResentStream(m) \/ StreamOpens(m) PROVE CleanIsOnDisk'
      BY <2>4, <2>5 DEF AnswerWhole, ResentStream, StreamOpens
    <2>6. ASSUME NEW upto, NEW cut, NEW fits, ChunkArrives(upto, cut, fits) PROVE CleanIsOnDisk'
      BY <2>4, <2>6 DEF ChunkArrives
    <2>7. CASE Refused \/ AnswerEnds \/ StreamBreaks \/ NextRequest \/ UNCHANGED translationVars
      BY <2>4, <2>7 DEF Refused, AnswerEnds, StreamBreaks, NextRequest, translationVars
    <2>. QED BY <1>2, <2>1, <2>2, <2>3, <2>5, <2>6, <2>7 DEF TranslationNext
  <1>. QED BY <1>1, <1>2, PTL DEF TranslationSpec

-----------------------------------------------------------------------------
(* Sequences, flattened and folded.                                        *)

\* Induction over sequences: P is the set of those of which it holds.
LEMMA SequenceInduction ==
    ASSUME NEW S, NEW P, <<>> \in P,
           \A s \in Seq(S), e \in S : s \in P => Append(s, e) \in P
    PROVE  Seq(S) \subseteq P
  <1>. DEFINE Q == {n \in Nat : \A s \in Seq(S) : Len(s) = n => s \in P}
  <1>1. 0 \in Q
    <2>1. \A s \in Seq(S) : Len(s) = 0 => s = <<>>
      BY EmptySeq
    <2>. QED BY <2>1
  <1>2. ASSUME NEW n \in Nat, n \in Q PROVE n + 1 \in Q
    <2>1. ASSUME NEW s \in Seq(S), Len(s) = n + 1 PROVE s \in P
      <3>1. s # <<>>
        BY <2>1, EmptySeq
      <3>2. PICK t \in Seq(S), e \in S : s = Append(t, e)
        BY <3>1, SequenceEmptyOrAppend
      <3>3. Len(s) = Len(t) + 1 /\ Len(t) \in Nat
        BY <3>2, AppendProperties, LenProperties
      <3>4. t \in P
        BY <1>2, <2>1, <3>3
      <3>. QED BY <3>2, <3>4
    <2>. QED BY <2>1
  <1>3. Nat \subseteq Q
    <2>. HIDE DEF Q
    <2>. QED BY <1>1, <1>2, NumberInduction
  <1>. QED BY <1>3, LenProperties

\* What FlattenSeq goes through: its beginnings, flattened.
Flats(s, f) == f = [i \in 1 .. Len(s) |-> IF i = 1 THEN s[i] ELSE f[i - 1] \o s[i]]
FlatOf(s) == CHOOSE f : Flats(s, f)

\* Flattened, a sequence is the last of them.
LEMMA FlattenIs ==
    ASSUME NEW s
    PROVE  FlattenSeq(s) = IF Len(s) = 0 THEN s ELSE FlatOf(s)[Len(s)]
  BY DEF FlattenSeq, FlatOf, Flats

\* There is such a function of any sequence.
LEMMA FlatsExist ==
    ASSUME NEW S, NEW s \in Seq(S)
    PROVE  Flats(s, FlatOf(s))
  <1>. DEFINE P == {t \in Seq(S) : \E f : Flats(t, f)}
  <1>1. <<>> \in P
    <2>1. Flats(<<>>, [i \in 1 .. 0 |-> 0])
      BY DEF Flats
    <2>. QED BY <2>1
  <1>2. ASSUME NEW t \in Seq(S), NEW e \in S, t \in P PROVE Append(t, e) \in P
    <2>1. PICK f : Flats(t, f)
      BY <1>2
    <2>. DEFINE n == Len(t)
                u == Append(t, e)
                g == [i \in 1 .. n + 1 |-> IF i = n + 1 THEN (IF n = 0 THEN e ELSE f[n] \o e) ELSE f[i]]
    <2>2. /\ n \in Nat /\ Len(u) = n + 1 /\ u \in Seq(S)
          /\ \A i \in 1 .. n : u[i] = t[i]
          /\ u[n + 1] = e
      BY AppendProperties, LenProperties
    <2>. HIDE DEF u, n
    <2>3. ASSUME NEW i \in 1 .. n + 1 PROVE g[i] = IF i = 1 THEN u[i] ELSE g[i - 1] \o u[i]
      <3>1. CASE i = n + 1
        <4>1. CASE n = 0
          BY <3>1, <4>1, <2>2
        <4>2. CASE n # 0
          <5>1. g[i - 1] = f[n] /\ g[i] = f[n] \o e
            BY <3>1, <4>2, <2>2
          <5>. HIDE DEF g
          <5>. QED BY <3>1, <4>2, <5>1, <2>2
        <4>. QED BY <4>1, <4>2
      <3>2. CASE i # n + 1
        <4>1. i \in 1 .. n /\ g[i] = f[i] /\ u[i] = t[i]
          BY <3>2, <2>2
        <4>2. f[i] = IF i = 1 THEN t[i] ELSE f[i - 1] \o t[i]
          BY <2>1, <4>1 DEF Flats, n
        <4>3. i # 1 => g[i - 1] = f[i - 1]
          BY <4>1, <2>2
        <4>. HIDE DEF g
        <4>. QED BY <4>1, <4>2, <4>3
      <3>. QED BY <3>1, <3>2
    <2>4. g = [i \in 1 .. n + 1 |-> g[i]]
      OBVIOUS
    <2>. HIDE DEF g
    <2>5. g = [i \in 1 .. n + 1 |-> IF i = 1 THEN u[i] ELSE g[i - 1] \o u[i]]
      BY <2>3, <2>4
    <2>6. Flats(u, g)
      BY <2>5, <2>2 DEF Flats
    <2>. QED BY <2>2, <2>6 DEF u
  <1>3. s \in P
    <2>. HIDE DEF P
    <2>. QED BY <1>1, <1>2, SequenceInduction
  <1>. QED BY <1>3 DEF FlatOf

\* And what it is at each place.
LEMMA FlatAt ==
    ASSUME NEW S, NEW s \in Seq(S)
    PROVE  /\ Len(s) > 0 => FlatOf(s)[1] = s[1]
           /\ \A i \in 1 .. Len(s) - 1 : FlatOf(s)[i + 1] = FlatOf(s)[i] \o s[i + 1]
  <1>1. PICK f : f = FlatOf(s)
    OBVIOUS
  <1>2. f = [i \in 1 .. Len(s) |-> IF i = 1 THEN s[i] ELSE f[i - 1] \o s[i]]
    BY <1>1, FlatsExist, Zenon DEF Flats
  <1>3. \A i \in 1 .. Len(s) : f[i] = IF i = 1 THEN s[i] ELSE f[i - 1] \o s[i]
    BY <1>2, Zenon
  <1>4. Len(s) \in Nat
    BY LenProperties
  <1>5. Len(s) > 0 => f[1] = s[1]
    BY <1>3, <1>4
  <1>6. ASSUME NEW i \in 1 .. Len(s) - 1 PROVE f[i + 1] = f[i] \o s[i + 1]
    <2>1. PICK j \in 1 .. Len(s) : j = i + 1 /\ j # 1 /\ j - 1 = i
      BY <1>4
    <2>2. f[j] = f[j - 1] \o s[j]
      BY <1>3, <2>1, Zenon
    <2>. QED BY <2>1, <2>2, Zenon
  <1>. QED BY <1>1, <1>5, <1>6, Zenon

\* The flattened sequence of one more.
LEMMA FlattenAppend ==
    ASSUME NEW S, NEW s \in Seq(Seq(S)), NEW e \in Seq(S)
    PROVE  /\ FlattenSeq(s) \in Seq(S)
           /\ FlattenSeq(Append(s, e)) = FlattenSeq(s) \o e
  <1>. DEFINE P == {t \in Seq(Seq(S)) : FlattenSeq(t) \in Seq(S)}
  <1>1. ASSUME NEW t \in Seq(Seq(S)), NEW x \in Seq(S), FlattenSeq(t) \in Seq(S)
        PROVE  FlattenSeq(Append(t, x)) = FlattenSeq(t) \o x
    <2>. DEFINE n == Len(t)
                u == Append(t, x)
                f == FlatOf(t)
                g == FlatOf(u)
    <2>1. /\ n \in Nat /\ Len(u) = n + 1 /\ u \in Seq(Seq(S))
          /\ \A i \in 1 .. n : u[i] = t[i]
          /\ u[n + 1] = x
          /\ n = 0 => t = <<>>
      BY AppendProperties, LenProperties, EmptySeq
    <2>2. /\ n > 0 => f[1] = t[1]
          /\ \A i \in 1 .. n - 1 : f[i + 1] = f[i] \o t[i + 1]
          /\ g[1] = u[1]
          /\ \A i \in 1 .. n : g[i + 1] = g[i] \o u[i + 1]
      <3>1. Len(u) > 0 /\ Len(u) - 1 = n
        BY <2>1
      <3>. HIDE DEF u, f, g
      <3>2. /\ Len(u) > 0 => g[1] = u[1]
            /\ \A i \in 1 .. Len(u) - 1 : g[i + 1] = g[i] \o u[i + 1]
        BY <2>1, FlatAt DEF g
      <3>3. /\ n > 0 => f[1] = t[1]
            /\ \A i \in 1 .. n - 1 : f[i + 1] = f[i] \o t[i + 1]
        BY FlatAt DEF f
      <3>. QED BY <3>1, <3>2, <3>3
    <2>3. /\ FlattenSeq(u) = IF Len(u) = 0 THEN u ELSE g[Len(u)]
          /\ FlattenSeq(t) = IF n = 0 THEN t ELSE f[n]
      BY FlattenIs
    <2>. HIDE DEF f, g, u, n
    <2>4. g[n + 1] = IF n = 0 THEN x ELSE g[n] \o x
      <3>1. CASE n = 0
        BY <2>1, <2>2, <3>1
      <3>2. CASE n # 0
        <4>1. n \in 1 .. n
          BY <2>1, <3>2
        <4>. QED BY <2>1, <2>2, <3>2, <4>1
      <3>. QED BY <3>1, <3>2
    <2>5. \A i \in 1 .. n : g[i] = f[i]
      <3>. DEFINE Q == {i \in Nat : i + 1 \in 1 .. n => g[i + 1] = f[i + 1]}
      <3>1. 0 \in Q
        <4>1. 0 + 1 \in 1 .. n => n > 0 /\ u[1] = t[1]
          BY <2>1
        <4>. QED BY <2>2, <4>1
      <3>2. ASSUME NEW i \in Nat, i \in Q PROVE i + 1 \in Q
        <4>1. SUFFICES ASSUME i + 1 + 1 \in 1 .. n PROVE g[i + 1 + 1] = f[i + 1 + 1]
          OBVIOUS
        <4>2. /\ i + 1 \in 1 .. n - 1 /\ i + 1 \in 1 .. n
              /\ u[i + 1 + 1] = t[i + 1 + 1]
          BY <2>1, <4>1
        <4>3. /\ f[i + 1 + 1] = f[i + 1] \o t[i + 1 + 1]
              /\ g[i + 1 + 1] = g[i + 1] \o u[i + 1 + 1]
          BY <2>2, <4>2
        <4>. QED BY <3>2, <4>2, <4>3
      <3>3. Nat \subseteq Q
        <4>. HIDE DEF Q
        <4>. QED BY <3>1, <3>2, NumberInduction
      <3>4. ASSUME NEW i \in 1 .. n PROVE g[i] = f[i]
        <4>1. i - 1 \in Nat /\ i - 1 + 1 = i
          BY <2>1
        <4>2. i - 1 \in Q
          BY <3>3, <4>1
        <4>. QED BY <4>1, <4>2
      <3>. QED BY <3>4
    <2>6. FlattenSeq(u) = IF n = 0 THEN x ELSE g[n] \o x
      <3>1. Len(u) # 0 /\ Len(u) = n + 1
        BY <2>1
      <3>. QED BY <2>3, <2>4, <3>1, Zenon
    <2>7. CASE n = 0
      <3>1. FlattenSeq(t) = <<>> /\ FlattenSeq(u) = x
        BY <2>1, <2>3, <2>6, <2>7, Zenon
      <3>2. <<>> \o x = x
        BY ConcatEmptySeq
      <3>. QED BY <3>1, <3>2, Zenon DEF u
    <2>8. CASE n # 0
      <3>1. n \in 1 .. n
        BY <2>1, <2>8
      <3>. QED BY <2>3, <2>5, <2>6, <2>8, <3>1, Zenon DEF u
    <2>. QED BY <2>7, <2>8
  <1>2. <<>> \in P
    <2>1. Len(<<>>) = 0 /\ <<>> \in Seq(Seq(S)) /\ <<>> \in Seq(S)
      BY EmptySeq
    <2>. QED BY <2>1, FlattenIs
  <1>3. ASSUME NEW t \in Seq(Seq(S)), NEW x \in Seq(S), t \in P PROVE Append(t, x) \in P
    BY <1>1, <1>3, AppendProperties, ConcatProperties
  <1>4. Seq(Seq(S)) \subseteq P
    <2>. HIDE DEF P
    <2>. QED BY <1>2, <1>3, SequenceInduction
  <1>. QED BY <1>1, <1>4

\* Of none.
LEMMA FlattenNone == FlattenSeq(<<>>) = <<>>
  <1>1. Len(<<>>) = 0
    OBVIOUS
  <1>. QED BY <1>1, FlattenIs

\* Appended to the second of two is appended to both.
LEMMA AppendBehind ==
    ASSUME NEW S, NEW s \in Seq(S), NEW t \in Seq(S), NEW e \in S
    PROVE  s \o Append(t, e) = Append(s \o t, e)
  <1>. DEFINE one == <<e>>
  <1>1. s \o t \in Seq(S) /\ one \in Seq(S)
    BY ConcatProperties
  <1>2. Append(t, e) = t \o one /\ Append(s \o t, e) = (s \o t) \o one
    BY <1>1, AppendIsConcat
  <1>. HIDE DEF one
  <1>3. (s \o t) \o one = s \o (t \o one)
    BY <1>1, ConcatAssociative
  <1>. QED BY <1>2, <1>3, Zenon

\* Three put together, whichever two first.
Regrouped(a, b, c) == (a \o b) \o c = a \o (b \o c)

LEMMA InAnyGroups ==
    ASSUME NEW S, NEW a \in Seq(S), NEW b \in Seq(S), NEW c \in Seq(S)
    PROVE  Regrouped(a, b, c)
  BY ConcatAssociative DEF Regrouped

\* Of two put together.
LEMMA FlattenConcat ==
    ASSUME NEW S, NEW s \in Seq(Seq(S)), NEW t \in Seq(Seq(S))
    PROVE  FlattenSeq(s \o t) = FlattenSeq(s) \o FlattenSeq(t)
  <1>. DEFINE P == {u \in Seq(Seq(S)) : FlattenSeq(s \o u) = FlattenSeq(s) \o FlattenSeq(u)}
  <1>1. FlattenSeq(<<>>) = <<>>
    BY FlattenNone
  <1>2. <<>> \in P
    <2>1. <<>> \in Seq(Seq(S)) /\ FlattenSeq(s) \in Seq(S) /\ s \o <<>> = s
      BY FlattenAppend, EmptySeq, ConcatEmptySeq
    <2>. QED BY <1>1, <2>1, ConcatEmptySeq
  <1>3. ASSUME NEW u \in Seq(Seq(S)), NEW e \in Seq(S), u \in P PROVE Append(u, e) \in P
    <2>1. s \o u \in Seq(Seq(S)) /\ Append(u, e) \in Seq(Seq(S)) /\ <<e>> \in Seq(Seq(S))
      BY ConcatProperties, AppendProperties
    <2>2. s \o Append(u, e) = Append(s \o u, e)
      BY AppendBehind
    <2>3. /\ FlattenSeq(Append(s \o u, e)) = FlattenSeq(s \o u) \o e
          /\ FlattenSeq(Append(u, e)) = FlattenSeq(u) \o e
          /\ FlattenSeq(s) \in Seq(S) /\ FlattenSeq(u) \in Seq(S)
      BY <2>1, FlattenAppend
    <2>4. FlattenSeq(s \o u) = FlattenSeq(s) \o FlattenSeq(u)
      BY <1>3
    <2>5. (FlattenSeq(s) \o FlattenSeq(u)) \o e = FlattenSeq(s) \o (FlattenSeq(u) \o e)
      <3>1. Regrouped(FlattenSeq(s), FlattenSeq(u), e)
        BY <2>3, InAnyGroups
      <3>. QED BY <3>1, Zenon DEF Regrouped
    <2>. QED BY <2>1, <2>2, <2>3, <2>4, <2>5
  <1>4. Seq(Seq(S)) \subseteq P
    <2>. HIDE DEF P
    <2>. QED BY <1>2, <1>3, SequenceInduction
  <1>. QED BY <1>4

\* One more event for the translators, or for the reassembler.
Taking(who, s, e) == IF who = "translators" THEN Passing(s, e) ELSE Reassembled(s, e)

\* What the fold over events is on each set of places among them.
Takes(who, b, s, D, it) ==
    it = [t \in SUBSET D |-> IF t = {} THEN b ELSE Taking(who, it[t \ {Max(t)}], s[Max(t)])]

\* There is such a fold on the first places.
LEMMA TakesExists ==
    ASSUME NEW who, NEW b, NEW s, NEW n \in Nat
    PROVE  \E it : Takes(who, b, s, 1 .. n, it)
  <1>. DEFINE Value(t, g) == IF t = {} THEN b ELSE Taking(who, g[t \ {Max(t)}], s[Max(t)])
              Folded(k, g) == g = [t \in SUBSET (1 .. k) |-> Value(t, g)]
              P == {k \in Nat : \E g : Folded(k, g)}
  <1>1. 0 \in P
    <2>. DEFINE g == [t \in SUBSET (1 .. 0) |-> b]
    <2>1. \A t \in SUBSET (1 .. 0) : t = {}
      OBVIOUS
    <2>2. g = [t \in SUBSET (1 .. 0) |-> Value(t, g)]
      BY <2>1
    <2>. QED BY <2>2
  <1>2. ASSUME NEW k \in Nat, k \in P PROVE k + 1 \in P
    <2>1. PICK g : Folded(k, g)
      BY <1>2
    <2>. DEFINE h == [t \in SUBSET (1 .. k + 1) |->
                         IF k + 1 \in t THEN Taking(who, g[t \ {k + 1}], s[k + 1]) ELSE g[t]]
    <2>2. ASSUME NEW t \in SUBSET (1 .. k), NEW x
          PROVE  t \in SUBSET (1 .. k + 1) /\ k + 1 \notin t /\ t \ {x} \in SUBSET (1 .. k)
      <3>1. k + 1 \notin 1 .. k /\ \A y \in 1 .. k : y \in 1 .. k + 1
        OBVIOUS
      <3>. QED BY <3>1, Zenon
    <2>3. ASSUME NEW t \in SUBSET (1 .. k) PROVE h[t] = g[t]
      BY <2>2
    <2>4. ASSUME NEW t \in SUBSET (1 .. k + 1) PROVE h[t] = Value(t, h)
      <3>1. CASE k + 1 \in t
        <4>1. Max(t) = k + 1
          <5>1. \A x \in t : x \in Int /\ k + 1 >= x
            OBVIOUS
          <5>2. \A m \in t : (\A x \in t : m >= x) => m = k + 1
            BY <3>1, <5>1
          <5>. QED BY <3>1, <5>1, <5>2 DEF Max
        <4>2. t \ {k + 1} \in SUBSET (1 .. k)
          OBVIOUS
        <4>3. h[t] = Taking(who, g[t \ {k + 1}], s[k + 1])
          BY <3>1
        <4>4. h[t \ {k + 1}] = g[t \ {k + 1}]
          BY <2>3, <4>2
        <4>. HIDE DEF h
        <4>. QED BY <3>1, <4>1, <4>3, <4>4
      <3>2. CASE k + 1 \notin t
        <4>1. t \in SUBSET (1 .. k)
          BY <3>2
        <4>2. h[t] = g[t] /\ h[t \ {Max(t)}] = g[t \ {Max(t)}]
          BY <2>2, <2>3, <4>1
        <4>3. g[t] = Value(t, g)
          BY <2>1, <4>1
        <4>. HIDE DEF h
        <4>. QED BY <4>2, <4>3
      <3>. QED BY <3>1, <3>2
    <2>5. h = [t \in SUBSET (1 .. k + 1) |-> h[t]]
      OBVIOUS
    <2>. HIDE DEF h, Value
    <2>6. h = [t \in SUBSET (1 .. k + 1) |-> Value(t, h)]
      BY <2>4, <2>5
    <2>7. Folded(k + 1, h)
      BY <2>6
    <2>. HIDE DEF Folded
    <2>. QED BY <2>7
  <1>3. n \in P
    <2>. HIDE DEF P
    <2>. QED BY <1>1, <1>2, NumberInduction
  <1>. QED BY <1>3 DEF Takes

\* The states it comes through.
Comes(who, b, s, n, st) ==
    st[0] = b /\ \A i \in 0 .. n - 1 : st[i + 1] = Taking(who, st[i], s[i + 1])

\* Such a fold goes through the events one by one.
LEMMA TakesEach ==
    ASSUME NEW who, NEW b, NEW s, NEW n \in Nat, NEW it, Takes(who, b, s, 1 .. n, it)
    PROVE  \E st : Comes(who, b, s, n, st) /\ st[n] = it[1 .. n]
  <1>. DEFINE st == [i \in 0 .. n |-> it[1 .. i]]
  <1>1. \A t \in SUBSET (1 .. n) :
           it[t] = IF t = {} THEN b ELSE Taking(who, it[t \ {Max(t)}], s[Max(t)])
    BY Zenon DEF Takes
  <1>2. st[0] = b
    <2>1. 1 .. 0 = {} /\ 0 \in 0 .. n
      OBVIOUS
    <2>. QED BY <1>1, <2>1
  <1>3. ASSUME NEW i \in 0 .. n - 1 PROVE st[i + 1] = Taking(who, st[i], s[i + 1])
    <2>. DEFINE t == 1 .. i + 1
    <2>1. /\ i \in 0 .. n /\ i + 1 \in 0 .. n
          /\ t \in SUBSET (1 .. n) /\ t # {} /\ t \ {i + 1} = 1 .. i
      <3>1. i \in 0 .. n /\ i + 1 \in 0 .. n
        OBVIOUS
      <3>2. \A x \in t : x \in 1 .. n
        OBVIOUS
      <3>3. i + 1 \in t
        OBVIOUS
      <3>4. \A x : x \in t /\ x # i + 1 <=> x \in 1 .. i
        OBVIOUS
      <3>. HIDE DEF t
      <3>. QED BY <3>1, <3>2, <3>3, <3>4
    <2>2. Max(t) = i + 1
      <3>1. i + 1 \in t /\ \A x \in t : x \in Int /\ i + 1 >= x
        OBVIOUS
      <3>. HIDE DEF t
      <3>2. \A m \in t : (\A x \in t : m >= x) => m = i + 1
        BY <3>1
      <3>. QED BY <3>1, <3>2 DEF Max
    <2>3. st[i + 1] = it[t] /\ st[i] = it[1 .. i]
      BY <2>1
    <2>. HIDE DEF t, st
    <2>. QED BY <1>1, <2>1, <2>2, <2>3
  <1>4. st[n] = it[1 .. n]
    OBVIOUS
  <1>. HIDE DEF st
  <1>5. Comes(who, b, s, n, st)
    BY <1>2, <1>3 DEF Comes
  <1>. QED BY <1>4, <1>5

\* The translators take the events one by one.
LEMMA PassingEach ==
    ASSUME NEW S, NEW s \in Seq(S), NEW b
    PROVE  \E st : Comes("translators", b, s, Len(s), st) /\ st[Len(s)] = FoldLeft(Passing, b, s)
  <1>. DEFINE Folded(it) == it = [t \in SUBSET DOMAIN s |->
                                    IF t = {} THEN b ELSE Passing(it[t \ {Max(t)}], s[Max(t)])]
  <1>1. FoldLeft(Passing, b, s) = (CHOOSE it : Folded(it))[DOMAIN s]
    BY DEF FoldLeft, MapThenFoldSet
  <1>2. DOMAIN s = 1 .. Len(s) /\ Len(s) \in Nat
    BY LenProperties
  <1>3. \A it : Takes("translators", b, s, DOMAIN s, it) <=> Folded(it)
    BY DEF Takes, Taking
  <1>4. PICK it : it = CHOOSE g : Folded(g)
    OBVIOUS
  <1>. HIDE DEF Folded
  <1>5. Folded(it)
    BY <1>2, <1>3, <1>4, TakesExists
  <1>6. Takes("translators", b, s, 1 .. Len(s), it)
    BY <1>2, <1>3, <1>5
  <1>7. PICK st : Comes("translators", b, s, Len(s), st) /\ st[Len(s)] = it[1 .. Len(s)]
    BY <1>2, <1>6, TakesEach
  <1>. QED BY <1>1, <1>2, <1>4, <1>7

\* The reassembler takes the events one by one.
LEMMA ReassembledEach ==
    ASSUME NEW S, NEW s \in Seq(S), NEW b
    PROVE  \E st : Comes("reassembler", b, s, Len(s), st) /\ st[Len(s)] = FoldLeft(Reassembled, b, s)
  <1>. DEFINE Folded(it) == it = [t \in SUBSET DOMAIN s |->
                                    IF t = {} THEN b ELSE Reassembled(it[t \ {Max(t)}], s[Max(t)])]
  <1>1. FoldLeft(Reassembled, b, s) = (CHOOSE it : Folded(it))[DOMAIN s]
    BY DEF FoldLeft, MapThenFoldSet
  <1>2. DOMAIN s = 1 .. Len(s) /\ Len(s) \in Nat
    BY LenProperties
  <1>3. \A it : Takes("reassembler", b, s, DOMAIN s, it) <=> Folded(it)
    BY DEF Takes, Taking
  <1>4. PICK it : it = CHOOSE g : Folded(g)
    OBVIOUS
  <1>. HIDE DEF Folded
  <1>5. Folded(it)
    BY <1>2, <1>3, <1>4, TakesExists
  <1>6. Takes("reassembler", b, s, 1 .. Len(s), it)
    BY <1>2, <1>3, <1>5
  <1>7. PICK st : Comes("reassembler", b, s, Len(s), st) /\ st[Len(s)] = it[1 .. Len(s)]
    BY <1>2, <1>6, TakesEach
  <1>. QED BY <1>1, <1>2, <1>4, <1>7

\* From the same state through the same events to the same.
LEMMA ComesToTheSame ==
    ASSUME NEW n \in Nat, NEW who, NEW b, NEW s, NEW f, NEW g,
           Comes(who, b, s, n, f), Comes(who, b, s, n, g)
    PROVE  f[n] = g[n]
  <1>. DEFINE P == {k \in Nat : k <= n => f[k] = g[k]}
  <1>1. 0 \in P
    BY DEF Comes
  <1>2. ASSUME NEW k \in Nat, k \in P PROVE k + 1 \in P
    <2>1. SUFFICES ASSUME k + 1 <= n PROVE f[k + 1] = g[k + 1]
      OBVIOUS
    <2>2. k \in 0 .. n - 1 /\ k <= n
      BY <2>1
    <2>3. f[k + 1] = Taking(who, f[k], s[k + 1]) /\ g[k + 1] = Taking(who, g[k], s[k + 1])
      BY <2>2 DEF Comes
    <2>4. f[k] = g[k]
      BY <1>2, <2>2
    <2>. QED BY <2>3, <2>4
  <1>3. n \in P
    <2>. HIDE DEF P
    <2>. QED BY <1>1, <1>2, NumberInduction
  <1>. QED BY <1>3

\* No event.
LEMMA ReassembleNone == ASSUME NEW b PROVE FoldLeft(Reassembled, b, <<>>) = b
  <1>1. <<>> \in Seq({}) /\ Len(<<>>) = 0
    OBVIOUS
  <1>2. PICK st : /\ Comes("reassembler", b, <<>>, Len(<<>>), st)
                  /\ st[Len(<<>>)] = FoldLeft(Reassembled, b, <<>>)
    BY <1>1, ReassembledEach
  <1>. QED BY <1>1, <1>2 DEF Comes

\* One more.
LEMMA ReassembleOne ==
    ASSUME NEW S, NEW s \in Seq(S), NEW e \in S, NEW b
    PROVE  FoldLeft(Reassembled, b, Append(s, e)) = Reassembled(FoldLeft(Reassembled, b, s), e)
  <1>. DEFINE n == Len(s)
              u == Append(s, e)
  <1>1. /\ u \in Seq(S) /\ n \in Nat /\ Len(u) = n + 1 /\ u[n + 1] = e
        /\ \A i \in 1 .. n : u[i] = s[i]
    BY AppendProperties, LenProperties
  <1>. HIDE DEF u
  <1>2. PICK f : Comes("reassembler", b, s, n, f) /\ f[n] = FoldLeft(Reassembled, b, s)
    BY ReassembledEach
  <1>3. PICK g : Comes("reassembler", b, u, Len(u), g) /\ g[Len(u)] = FoldLeft(Reassembled, b, u)
    BY <1>1, ReassembledEach
  <1>. HIDE DEF n
  <1>4. /\ g[0] = b
        /\ \A i \in 0 .. n : g[i + 1] = Taking("reassembler", g[i], u[i + 1])
    <2>1. Len(u) - 1 = n
      BY <1>1
    <2>. QED BY <1>3, <2>1 DEF Comes
  <1>5. Comes("reassembler", b, s, n, g)
    <2>1. ASSUME NEW i \in 0 .. n - 1 PROVE g[i + 1] = Taking("reassembler", g[i], s[i + 1])
      <3>1. i \in 0 .. n /\ u[i + 1] = s[i + 1]
        BY <1>1
      <3>. QED BY <1>4, <3>1, Zenon
    <2>. QED BY <1>4, <2>1 DEF Comes
  <1>6. f[n] = g[n]
    BY <1>1, <1>2, <1>5, ComesToTheSame
  <1>7. g[n + 1] = Reassembled(g[n], u[n + 1])
    <2>1. n \in 0 .. n
      BY <1>1
    <2>. QED BY <1>4, <2>1 DEF Taking
  <1>. QED BY <1>1, <1>2, <1>3, <1>6, <1>7 DEF u

\* Two sequences, one after the other.
LEMMA ReassembleBoth ==
    ASSUME NEW S, NEW s \in Seq(S), NEW t \in Seq(S), NEW b
    PROVE  FoldLeft(Reassembled, b, s \o t) = FoldLeft(Reassembled, FoldLeft(Reassembled, b, s), t)
  <1>. DEFINE R(x, u) == FoldLeft(Reassembled, x, u)
              P == {u \in Seq(S) : R(b, s \o u) = R(R(b, s), u)}
  <1>1. /\ \A x : R(x, <<>>) = x
        /\ \A x : \A u \in Seq(S), e \in S : R(x, Append(u, e)) = Reassembled(R(x, u), e)
    BY ReassembleNone, ReassembleOne
  <1>. HIDE DEF R
  <1>2. <<>> \in P
    BY <1>1, ConcatEmptySeq, EmptySeq
  <1>3. ASSUME NEW u \in Seq(S), NEW e \in S, u \in P PROVE Append(u, e) \in P
    <2>1. s \o u \in Seq(S) /\ Append(u, e) \in Seq(S) /\ <<e>> \in Seq(S)
      BY ConcatProperties, AppendProperties
    <2>2. s \o Append(u, e) = Append(s \o u, e)
      BY AppendBehind
    <2>3. R(b, Append(s \o u, e)) = Reassembled(R(b, s \o u), e)
      BY <1>1, <2>1
    <2>4. R(R(b, s), Append(u, e)) = Reassembled(R(R(b, s), u), e)
      BY <1>1
    <2>. QED BY <1>3, <2>1, <2>2, <2>3, <2>4
  <1>4. t \in P
    <2>. HIDE DEF P
    <2>. QED BY <1>2, <1>3, SequenceInduction
  <1>. QED BY <1>4 DEF R

-----------------------------------------------------------------------------
(* Texts and events.                                                       *)

\* What extends a sequence by one is the sequence with that appended.
LEMMA IsAppend ==
    ASSUME NEW S, NEW s \in Seq(S), NEW e \in S, NEW t \in Seq(S),
           Len(t) = Len(s) + 1, t[Len(s) + 1] = e, \A i \in 1 .. Len(s) : t[i] = s[i]
    PROVE  t = Append(s, e)
  <1>1. /\ Append(s, e) \in Seq(S) /\ Len(Append(s, e)) = Len(s) + 1
        /\ \A i \in 1 .. Len(s) : Append(s, e)[i] = s[i]
        /\ Append(s, e)[Len(s) + 1] = e
        /\ Len(s) \in Nat
    BY AppendProperties, LenProperties
  <1>2. ASSUME NEW i \in 1 .. Len(t) PROVE t[i] = Append(s, e)[i]
    <2>1. i \in 1 .. Len(s) \/ i = Len(s) + 1
      BY <1>1
    <2>. QED BY <1>1, <2>1
  <1>. QED BY <1>1, <1>2, SeqEqual

\* A sequence, element by element.
Mapped(F, s) == [i \in DOMAIN s |-> F[s[i]]]

IsMapped(F, s, T) ==
    /\ Mapped(F, s) \in Seq(T)
    /\ Len(Mapped(F, s)) = Len(s)
    /\ \A i \in 1 .. Len(s) : Mapped(F, s)[i] = F[s[i]]

\* What a function makes of a sequence is as long, each of it what the function makes.
LEMMA MappedType ==
    ASSUME NEW S, NEW T, NEW F \in [S -> T], NEW s \in Seq(S)
    PROVE  IsMapped(F, s, T)
  <1>1. DOMAIN s = 1 .. Len(s) /\ Len(s) \in Nat /\ \A i \in 1 .. Len(s) : s[i] \in S
    BY LenProperties, ElementOfSeq
  <1>. QED BY <1>1 DEF Mapped, IsMapped

\* Of one more.
IsMappedOnce(F, s, e) == Mapped(F, Append(s, e)) = Append(Mapped(F, s), F[e])

LEMMA MappedOneMore ==
    ASSUME NEW S, NEW T, NEW F \in [S -> T], NEW s \in Seq(S), NEW e \in S
    PROVE  IsMappedOnce(F, s, e)
  <1>. DEFINE u == Append(s, e)
              f == Mapped(F, s)
              g == Mapped(F, u)
  <1>1. /\ u \in Seq(S) /\ Len(u) = Len(s) + 1 /\ u[Len(s) + 1] = e
        /\ \A i \in 1 .. Len(s) : u[i] = s[i]
        /\ Len(s) \in Nat /\ F[e] \in T
    BY AppendProperties, LenProperties
  <1>. HIDE DEF u
  <1>2. /\ f \in Seq(T) /\ Len(f) = Len(s) /\ \A i \in 1 .. Len(s) : f[i] = F[s[i]]
        /\ g \in Seq(T) /\ Len(g) = Len(u) /\ \A i \in 1 .. Len(u) : g[i] = F[u[i]]
    <2>1. IsMapped(F, s, T) /\ IsMapped(F, u, T)
      BY <1>1, MappedType
    <2>. QED BY <2>1, Zenon DEF IsMapped
  <1>. HIDE DEF f, g
  <1>3. g[Len(f) + 1] = F[e] /\ Len(g) = Len(f) + 1
    <2>0. Len(s) \in Nat /\ Len(u) = Len(s) + 1 /\ Len(f) = Len(s)
      BY <1>1, <1>2, Zenon
    <2>1. Len(s) + 1 \in 1 .. Len(u) /\ Len(f) + 1 = Len(s) + 1
      BY <2>0
    <2>2. g[Len(s) + 1] = F[u[Len(s) + 1]]
      BY <1>2, <2>1
    <2>. QED BY <1>1, <1>2, <2>1, <2>2, Zenon
  <1>4. ASSUME NEW i \in 1 .. Len(f) PROVE g[i] = f[i]
    <2>1. i \in 1 .. Len(s) /\ i \in 1 .. Len(u)
      BY <1>1, <1>2
    <2>. QED BY <1>1, <1>2, <2>1
  <1>5. g = Append(f, F[e])
    BY <1>1, <1>2, <1>3, <1>4, IsAppend
  <1>. QED BY <1>5 DEF f, g, u, IsMappedOnce

IsMappedApart(F, s, t) == Mapped(F, s \o t) = Mapped(F, s) \o Mapped(F, t)

\* Of two put together.
LEMMA MappedBoth ==
    ASSUME NEW S, NEW T, NEW F \in [S -> T], NEW s \in Seq(S), NEW t \in Seq(S)
    PROVE  IsMappedApart(F, s, t)
  <1>. DEFINE u == s \o t
              f == Mapped(F, s)
              g == Mapped(F, t)
              h == Mapped(F, u)
  <1>1. /\ u \in Seq(S) /\ Len(u) = Len(s) + Len(t)
        /\ \A i \in 1 .. Len(s) + Len(t) : u[i] = IF i <= Len(s) THEN s[i] ELSE t[i - Len(s)]
        /\ Len(s) \in Nat /\ Len(t) \in Nat
    BY ConcatProperties, LenProperties
  <1>. HIDE DEF u
  <1>2. /\ f \in Seq(T) /\ Len(f) = Len(s) /\ \A i \in 1 .. Len(s) : f[i] = F[s[i]]
        /\ g \in Seq(T) /\ Len(g) = Len(t) /\ \A i \in 1 .. Len(t) : g[i] = F[t[i]]
        /\ h \in Seq(T) /\ Len(h) = Len(u) /\ \A i \in 1 .. Len(u) : h[i] = F[u[i]]
    <2>1. IsMapped(F, s, T) /\ IsMapped(F, t, T) /\ IsMapped(F, u, T)
      BY <1>1, MappedType
    <2>. QED BY <2>1, Zenon DEF IsMapped
  <1>. HIDE DEF f, g, h
  <1>3. /\ f \o g \in Seq(T) /\ Len(f \o g) = Len(f) + Len(g)
        /\ \A i \in 1 .. Len(f) + Len(g) : (f \o g)[i] = IF i <= Len(f) THEN f[i] ELSE g[i - Len(f)]
    <2>1. f \in Seq(T) /\ g \in Seq(T)
      BY <1>2
    <2>. QED BY <2>1, ConcatProperties
  <1>4. ASSUME NEW i \in 1 .. Len(h) PROVE h[i] = (f \o g)[i]
    <2>1. i \in 1 .. Len(u) /\ i \in 1 .. Len(f) + Len(g) /\ i \in 1 .. Len(s) + Len(t)
      BY <1>1, <1>2
    <2>2. h[i] = F[u[i]]
      BY <1>2, <2>1
    <2>3. CASE i <= Len(s)
      <3>1. i \in 1 .. Len(s)
        BY <2>1, <2>3
      <3>. QED BY <1>1, <1>2, <1>3, <2>1, <2>2, <2>3, <3>1
    <2>4. CASE ~(i <= Len(s))
      <3>1. i - Len(s) \in 1 .. Len(t)
        BY <1>1, <2>1, <2>4
      <3>2. u[i] = t[i - Len(s)] /\ (f \o g)[i] = g[i - Len(s)]
        BY <1>1, <1>2, <1>3, <2>1, <2>4
      <3>. QED BY <1>2, <2>2, <3>1, <3>2
    <2>. QED BY <2>3, <2>4
  <1>5. Len(h) = Len(f \o g)
    BY <1>1, <1>2, <1>3
  <1>6. h = f \o g
    BY <1>2, <1>3, <1>4, <1>5, SeqEqual
  <1>. QED BY <1>6 DEF f, g, h, u, IsMappedApart

\* What events are made of.
Text == Seq(STRING \cup {Damaged})
Subject == STRING \cup {""}
EventType ==
    [type : {"message_start", "content_block_start", "content_block_delta", "content_block_stop",
             "message_delta", "message_stop"},
     of : Subject, text : Text, n : Nat]
DeltaType == [kind : STRING, text : Text]

\* The deltas that a block of a type may have: text is in blocks of text, thoughts are not.
Fitting(type) ==
    {d \in DeltaType : /\ d.kind = "text_delta" => type = "text"
                       /\ d.kind = "thinking_delta" => type # "text"}
BlockType == {b \in [type : Subject \ {NoBlock}, deltas : Seq(DeltaType)] : b.deltas \in Seq(Fitting(b.type))}

\* The events of a block's deltas.
Deltas(ds) == [i \in DOMAIN ds |-> Event("content_block_delta", ds[i].kind, ds[i].text, 0)]

\* What of its deltas a block of a type keeps.
KeptOf(type, ds) == FlattenSeq([i \in DOMAIN ds |-> Kept(type, ds[i].kind, ds[i].text)])

\* The parts of an event.
LEMMA EventFields ==
    ASSUME NEW type, NEW of, NEW text, NEW n
    PROVE  /\ Event(type, of, text, n).type = type /\ Event(type, of, text, n).of = of
           /\ Event(type, of, text, n).text = text /\ Event(type, of, text, n).n = n
  BY DEF Event

\* No letter is a text.
LEMMA NothingIsText == Nothing \in Text
  BY DEF Nothing, Text

\* A delta is an event, deltas are events.
LEMMA DeltasAreEvents ==
    /\ \A d \in DeltaType : Event("content_block_delta", d.kind, d.text, 0) \in EventType
    /\ \A ds \in Seq(DeltaType) :
          /\ Deltas(ds) = Mapped([d \in DeltaType |-> Event("content_block_delta", d.kind, d.text, 0)], ds)
          /\ Deltas(ds) \in Seq(EventType)
  <1>. DEFINE F == [d \in DeltaType |-> Event("content_block_delta", d.kind, d.text, 0)]
  <1>1. \A d \in DeltaType : Event("content_block_delta", d.kind, d.text, 0) \in EventType
    BY DEF Event, EventType, DeltaType, Subject
  <1>2. F \in [DeltaType -> EventType]
    BY <1>1
  <1>3. ASSUME NEW ds \in Seq(DeltaType) PROVE Deltas(ds) = Mapped(F, ds)
    <2>1. \A i \in DOMAIN ds : ds[i] \in DeltaType
      BY LenProperties, ElementOfSeq
    <2>. QED BY <2>1 DEF Mapped, Deltas
  <1>. HIDE DEF F
  <1>4. ASSUME NEW ds \in Seq(DeltaType) PROVE Mapped(F, ds) \in Seq(EventType)
    BY <1>2, MappedType DEF IsMapped
  <1>. QED BY <1>1, <1>3, <1>4 DEF F

\* One delta more, one event more.
LEMMA DeltasOneMore ==
    ASSUME NEW ds \in Seq(DeltaType), NEW d \in DeltaType
    PROVE  Deltas(Append(ds, d)) = Append(Deltas(ds), Event("content_block_delta", d.kind, d.text, 0))
  <1>. DEFINE F == [x \in DeltaType |-> Event("content_block_delta", x.kind, x.text, 0)]
  <1>1. Append(ds, d) \in Seq(DeltaType)
    BY AppendProperties
  <1>2. F \in [DeltaType -> EventType] /\ F[d] = Event("content_block_delta", d.kind, d.text, 0)
    BY DeltasAreEvents
  <1>3. Deltas(ds) = Mapped(F, ds) /\ Deltas(Append(ds, d)) = Mapped(F, Append(ds, d))
    BY <1>1, DeltasAreEvents
  <1>. HIDE DEF F
  <1>4. IsMappedOnce(F, ds, d)
    BY <1>2, MappedOneMore
  <1>. QED BY <1>2, <1>3, <1>4, Zenon DEF IsMappedOnce

\* What is kept of deltas is a text.
LEMMA KeptIsText ==
    ASSUME NEW type
    PROVE  /\ \A d \in DeltaType : Kept(type, d.kind, d.text) \in Text
           /\ \A ds \in Seq(DeltaType) :
                 /\ KeptOf(type, ds)
                       = FlattenSeq(Mapped([d \in DeltaType |-> Kept(type, d.kind, d.text)], ds))
                 /\ KeptOf(type, ds) \in Text
  <1>. DEFINE F == [d \in DeltaType |-> Kept(type, d.kind, d.text)]
  <1>1. \A d \in DeltaType : Kept(type, d.kind, d.text) \in Text
    BY NothingIsText DEF Kept, DeltaType
  <1>2. F \in [DeltaType -> Text]
    BY <1>1
  <1>3. ASSUME NEW ds \in Seq(DeltaType) PROVE KeptOf(type, ds) = FlattenSeq(Mapped(F, ds))
    <2>1. \A i \in DOMAIN ds : ds[i] \in DeltaType
      BY LenProperties, ElementOfSeq
    <2>2. [i \in DOMAIN ds |-> Kept(type, ds[i].kind, ds[i].text)] = Mapped(F, ds)
      BY <2>1 DEF Mapped
    <2>. QED BY <2>2 DEF KeptOf
  <1>. HIDE DEF F
  <1>4. ASSUME NEW ds \in Seq(DeltaType) PROVE FlattenSeq(Mapped(F, ds)) \in Text
    <2>1. Mapped(F, ds) \in Seq(Text)
      BY <1>2, MappedType DEF IsMapped
    <2>. QED BY <2>1, FlattenAppend, EmptySeq DEF Text
  <1>. QED BY <1>1, <1>3, <1>4 DEF F

\* What is kept of one delta more.
LEMMA KeptOneMore ==
    ASSUME NEW type, NEW ds \in Seq(DeltaType), NEW d \in DeltaType
    PROVE  KeptOf(type, Append(ds, d)) = KeptOf(type, ds) \o Kept(type, d.kind, d.text)
  <1>. DEFINE F == [x \in DeltaType |-> Kept(type, x.kind, x.text)]
  <1>1. Append(ds, d) \in Seq(DeltaType)
    BY AppendProperties
  <1>2. F \in [DeltaType -> Text] /\ F[d] = Kept(type, d.kind, d.text)
    BY KeptIsText
  <1>3. /\ KeptOf(type, ds) = FlattenSeq(Mapped(F, ds))
        /\ KeptOf(type, Append(ds, d)) = FlattenSeq(Mapped(F, Append(ds, d)))
    BY <1>1, KeptIsText
  <1>. HIDE DEF F
  <1>4. IsMapped(F, ds, Text) /\ IsMappedOnce(F, ds, d)
    BY <1>2, MappedType, MappedOneMore
  <1>5. /\ Mapped(F, ds) \in Seq(Text) /\ F[d] \in Text
        /\ Mapped(F, Append(ds, d)) = Append(Mapped(F, ds), F[d])
    BY <1>2, <1>4 DEF IsMapped, IsMappedOnce
  <1>6. FlattenSeq(Append(Mapped(F, ds), F[d])) = FlattenSeq(Mapped(F, ds)) \o F[d]
    BY <1>5, FlattenAppend DEF Text
  <1>. QED BY <1>2, <1>3, <1>5, <1>6

\* No delta, no text.
LEMMA KeptNone == ASSUME NEW type PROVE KeptOf(type, <<>>) = Nothing
  <1>1. [i \in DOMAIN <<>> |-> Kept(type, <<>>[i].kind, <<>>[i].text)] = <<>>
    OBVIOUS
  <1>. QED BY <1>1, FlattenNone DEF KeptOf, Nothing

-----------------------------------------------------------------------------
(* A stream put together.                                                  *)

\* The reassembler's state.
Together(started, blocks, current, text, stop, input, output) ==
    [started |-> started, blocks |-> blocks, current |-> current, text |-> text,
     stop |-> stop, input |-> input, output |-> output]

\* What becomes of it by the events of a block.
LEMMA ByBlockStart ==
    ASSUME NEW s, NEW bs, NEW c, NEW t, NEW st, NEW i, NEW o, NEW of, NEW x, NEW n
    PROVE  Reassembled(Together(s, bs, c, t, st, i, o), Event("content_block_start", of, x, n))
              = Together(s, bs, of, Nothing, st, i, o)
  BY DEF Reassembled, Together, Event

\* By the events that bring its text.
LEMMA ByDelta ==
    ASSUME NEW s, NEW bs, NEW c, NEW t, NEW st, NEW i, NEW o, NEW of, NEW x, NEW n
    PROVE  Reassembled(Together(s, bs, c, t, st, i, o), Event("content_block_delta", of, x, n))
              = Together(s, bs, c, t \o Kept(c, of, x), st, i, o)
  BY DEF Reassembled, Together, Event

\* By the one that ends it.
LEMMA ByBlockStop ==
    ASSUME NEW s, NEW bs, NEW c, NEW t, NEW st, NEW i, NEW o, NEW of, NEW x, NEW n, c # NoBlock
    PROVE  Reassembled(Together(s, bs, c, t, st, i, o), Event("content_block_stop", of, x, n))
              = Together(s, Append(bs, [type |-> c, text |-> t, rest |-> Nothing]), NoBlock, Nothing, st, i, o)
  BY DEF Reassembled, Together, Event

\* The deltas of a block, one after the other.
LEMMA TextsTogether ==
    ASSUME NEW s, NEW bs, NEW c, NEW st, NEW i, NEW o, NEW deltas \in Seq(DeltaType)
    PROVE  FoldLeft(Reassembled, Together(s, bs, c, Nothing, st, i, o), Deltas(deltas))
              = Together(s, bs, c, KeptOf(c, deltas), st, i, o)
  <1>. DEFINE R(evs) == FoldLeft(Reassembled, Together(s, bs, c, Nothing, st, i, o), evs)
              P == {ds \in Seq(DeltaType) : R(Deltas(ds)) = Together(s, bs, c, KeptOf(c, ds), st, i, o)}
  <1>1. R(<<>>) = Together(s, bs, c, Nothing, st, i, o)
    BY ReassembleNone
  <1>2. \A evs \in Seq(EventType), e \in EventType : R(Append(evs, e)) = Reassembled(R(evs), e)
    BY ReassembleOne
  <1>. HIDE DEF R
  <1>3. <<>> \in P
    <2>1. Deltas(<<>>) = <<>>
      BY DEF Deltas
    <2>2. KeptOf(c, <<>>) = Nothing
      BY KeptNone
    <2>3. <<>> \in Seq(DeltaType)
      OBVIOUS
    <2>. QED BY <1>1, <2>1, <2>2, <2>3
  <1>4. ASSUME NEW ds \in Seq(DeltaType), NEW d \in DeltaType, ds \in P PROVE Append(ds, d) \in P
    <2>. DEFINE e == Event("content_block_delta", d.kind, d.text, 0)
    <2>1. /\ e \in EventType /\ Deltas(ds) \in Seq(EventType)
          /\ Deltas(Append(ds, d)) = Append(Deltas(ds), e)
      BY DeltasAreEvents, DeltasOneMore
    <2>2. KeptOf(c, Append(ds, d)) = KeptOf(c, ds) \o Kept(c, d.kind, d.text)
      BY KeptOneMore
    <2>3. R(Deltas(Append(ds, d))) = Reassembled(Together(s, bs, c, KeptOf(c, ds), st, i, o), e)
      <3>. HIDE DEF e
      <3>. QED BY <1>2, <1>4, <2>1
    <2>4. R(Deltas(Append(ds, d)))
             = Together(s, bs, c, KeptOf(c, ds) \o Kept(c, d.kind, d.text), st, i, o)
      BY <2>3, ByDelta
    <2>5. Append(ds, d) \in Seq(DeltaType)
      BY AppendProperties
    <2>. HIDE DEF e
    <2>. QED BY <2>2, <2>4, <2>5
  <1>5. deltas \in P
    <2>. HIDE DEF P
    <2>. QED BY <1>3, <1>4, SequenceInduction
  <1>. QED BY <1>5 DEF R

\* A block's events are its start, its texts and its stop.
LEMMA BlockHas ==
    ASSUME NEW b \in BlockType
    PROVE  /\ BlockEvents(b) = <<Event("content_block_start", b.type, Nothing, 0)>>
                                  \o Deltas(b.deltas)
                                  \o <<Event("content_block_stop", b.type, Nothing, 0)>>
           /\ <<Event("content_block_start", b.type, Nothing, 0)>> \in Seq(EventType)
           /\ Deltas(b.deltas) \in Seq(EventType)
           /\ <<Event("content_block_stop", b.type, Nothing, 0)>> \in Seq(EventType)
           /\ BlockEvents(b) \in Seq(EventType)
           /\ b.type \in Subject /\ b.type # NoBlock /\ b.deltas \in Seq(DeltaType)
           /\ b.deltas \in Seq(Fitting(b.type))
  <1>1. /\ b.deltas \in Seq(Fitting(b.type))
        /\ b.type \in Subject /\ b.type # NoBlock /\ b.deltas \in Seq(DeltaType)
    BY DEF BlockType
  <1>2. Nothing \in Text
    BY NothingIsText
  <1>3. /\ Event("content_block_start", b.type, Nothing, 0) \in EventType
        /\ Event("content_block_stop", b.type, Nothing, 0) \in EventType
    BY <1>1, <1>2 DEF Event, EventType
  <1>4. Deltas(b.deltas) \in Seq(EventType)
    BY <1>1, DeltasAreEvents
  <1>5. BlockEvents(b) = <<Event("content_block_start", b.type, Nothing, 0)>>
                                  \o Deltas(b.deltas)
                                  \o <<Event("content_block_stop", b.type, Nothing, 0)>>
    BY DEF BlockEvents, Deltas
  <1>. HIDE DEF Event
  <1>6. /\ <<Event("content_block_start", b.type, Nothing, 0)>> \in Seq(EventType)
        /\ <<Event("content_block_stop", b.type, Nothing, 0)>> \in Seq(EventType)
    BY <1>3
  <1>7. BlockEvents(b) \in Seq(EventType)
    BY <1>4, <1>5, <1>6, ConcatProperties
  <1>. QED BY <1>1, <1>4, <1>5, <1>6, <1>7

\* One event.
LEMMA ReassembleSingle ==
    ASSUME NEW e \in EventType, NEW w
    PROVE  FoldLeft(Reassembled, w, <<e>>) = Reassembled(w, e)
  <1>1. <<>> \in Seq(EventType) /\ Append(<<>>, e) = <<e>>
    OBVIOUS
  <1>2. FoldLeft(Reassembled, w, Append(<<>>, e)) = Reassembled(FoldLeft(Reassembled, w, <<>>), e)
    BY <1>1, ReassembleOne
  <1>. QED BY <1>1, <1>2, ReassembleNone

\* A block is put together from its events.
LEMMA BlockTogether ==
    ASSUME NEW b \in BlockType, NEW s, NEW bs, NEW c, NEW t, NEW st, NEW i, NEW o
    PROVE  FoldLeft(Reassembled, Together(s, bs, c, t, st, i, o), BlockEvents(b))
              = Together(s, Append(bs, [type |-> b.type, text |-> TextPart(b), rest |-> Nothing]),
                         NoBlock, Nothing, st, i, o)
  <1>. DEFINE start == Event("content_block_start", b.type, Nothing, 0)
              deltas == Deltas(b.deltas)
              stop == Event("content_block_stop", b.type, Nothing, 0)
              w0 == Together(s, bs, c, t, st, i, o)
              w1 == Together(s, bs, b.type, Nothing, st, i, o)
              w2 == Together(s, bs, b.type, TextPart(b), st, i, o)
              w3 == Together(s, Append(bs, [type |-> b.type, text |-> TextPart(b), rest |-> Nothing]),
                             NoBlock, Nothing, st, i, o)
  <1>1. /\ BlockEvents(b) = <<start>> \o deltas \o <<stop>>
        /\ <<start>> \in Seq(EventType) /\ deltas \in Seq(EventType) /\ <<stop>> \in Seq(EventType)
        /\ b.type \in Subject /\ b.type # NoBlock /\ b.deltas \in Seq(DeltaType)
    BY BlockHas
  <1>2. start \in EventType /\ stop \in EventType
    BY <1>1, NothingIsText DEF Event, EventType
  <1>3. Reassembled(w0, start) = w1
    BY ByBlockStart
  <1>4. FoldLeft(Reassembled, w1, deltas) = w2
    <2>1. TextPart(b) = KeptOf(b.type, b.deltas)
      BY DEF TextPart, KeptOf
    <2>2. FoldLeft(Reassembled, Together(s, bs, b.type, Nothing, st, i, o), Deltas(b.deltas))
             = Together(s, bs, b.type, KeptOf(b.type, b.deltas), st, i, o)
      BY <1>1, TextsTogether
    <2>. QED BY <2>1, <2>2, Zenon
  <1>5. Reassembled(w2, stop) = w3
    BY <1>1, ByBlockStop
  <1>. HIDE DEF start, deltas, stop, w0, w1, w2, w3
  <1>6. FoldLeft(Reassembled, w0, <<start>>) = w1 /\ FoldLeft(Reassembled, w2, <<stop>>) = w3
    BY <1>2, <1>3, <1>5, ReassembleSingle
  <1>7. <<start>> \o deltas \in Seq(EventType)
    BY <1>1, ConcatProperties
  <1>8. FoldLeft(Reassembled, w0, <<start>> \o deltas) = w2
    BY <1>1, <1>4, <1>6, ReassembleBoth
  <1>9. FoldLeft(Reassembled, w0, (<<start>> \o deltas) \o <<stop>>) = w3
    BY <1>1, <1>6, <1>7, <1>8, ReassembleBoth
  <1>. QED BY <1>1, <1>9 DEF w0, w3

\* The events of blocks, and the blocks put together.
BlocksEvents(bs) == FlattenSeq([i \in DOMAIN bs |-> BlockEvents(bs[i])])
RebuiltBlock(b) == [type |-> b.type, text |-> TextPart(b), rest |-> Nothing]
RebuiltBlocks(bs) == [i \in DOMAIN bs |-> RebuiltBlock(bs[i])]

RebuiltBlockType == [type : Subject, text : Text, rest : {Nothing}]

\* Whatever is said of all of a sequence can be said of its parts by a function on them.
LEMMA BlocksAreMapped ==
    ASSUME NEW bs \in Seq(BlockType)
    PROVE  /\ BlocksEvents(bs) = FlattenSeq(Mapped([b \in BlockType |-> BlockEvents(b)], bs))
           /\ RebuiltBlocks(bs) = Mapped([b \in BlockType |-> RebuiltBlock(b)], bs)
  <1>1. \A i \in DOMAIN bs : bs[i] \in BlockType
    BY LenProperties, ElementOfSeq
  <1>2. [i \in DOMAIN bs |-> BlockEvents(bs[i])] = Mapped([b \in BlockType |-> BlockEvents(b)], bs)
    BY <1>1 DEF Mapped
  <1>3. [i \in DOMAIN bs |-> RebuiltBlock(bs[i])] = Mapped([b \in BlockType |-> RebuiltBlock(b)], bs)
    BY <1>1 DEF Mapped
  <1>. QED BY <1>2, <1>3 DEF BlocksEvents, RebuiltBlocks

\* What becomes of a block is events, or a block with its whole text.
LEMMA BlockTypes ==
    /\ [b \in BlockType |-> BlockEvents(b)] \in [BlockType -> Seq(EventType)]
    /\ [b \in BlockType |-> RebuiltBlock(b)] \in [BlockType -> RebuiltBlockType]
  <1>1. \A b \in BlockType : BlockEvents(b) \in Seq(EventType)
    BY BlockHas
  <1>2. ASSUME NEW b \in BlockType PROVE RebuiltBlock(b) \in RebuiltBlockType
    <2>1. b.type \in Subject /\ b.deltas \in Seq(DeltaType)
      BY BlockHas
    <2>2. TextPart(b) \in Text
      <3>1. KeptOf(b.type, b.deltas) \in Text
        BY <2>1, KeptIsText
      <3>. QED BY <3>1 DEF TextPart, KeptOf
    <2>. QED BY <2>1, <2>2 DEF RebuiltBlock, RebuiltBlockType
  <1>. QED BY <1>1, <1>2

\* One block more.
LEMMA BlocksOneMore ==
    ASSUME NEW bs \in Seq(BlockType), NEW b \in BlockType
    PROVE  /\ BlocksEvents(bs) \in Seq(EventType)
           /\ RebuiltBlocks(bs) \in Seq(RebuiltBlockType)
           /\ RebuiltBlock(b) \in RebuiltBlockType
           /\ BlocksEvents(Append(bs, b)) = BlocksEvents(bs) \o BlockEvents(b)
           /\ RebuiltBlocks(Append(bs, b)) = Append(RebuiltBlocks(bs), RebuiltBlock(b))
  <1>. DEFINE F == [x \in BlockType |-> BlockEvents(x)]
              G == [x \in BlockType |-> RebuiltBlock(x)]
  <1>1. F \in [BlockType -> Seq(EventType)] /\ G \in [BlockType -> RebuiltBlockType]
    BY BlockTypes
  <1>2. F[b] = BlockEvents(b) /\ G[b] = RebuiltBlock(b)
    OBVIOUS
  <1>3. Append(bs, b) \in Seq(BlockType)
    BY AppendProperties
  <1>4. /\ BlocksEvents(bs) = FlattenSeq(Mapped(F, bs)) /\ RebuiltBlocks(bs) = Mapped(G, bs)
        /\ BlocksEvents(Append(bs, b)) = FlattenSeq(Mapped(F, Append(bs, b)))
        /\ RebuiltBlocks(Append(bs, b)) = Mapped(G, Append(bs, b))
    BY <1>3, BlocksAreMapped
  <1>. HIDE DEF F, G
  <1>5. Mapped(F, bs) \in Seq(Seq(EventType)) /\ Mapped(G, bs) \in Seq(RebuiltBlockType)
    BY <1>1, MappedType DEF IsMapped
  <1>6. /\ Mapped(F, Append(bs, b)) = Append(Mapped(F, bs), F[b])
        /\ Mapped(G, Append(bs, b)) = Append(Mapped(G, bs), G[b])
    <2>1. IsMappedOnce(F, bs, b) /\ IsMappedOnce(G, bs, b)
      BY <1>1, MappedOneMore
    <2>. QED BY <2>1, Zenon DEF IsMappedOnce
  <1>7. F[b] \in Seq(EventType) /\ G[b] \in RebuiltBlockType
    BY <1>1
  <1>8. /\ FlattenSeq(Mapped(F, bs)) \in Seq(EventType)
        /\ FlattenSeq(Append(Mapped(F, bs), F[b])) = FlattenSeq(Mapped(F, bs)) \o F[b]
    BY <1>5, <1>7, FlattenAppend
  <1>. QED BY <1>2, <1>4, <1>5, <1>6, <1>7, <1>8

\* No block.
LEMMA NoBlocks == BlocksEvents(<<>>) = <<>> /\ RebuiltBlocks(<<>>) = <<>> /\ <<>> \in Seq(BlockType)
  <1>1. [i \in DOMAIN <<>> |-> BlockEvents(<<>>[i])] = <<>> /\ [i \in DOMAIN <<>> |-> RebuiltBlock(<<>>[i])] = <<>>
    OBVIOUS
  <1>2. <<>> \in Seq(BlockType)
    OBVIOUS
  <1>. QED BY <1>1, <1>2, FlattenNone DEF BlocksEvents, RebuiltBlocks

\* Blocks are put together from their events.
LEMMA BlocksTogether ==
    ASSUME NEW blocks \in Seq(BlockType), NEW s, NEW st, NEW i, NEW o
    PROVE  FoldLeft(Reassembled, Together(s, <<>>, NoBlock, Nothing, st, i, o), BlocksEvents(blocks))
              = Together(s, RebuiltBlocks(blocks), NoBlock, Nothing, st, i, o)
  <1>. DEFINE R(w, evs) == FoldLeft(Reassembled, w, evs)
              At(bs) == Together(s, bs, NoBlock, Nothing, st, i, o)
              P == {bs \in Seq(BlockType) : R(At(<<>>), BlocksEvents(bs)) = At(RebuiltBlocks(bs))}
  <1>1. R(At(<<>>), <<>>) = At(<<>>)
    BY ReassembleNone
  <1>2. \A w, t, u : t \in Seq(EventType) /\ u \in Seq(EventType) => R(w, t \o u) = R(R(w, t), u)
    BY ReassembleBoth
  <1>3. \A bs, b : b \in BlockType => R(At(bs), BlockEvents(b)) = At(Append(bs, RebuiltBlock(b)))
    BY BlockTogether DEF RebuiltBlock
  <1>. HIDE DEF R, At
  <1>4. <<>> \in P
    BY <1>1, NoBlocks
  <1>5. ASSUME NEW bs \in Seq(BlockType), NEW b \in BlockType, bs \in P PROVE Append(bs, b) \in P
    <2>1. /\ BlocksEvents(bs) \in Seq(EventType) /\ BlockEvents(b) \in Seq(EventType)
          /\ BlocksEvents(Append(bs, b)) = BlocksEvents(bs) \o BlockEvents(b)
          /\ RebuiltBlocks(Append(bs, b)) = Append(RebuiltBlocks(bs), RebuiltBlock(b))
      BY BlocksOneMore, BlockHas
    <2>2. R(At(<<>>), BlocksEvents(Append(bs, b))) = R(At(RebuiltBlocks(bs)), BlockEvents(b))
      BY <1>2, <1>5, <2>1
    <2>3. Append(bs, b) \in Seq(BlockType)
      BY AppendProperties
    <2>. QED BY <1>3, <2>1, <2>2, <2>3
  <1>6. blocks \in P
    <2>. HIDE DEF P
    <2>. QED BY <1>4, <1>5, SequenceInduction
  <1>. QED BY <1>6 DEF R, At

\* What a message of the provider is made of.
LEMMA MessageHas ==
    ASSUME NEW m \in Messages
    PROVE  /\ m.blocks \in Seq(BlockType)
           /\ m.stop \in Subject /\ m.stop # NoStop
           /\ m.input \in Nat /\ m.output \in Nat
  <1>. DEFINE D == [kind : STRING, text : Seq(STRING)]
              B == [type : STRING \ {NoBlock}, deltas : Seq(D)]
  <1>1. m \in [blocks : Seq(B), stop : STRING \ {NoStop}, input : Nat, output : Nat]
    BY MessagesAssumption
  <1>2. ASSUME NEW i \in DOMAIN m.blocks, NEW j \in DOMAIN m.blocks[i].deltas
        PROVE  /\ m.blocks[i].deltas[j].kind = "text_delta" => m.blocks[i].type = "text"
               /\ m.blocks[i].deltas[j].kind = "thinking_delta" => m.blocks[i].type # "text"
    BY MessagesAssumption
  <1>. HIDE DEF B
  <1>3. m.blocks \in Seq(B) /\ m.stop \in STRING \ {NoStop} /\ m.input \in Nat /\ m.output \in Nat
    BY <1>1
  <1>4. Seq(STRING) \subseteq Text
    BY SeqMonotonic DEF Text
  <1>5. Seq(D) \subseteq Seq(DeltaType)
    <2>1. D \subseteq DeltaType
      BY <1>4 DEF DeltaType
    <2>. QED BY <2>1, SeqMonotonic
  <1>6. /\ Len(m.blocks) \in Nat /\ DOMAIN m.blocks = 1 .. Len(m.blocks)
        /\ \A i \in 1 .. Len(m.blocks) : m.blocks[i] \in B
    BY <1>3, LenProperties, ElementOfSeq
  <1>7. ASSUME NEW i \in 1 .. Len(m.blocks) PROVE m.blocks[i] \in BlockType
    <2>. DEFINE b == m.blocks[i]
    <2>1. b \in B
      BY <1>6
    <2>2. b \in [type : Subject \ {NoBlock}, deltas : Seq(DeltaType)] /\ b.deltas \in Seq(DeltaType)
      BY <1>5, <2>1 DEF B, Subject
    <2>3. /\ Len(b.deltas) \in Nat /\ DOMAIN b.deltas = 1 .. Len(b.deltas)
          /\ \A j \in 1 .. Len(b.deltas) : b.deltas[j] \in DeltaType
      BY <2>2, LenProperties, ElementOfSeq
    <2>4. ASSUME NEW j \in 1 .. Len(b.deltas) PROVE b.deltas[j] \in Fitting(b.type)
      BY <1>2, <1>6, <2>3 DEF Fitting
    <2>. HIDE DEF b
    <2>5. b.deltas = [j \in 1 .. Len(b.deltas) |-> b.deltas[j]]
      BY <2>2, <2>3
    <2>6. b.deltas \in Seq(Fitting(b.type))
      BY <2>3, <2>4, <2>5
    <2>7. b \in BlockType
      BY <2>2, <2>6 DEF BlockType
    <2>. QED BY <2>7 DEF b
  <1>8. m.blocks = [i \in 1 .. Len(m.blocks) |-> m.blocks[i]]
    BY <1>3, <1>6
  <1>9. m.blocks \in Seq(BlockType)
    BY <1>6, <1>7, <1>8
  <1>. QED BY <1>3, <1>9 DEF Subject

\* The events between the first and the last two.
ContentEvent ==
    {e \in EventType : e.type \in {"content_block_start", "content_block_delta", "content_block_stop"}}

\* Those of blocks are such.
LEMMA BlocksAreContent ==
    ASSUME NEW bs \in Seq(BlockType)
    PROVE  BlocksEvents(bs) \in Seq(ContentEvent)
  <1>. DEFINE F == [b \in BlockType |-> BlockEvents(b)]
  <1>1. ASSUME NEW b \in BlockType PROVE BlockEvents(b) \in Seq(ContentEvent)
    <2>. DEFINE start == Event("content_block_start", b.type, Nothing, 0)
                stop == Event("content_block_stop", b.type, Nothing, 0)
                deltas == Deltas(b.deltas)
    <2>1. /\ BlockEvents(b) = <<start>> \o deltas \o <<stop>>
          /\ deltas \in Seq(EventType) /\ b.type \in Subject
      BY BlockHas
    <2>2. start \in ContentEvent /\ stop \in ContentEvent
      BY <2>1, NothingIsText DEF Event, EventType, ContentEvent
    <2>3. deltas \in Seq(ContentEvent)
      <3>1. \A i \in DOMAIN deltas : deltas[i].type = "content_block_delta"
        BY DEF Deltas, Event
      <3>. HIDE DEF deltas
      <3>2. \A i \in 1 .. Len(deltas) : deltas[i] \in ContentEvent
        <4>1. DOMAIN deltas = 1 .. Len(deltas) /\ \A i \in 1 .. Len(deltas) : deltas[i] \in EventType
          BY <2>1, LenProperties, ElementOfSeq
        <4>. QED BY <3>1, <4>1 DEF ContentEvent
      <3>3. Len(deltas) \in Nat /\ deltas = [i \in 1 .. Len(deltas) |-> deltas[i]]
        BY <2>1, LenProperties
      <3>. QED BY <3>2, <3>3
    <2>. HIDE DEF start, stop, deltas
    <2>4. <<start>> \in Seq(ContentEvent) /\ <<stop>> \in Seq(ContentEvent)
      BY <2>2
    <2>5. <<start>> \o deltas \in Seq(ContentEvent)
      BY <2>3, <2>4, ConcatProperties
    <2>. QED BY <2>1, <2>4, <2>5, ConcatProperties
  <1>2. F \in [BlockType -> Seq(ContentEvent)]
    BY <1>1
  <1>3. BlocksEvents(bs) = FlattenSeq(Mapped(F, bs))
    BY BlocksAreMapped
  <1>. HIDE DEF F
  <1>4. Mapped(F, bs) \in Seq(Seq(ContentEvent))
    BY <1>2, MappedType DEF IsMapped
  <1>. QED BY <1>3, <1>4, FlattenAppend, EmptySeq

\* A message's events in their order.
LEMMA EventsAre ==
    ASSUME NEW m \in Messages
    PROVE  LET start == Event("message_start", "", Nothing, m.input)
               delta == Event("message_delta", m.stop, Nothing, m.output)
               stop == Event("message_stop", "", Nothing, 0)
               n == Len(EventsOf(m))
           IN  /\ EventsOf(m) = <<start>> \o BlocksEvents(m.blocks) \o <<delta, stop>>
               /\ start \in EventType /\ delta \in EventType /\ stop \in EventType
               /\ BlocksEvents(m.blocks) \in Seq(ContentEvent)
               /\ BlocksEvents(m.blocks) \in Seq(EventType)
               /\ EventsOf(m) \in Seq(EventType)
               /\ n \in Nat /\ n >= 3
               /\ EventsOf(m)[1] = start /\ EventsOf(m)[n - 1] = delta /\ EventsOf(m)[n] = stop
               /\ \A i \in 2 .. n - 2 : EventsOf(m)[i] \in ContentEvent
  <1>. DEFINE start == Event("message_start", "", Nothing, m.input)
              delta == Event("message_delta", m.stop, Nothing, m.output)
              stop == Event("message_stop", "", Nothing, 0)
              mid == BlocksEvents(m.blocks)
              ev == EventsOf(m)
              n == Len(ev)
              k == Len(mid)
  <1>1. ev = <<start>> \o mid \o <<delta, stop>>
    BY DEF EventsOf, BlocksEvents
  <1>2. start \in EventType /\ delta \in EventType /\ stop \in EventType
    <2>1. m.stop \in Subject /\ m.input \in Nat /\ m.output \in Nat /\ "" \in Subject
      BY MessageHas DEF Subject
    <2>. QED BY <2>1, NothingIsText DEF Event, EventType
  <1>3. mid \in Seq(ContentEvent)
    BY MessageHas, BlocksAreContent
  <1>4. mid \in Seq(EventType)
    <2>1. ContentEvent \subseteq EventType
      BY DEF ContentEvent
    <2>. QED BY <1>3, <2>1, SeqMonotonic
  <1>. HIDE DEF start, delta, stop, mid, ev
  <1>5. <<start>> \in Seq(EventType) /\ <<delta, stop>> \in Seq(EventType)
    BY <1>2
  <1>6. /\ Len(<<start>>) = 1 /\ <<start>>[1] = start
        /\ Len(<<delta, stop>>) = 2 /\ <<delta, stop>>[1] = delta /\ <<delta, stop>>[2] = stop
    OBVIOUS
  <1>7. k \in Nat /\ \A i \in 1 .. k : mid[i] \in ContentEvent
    BY <1>3, LenProperties, ElementOfSeq
  <1>. DEFINE front == <<start>> \o mid
  <1>8. /\ front \in Seq(EventType) /\ Len(front) = 1 + k
        /\ \A i \in 1 .. 1 + k : front[i] = IF i <= 1 THEN <<start>>[i] ELSE mid[i - 1]
    <2>1. /\ <<start>> \o mid \in Seq(EventType)
          /\ Len(<<start>> \o mid) = Len(<<start>>) + Len(mid)
          /\ \A i \in 1 .. Len(<<start>>) + Len(mid) :
                (<<start>> \o mid)[i] = IF i <= Len(<<start>>) THEN <<start>>[i] ELSE mid[i - Len(<<start>>)]
      BY <1>4, <1>5, ConcatProperties
    <2>. QED BY <1>6, <2>1
  <1>9. ev = front \o <<delta, stop>>
    BY <1>1
  <1>. HIDE DEF front
  <1>10. /\ ev \in Seq(EventType) /\ Len(ev) = 3 + k
         /\ \A i \in 1 .. 3 + k : ev[i] = IF i <= 1 + k THEN front[i] ELSE <<delta, stop>>[i - (1 + k)]
    <2>1. /\ front \o <<delta, stop>> \in Seq(EventType)
          /\ Len(front \o <<delta, stop>>) = Len(front) + Len(<<delta, stop>>)
          /\ \A i \in 1 .. Len(front) + Len(<<delta, stop>>) :
                (front \o <<delta, stop>>)[i]
                   = IF i <= Len(front) THEN front[i] ELSE <<delta, stop>>[i - Len(front)]
      BY <1>5, <1>8, ConcatProperties
    <2>2. Len(front) + Len(<<delta, stop>>) = 3 + k
      BY <1>6, <1>7, <1>8
    <2>. QED BY <1>7, <1>8, <1>9, <2>1, <2>2
  <1>. HIDE DEF k
  <1>11. n = 3 + k /\ n \in Nat /\ n >= 3
    BY <1>7, <1>10
  <1>. HIDE DEF n
  <1>12. ev[1] = start
    <2>1. 1 \in 1 .. 3 + k /\ 1 <= 1 + k /\ 1 \in 1 .. 1 + k
      BY <1>7
    <2>. QED BY <1>6, <1>8, <1>10, <2>1
  <1>13. ev[n - 1] = delta /\ ev[n] = stop
    <2>1. /\ n - 1 \in 1 .. 3 + k /\ ~(n - 1 <= 1 + k) /\ n - 1 - (1 + k) = 1
          /\ n \in 1 .. 3 + k /\ ~(n <= 1 + k) /\ n - (1 + k) = 2
      BY <1>7, <1>11
    <2>2. /\ ev[n - 1] = <<delta, stop>>[n - 1 - (1 + k)]
          /\ ev[n] = <<delta, stop>>[n - (1 + k)]
      BY <1>10, <2>1
    <2>. QED BY <1>6, <2>1, <2>2
  <1>14. ASSUME NEW i \in 2 .. n - 2 PROVE ev[i] \in ContentEvent
    <2>1. i \in 1 .. 3 + k /\ i <= 1 + k /\ i \in 1 .. 1 + k /\ ~(i <= 1) /\ i - 1 \in 1 .. k
      BY <1>7, <1>11
    <2>2. ev[i] = front[i]
      BY <1>10, <2>1
    <2>3. front[i] = mid[i - 1]
      BY <1>8, <2>1
    <2>. QED BY <1>7, <2>1, <2>2, <2>3
  <1>. QED BY <1>1, <1>2, <1>3, <1>4, <1>10, <1>11, <1>12, <1>13, <1>14 DEF start, delta, stop, mid, ev, n

\* What is put together of a message has its blocks, and the same texts of text.
LEMMA RebuiltIs ==
    ASSUME NEW m
    PROVE  /\ Rebuilt(Whole(m)) = [blocks |-> RebuiltBlocks(m.blocks),
                                   stop |-> m.stop, input |-> m.input, output |-> m.output]
           /\ TextOf(RebuiltBlocks(m.blocks)) = TextOf(Whole(m).blocks)
  <1>. DEFINE bs == [i \in DOMAIN m.blocks |-> [type |-> m.blocks[i].type, text |-> TextPart(m.blocks[i]),
                                              rest |-> RestPart(m.blocks[i])]]
              rs == [i \in DOMAIN bs |-> [type |-> bs[i].type, text |-> bs[i].text, rest |-> Nothing]]
  <1>1. Whole(m) = [blocks |-> bs, stop |-> m.stop, input |-> m.input, output |-> m.output]
    BY DEF Whole
  <1>2. rs = RebuiltBlocks(m.blocks)
    BY DEF RebuiltBlocks, RebuiltBlock
  <1>3. /\ DOMAIN rs = DOMAIN bs
        /\ \A i \in DOMAIN bs : rs[i].type = bs[i].type /\ rs[i].text = bs[i].text
    OBVIOUS
  <1>4. Whole(m).blocks = bs
    BY <1>1
  <1>5. Rebuilt(Whole(m)) = [Whole(m) EXCEPT !.blocks = rs]
    <2>. HIDE DEF bs
    <2>. QED BY <1>4 DEF Rebuilt
  <1>. HIDE DEF bs, rs
  <1>6. Rebuilt(Whole(m)) = [blocks |-> rs, stop |-> m.stop, input |-> m.input, output |-> m.output]
    BY <1>1, <1>5
  <1>7. TextOf(rs) = TextOf(bs)
    BY <1>3 DEF TextOf
  <1>. QED BY <1>2, <1>4, <1>6, <1>7

\* Whatever the provider answers: put together again from the events of its stream
\* (process_event_block and into_message of SseReassembler) it is the same message, with all
\* blocks, their texts, the reason it stopped and its usage, but without the signatures and
\* what is in blocks other than of text, thoughts and the use of tools.
THEOREM MessageTogether ==
    ASSUME NEW m \in Messages
    PROVE  IntoMessage(FoldLeft(Reassembled, NewReassembler, EventsOf(m))) = Rebuilt(Whole(m))
  <1>. DEFINE start == Event("message_start", "", Nothing, m.input)
              delta == Event("message_delta", m.stop, Nothing, m.output)
              stop == Event("message_stop", "", Nothing, 0)
              mid == BlocksEvents(m.blocks)
              w0 == Together(FALSE, <<>>, NoBlock, Nothing, NoStop, 0, 0)
              w1 == Together(TRUE, <<>>, NoBlock, Nothing, NoStop, m.input, 1)
              w2 == Together(TRUE, RebuiltBlocks(m.blocks), NoBlock, Nothing, NoStop, m.input, 1)
              w3 == Together(TRUE, RebuiltBlocks(m.blocks), NoBlock, Nothing, m.stop, m.input, m.output)
  <1>1. /\ EventsOf(m) = <<start>> \o mid \o <<delta, stop>>
        /\ start \in EventType /\ delta \in EventType /\ stop \in EventType
        /\ mid \in Seq(EventType)
    BY EventsAre
  <1>2. /\ Reassembled(w0, start) = w1
        /\ Reassembled(w2, delta) = w3
        /\ Reassembled(w3, stop) = w3
    <2>1. Reassembled(w0, start) = w1
      BY DEF Reassembled, Together, Event
    <2>2. Reassembled(w2, delta) = w3
      BY DEF Reassembled, Together, Event
    <2>3. Reassembled(w3, stop) = w3
      BY DEF Reassembled, Together, Event
    <2>. QED BY <2>1, <2>2, <2>3
  <1>3. FoldLeft(Reassembled, w1, mid) = w2
    BY MessageHas, BlocksTogether
  <1>4. NewReassembler = w0
    BY DEF NewReassembler, Together
  <1>. HIDE DEF start, delta, stop, mid, w0, w1, w2, w3
  <1>5. <<start>> \in Seq(EventType) /\ <<delta>> \in Seq(EventType) /\ <<delta, stop>> = Append(<<delta>>, stop)
        /\ <<delta, stop>> \in Seq(EventType)
    BY <1>1
  <1>6. FoldLeft(Reassembled, w0, <<start>>) = w1
    BY <1>1, <1>2, ReassembleSingle
  <1>7. FoldLeft(Reassembled, w2, <<delta, stop>>) = w3
    <2>1. FoldLeft(Reassembled, w2, <<delta>>) = w3
      BY <1>1, <1>2, ReassembleSingle
    <2>. QED BY <1>1, <1>2, <1>5, <2>1, ReassembleOne
  <1>8. <<start>> \o mid \in Seq(EventType)
    BY <1>1, <1>5, ConcatProperties
  <1>9. FoldLeft(Reassembled, w0, <<start>> \o mid) = w2
    BY <1>1, <1>3, <1>5, <1>6, ReassembleBoth
  <1>10. FoldLeft(Reassembled, w0, (<<start>> \o mid) \o <<delta, stop>>) = w3
    BY <1>5, <1>7, <1>8, <1>9, ReassembleBoth
  <1>11. IntoMessage(w3) = Rebuilt(Whole(m))
    <2>1. IntoMessage(w3) = [blocks |-> RebuiltBlocks(m.blocks),
                             stop |-> m.stop, input |-> m.input, output |-> m.output]
      BY DEF w3, IntoMessage, Together
    <2>2. Rebuilt(Whole(m)) = [blocks |-> RebuiltBlocks(m.blocks),
                               stop |-> m.stop, input |-> m.input, output |-> m.output]
      BY RebuiltIs
    <2>. QED BY <2>1, <2>2
  <1>. QED BY <1>1, <1>4, <1>10, <1>11

-----------------------------------------------------------------------------
(* The text that is shown.                                                 *)

\* Of an event, and of events one after the other.
Visible(e) == IF e.type = "content_block_delta" /\ e.of = "text_delta" THEN e.text ELSE Nothing
Shown(evs) == FlattenSeq([i \in DOMAIN evs |-> Visible(evs[i])])

\* No text adds nothing.
LEMMA NothingAdds == \A t \in Text : t \o Nothing = t /\ Nothing \o t = t
  BY ConcatEmptySeq DEF Text, Nothing

\* What is shown is what each event shows, put together.
LEMMA ShownMapped ==
    ASSUME NEW evs \in Seq(EventType)
    PROVE  /\ Shown(evs) = FlattenSeq(Mapped([e \in EventType |-> Visible(e)], evs))
           /\ Mapped([e \in EventType |-> Visible(e)], evs) \in Seq(Text)
           /\ Shown(evs) \in Text
           /\ [e \in EventType |-> Visible(e)] \in [EventType -> Text]
  <1>. DEFINE F == [e \in EventType |-> Visible(e)]
  <1>1. \A i \in DOMAIN evs : evs[i] \in EventType
    BY LenProperties, ElementOfSeq
  <1>2. [i \in DOMAIN evs |-> Visible(evs[i])] = Mapped(F, evs)
    BY <1>1 DEF Mapped
  <1>3. F \in [EventType -> Text]
    BY NothingIsText DEF Visible, EventType
  <1>. HIDE DEF F
  <1>4. Mapped(F, evs) \in Seq(Text)
    BY <1>3, MappedType DEF IsMapped
  <1>5. FlattenSeq(Mapped(F, evs)) \in Text
    BY <1>4, FlattenAppend, EmptySeq DEF Text
  <1>. QED BY <1>2, <1>3, <1>4, <1>5 DEF Shown, F

\* Of two sequences of events.
LEMMA ShownBoth ==
    ASSUME NEW s \in Seq(EventType), NEW t \in Seq(EventType)
    PROVE  Shown(s \o t) = Shown(s) \o Shown(t)
  <1>. DEFINE F == [e \in EventType |-> Visible(e)]
  <1>1. s \o t \in Seq(EventType)
    BY ConcatProperties
  <1>2. /\ Shown(s) = FlattenSeq(Mapped(F, s)) /\ Mapped(F, s) \in Seq(Text)
        /\ Shown(t) = FlattenSeq(Mapped(F, t)) /\ Mapped(F, t) \in Seq(Text)
        /\ Shown(s \o t) = FlattenSeq(Mapped(F, s \o t))
        /\ F \in [EventType -> Text]
    BY <1>1, ShownMapped
  <1>. HIDE DEF F
  <1>3. Mapped(F, s \o t) = Mapped(F, s) \o Mapped(F, t)
    <2>1. F \in [EventType -> Text]
      BY <1>2
    <2>2. IsMappedApart(F, s, t)
      BY <2>1, MappedBoth
    <2>. QED BY <2>2 DEF IsMappedApart
  <1>4. FlattenSeq(Mapped(F, s) \o Mapped(F, t)) = FlattenSeq(Mapped(F, s)) \o FlattenSeq(Mapped(F, t))
    BY <1>2, FlattenConcat DEF Text
  <1>. QED BY <1>2, <1>3, <1>4

\* Of none.
LEMMA ShownNone == Shown(<<>>) = Nothing
  <1>1. [i \in DOMAIN <<>> |-> Visible(<<>>[i])] = <<>>
    OBVIOUS
  <1>. QED BY <1>1, FlattenNone DEF Shown, Nothing

\* Of one more.
LEMMA ShownOneMore ==
    ASSUME NEW s \in Seq(EventType), NEW e \in EventType
    PROVE  Shown(Append(s, e)) = Shown(s) \o Visible(e)
  <1>. DEFINE F == [x \in EventType |-> Visible(x)]
  <1>1. Append(s, e) \in Seq(EventType)
    BY AppendProperties
  <1>2. /\ Shown(s) = FlattenSeq(Mapped(F, s)) /\ Mapped(F, s) \in Seq(Text)
        /\ Shown(Append(s, e)) = FlattenSeq(Mapped(F, Append(s, e)))
        /\ F \in [EventType -> Text]
    BY <1>1, ShownMapped
  <1>3. F[e] = Visible(e)
    OBVIOUS
  <1>. HIDE DEF F
  <1>4. Mapped(F, Append(s, e)) = Append(Mapped(F, s), F[e]) /\ F[e] \in Text
    <2>1. F \in [EventType -> Text] /\ F[e] \in Text
      BY <1>2
    <2>2. IsMappedOnce(F, s, e)
      BY <2>1, MappedOneMore
    <2>. QED BY <2>1, <2>2, Zenon DEF IsMappedOnce
  <1>5. FlattenSeq(Append(Mapped(F, s), F[e])) = FlattenSeq(Mapped(F, s)) \o F[e]
    BY <1>2, <1>4, FlattenAppend DEF Text
  <1>. QED BY <1>2, <1>3, <1>4, <1>5

\* Of one.
LEMMA ShownSingle ==
    ASSUME NEW e \in EventType
    PROVE  Shown(<<e>>) = Visible(e)
  <1>1. <<>> \in Seq(EventType) /\ Append(<<>>, e) = <<e>>
    OBVIOUS
  <1>2. Shown(Append(<<>>, e)) = Shown(<<>>) \o Visible(e)
    BY <1>1, ShownOneMore
  <1>3. Visible(e) \in Text
    BY NothingIsText DEF Visible, EventType
  <1>. QED BY <1>1, <1>2, <1>3, ShownNone, NothingAdds

\* A block of text shows its texts, any other nothing.
LEMMA ShownDeltas ==
    ASSUME NEW type, NEW deltas \in Seq(Fitting(type))
    PROVE  Shown(Deltas(deltas)) = IF type = "text" THEN KeptOf(type, deltas) ELSE Nothing
  <1>. DEFINE Says(ds) == IF type = "text" THEN KeptOf(type, ds) ELSE Nothing
              P == {ds \in Seq(Fitting(type)) : Shown(Deltas(ds)) = Says(ds)}
  <1>1. <<>> \in P
    <2>1. Deltas(<<>>) = <<>> /\ <<>> \in Seq(Fitting(type))
      BY DEF Deltas
    <2>2. Says(<<>>) = Nothing
      BY KeptNone
    <2>. QED BY <2>1, <2>2, ShownNone
  <1>2. ASSUME NEW ds \in Seq(Fitting(type)), NEW d \in Fitting(type), ds \in P PROVE Append(ds, d) \in P
    <2>. DEFINE e == Event("content_block_delta", d.kind, d.text, 0)
    <2>1. d \in DeltaType /\ ds \in Seq(DeltaType)
      <3>1. Fitting(type) \subseteq DeltaType
        BY DEF Fitting
      <3>. QED BY <3>1, SeqMonotonic
    <2>2. /\ e \in EventType /\ Deltas(ds) \in Seq(EventType)
          /\ Deltas(Append(ds, d)) = Append(Deltas(ds), e)
      BY <2>1, DeltasAreEvents, DeltasOneMore
    <2>3. Visible(e) = IF type = "text" THEN Kept(type, d.kind, d.text) ELSE Nothing
      <3>1. Visible(e) = IF d.kind = "text_delta" THEN d.text ELSE Nothing
        BY DEF Event, Visible
      <3>2. d.kind = "text_delta" => type = "text"
        BY DEF Fitting
      <3>3. type = "text" => d.kind # "thinking_delta"
        BY DEF Fitting
      <3>4. type = "text" => CollectedBy(type) = {"text_delta", "thinking_delta"}
        BY DEF CollectedBy
      <3>. QED BY <3>1, <3>2, <3>3, <3>4 DEF Kept
    <2>. HIDE DEF e
    <2>4. Shown(Deltas(Append(ds, d))) = Says(ds) \o Visible(e)
      BY <1>2, <2>2, ShownOneMore
    <2>5. Says(Append(ds, d)) = Says(ds) \o Visible(e)
      <3>1. CASE type = "text"
        <4>1. KeptOf(type, Append(ds, d)) = KeptOf(type, ds) \o Kept(type, d.kind, d.text)
          BY <2>1, KeptOneMore
        <4>. QED BY <2>3, <3>1, <4>1
      <3>2. CASE type # "text"
        BY <2>3, <3>2, NothingAdds, NothingIsText
      <3>. QED BY <3>1, <3>2
    <2>6. Append(ds, d) \in Seq(Fitting(type))
      BY AppendProperties
    <2>. HIDE DEF Says
    <2>. QED BY <2>4, <2>5, <2>6
  <1>3. deltas \in P
    <2>. HIDE DEF P
    <2>. QED BY <1>1, <1>2, SequenceInduction
  <1>. QED BY <1>3

\* Of the events of a block: its text, if it is one of text.
LEMMA ShownBlock ==
    ASSUME NEW b \in BlockType
    PROVE  Shown(BlockEvents(b)) = IF b.type = "text" THEN TextPart(b) ELSE Nothing
  <1>. DEFINE start == Event("content_block_start", b.type, Nothing, 0)
              stop == Event("content_block_stop", b.type, Nothing, 0)
              deltas == Deltas(b.deltas)
              of == IF b.type = "text" THEN TextPart(b) ELSE Nothing
  <1>1. /\ BlockEvents(b) = <<start>> \o deltas \o <<stop>>
        /\ <<start>> \in Seq(EventType) /\ deltas \in Seq(EventType) /\ <<stop>> \in Seq(EventType)
        /\ b.deltas \in Seq(Fitting(b.type))
    BY BlockHas
  <1>2. /\ start \in EventType /\ stop \in EventType
        /\ Visible(start) = Nothing /\ Visible(stop) = Nothing
    BY <1>1, NothingIsText DEF Event, EventType, Visible
  <1>3. Shown(deltas) = of
    <2>1. TextPart(b) = KeptOf(b.type, b.deltas)
      BY DEF TextPart, KeptOf
    <2>. QED BY <1>1, <2>1, ShownDeltas
  <1>4. Shown(deltas) \in Text
    BY <1>1, ShownMapped
  <1>. HIDE DEF start, stop, deltas, of
  <1>5. Shown(<<start>>) = Nothing /\ Shown(<<stop>>) = Nothing
    BY <1>2, ShownSingle
  <1>6. Shown(<<start>> \o deltas) = Shown(deltas)
    <2>1. Shown(<<start>> \o deltas) = Shown(<<start>>) \o Shown(deltas)
      BY <1>1, ShownBoth
    <2>. QED BY <1>4, <1>5, <2>1, NothingAdds
  <1>7. Shown((<<start>> \o deltas) \o <<stop>>) = Shown(<<start>> \o deltas) \o Shown(<<stop>>)
    <2>1. <<start>> \o deltas \in Seq(EventType)
      BY <1>1, ConcatProperties
    <2>. QED BY <1>1, <2>1, ShownBoth
  <1>8. Shown(BlockEvents(b)) = of
    BY <1>1, <1>3, <1>4, <1>5, <1>6, <1>7, NothingAdds
  <1>. QED BY <1>8 DEF of

\* TextOf of one block more.
TextIn(b) == IF b.type = "text" THEN b.text ELSE Nothing

\* The text of one more block.
LEMMA TextOneMore ==
    ASSUME NEW bs \in Seq(RebuiltBlockType), NEW b \in RebuiltBlockType
    PROVE  TextOf(Append(bs, b)) = TextOf(bs) \o TextIn(b)
  <1>. DEFINE F == [x \in RebuiltBlockType |-> TextIn(x)]
  <1>1. Append(bs, b) \in Seq(RebuiltBlockType)
    BY AppendProperties
  <1>2. ASSUME NEW s \in Seq(RebuiltBlockType) PROVE TextOf(s) = FlattenSeq(Mapped(F, s))
    <2>1. \A i \in DOMAIN s : s[i] \in RebuiltBlockType
      BY LenProperties, ElementOfSeq
    <2>2. [i \in DOMAIN s |-> IF s[i].type = "text" THEN s[i].text ELSE Nothing] = Mapped(F, s)
      BY <2>1 DEF Mapped, TextIn
    <2>. QED BY <2>2 DEF TextOf
  <1>3. F \in [RebuiltBlockType -> Text] /\ F[b] = TextIn(b)
    BY NothingIsText DEF TextIn, RebuiltBlockType
  <1>. HIDE DEF F
  <1>4. Mapped(F, Append(bs, b)) = Append(Mapped(F, bs), F[b]) /\ F[b] \in Text /\ Mapped(F, bs) \in Seq(Text)
    <2>1. F \in [RebuiltBlockType -> Text]
      BY <1>3
    <2>2. IsMapped(F, bs, Text)
      BY <2>1, MappedType
    <2>3. IsMappedOnce(F, bs, b)
      BY <2>1, MappedOneMore
    <2>. QED BY <2>1, <2>2, <2>3 DEF IsMapped, IsMappedOnce
  <1>5. FlattenSeq(Append(Mapped(F, bs), F[b])) = FlattenSeq(Mapped(F, bs)) \o F[b]
    BY <1>4, FlattenAppend DEF Text
  <1>. QED BY <1>1, <1>2, <1>3, <1>4, <1>5

\* Blocks show what they hold as a whole.
LEMMA ShownBlocks ==
    ASSUME NEW blocks \in Seq(BlockType)
    PROVE  Shown(BlocksEvents(blocks)) = TextOf(RebuiltBlocks(blocks))
  <1>. DEFINE P == {bs \in Seq(BlockType) : Shown(BlocksEvents(bs)) = TextOf(RebuiltBlocks(bs))}
  <1>1. <<>> \in P
    <2>1. [i \in DOMAIN <<>> |-> IF <<>>[i].type = "text" THEN <<>>[i].text ELSE Nothing] = <<>>
      OBVIOUS
    <2>2. TextOf(<<>>) = Nothing
      BY <2>1, FlattenNone DEF TextOf, Nothing
    <2>. QED BY <2>2, NoBlocks, ShownNone
  <1>2. ASSUME NEW bs \in Seq(BlockType), NEW b \in BlockType, bs \in P PROVE Append(bs, b) \in P
    <2>1. /\ BlocksEvents(bs) \in Seq(EventType) /\ RebuiltBlocks(bs) \in Seq(RebuiltBlockType)
          /\ RebuiltBlock(b) \in RebuiltBlockType /\ BlockEvents(b) \in Seq(EventType)
          /\ BlocksEvents(Append(bs, b)) = BlocksEvents(bs) \o BlockEvents(b)
          /\ RebuiltBlocks(Append(bs, b)) = Append(RebuiltBlocks(bs), RebuiltBlock(b))
      BY BlocksOneMore, BlockHas
    <2>2. Shown(BlocksEvents(Append(bs, b))) = Shown(BlocksEvents(bs)) \o Shown(BlockEvents(b))
      BY <2>1, ShownBoth
    <2>3. TextOf(RebuiltBlocks(Append(bs, b))) = TextOf(RebuiltBlocks(bs)) \o TextIn(RebuiltBlock(b))
      BY <2>1, TextOneMore
    <2>4. TextIn(RebuiltBlock(b)) = Shown(BlockEvents(b))
      BY ShownBlock DEF TextIn, RebuiltBlock
    <2>5. Append(bs, b) \in Seq(BlockType)
      BY AppendProperties
    <2>. QED BY <1>2, <2>2, <2>3, <2>4, <2>5
  <1>3. blocks \in P
    <2>. HIDE DEF P
    <2>. QED BY <1>1, <1>2, SequenceInduction
  <1>. QED BY <1>3

\* And the text that the events of a message show to a client of OpenAI, delta by delta
\* (SseAnthropicToOpenai), is that of the message's blocks of text, none left out or twice.
THEOREM MessageShown ==
    ASSUME NEW m \in Messages
    PROVE  Shown(EventsOf(m)) = TextOf(Whole(m).blocks)
  <1>. DEFINE start == Event("message_start", "", Nothing, m.input)
              delta == Event("message_delta", m.stop, Nothing, m.output)
              stop == Event("message_stop", "", Nothing, 0)
              mid == BlocksEvents(m.blocks)
  <1>1. /\ EventsOf(m) = <<start>> \o mid \o <<delta, stop>>
        /\ start \in EventType /\ delta \in EventType /\ stop \in EventType
        /\ mid \in Seq(EventType)
    BY EventsAre
  <1>2. Visible(start) = Nothing /\ Visible(delta) = Nothing /\ Visible(stop) = Nothing
    BY DEF Visible, Event
  <1>3. Shown(mid) = TextOf(Whole(m).blocks)
    BY MessageHas, ShownBlocks, RebuiltIs
  <1>. HIDE DEF start, delta, stop, mid
  <1>4. /\ <<start>> \in Seq(EventType) /\ <<delta>> \in Seq(EventType)
        /\ <<delta, stop>> = Append(<<delta>>, stop) /\ <<delta, stop>> \in Seq(EventType)
    BY <1>1
  <1>5. Shown(<<start>>) = Nothing /\ Shown(<<delta, stop>>) = Nothing
    <2>1. Shown(<<start>>) = Nothing /\ Shown(<<delta>>) = Nothing
      BY <1>1, <1>2, ShownSingle
    <2>2. Shown(Append(<<delta>>, stop)) = Shown(<<delta>>) \o Visible(stop)
      BY <1>1, <1>4, ShownOneMore
    <2>. QED BY <1>2, <1>4, <2>1, <2>2, NothingAdds, NothingIsText
  <1>6. Shown(<<start>> \o mid) = Shown(<<start>>) \o Shown(mid)
    BY <1>1, <1>4, ShownBoth
  <1>7. Shown((<<start>> \o mid) \o <<delta, stop>>) = Shown(<<start>> \o mid) \o Shown(<<delta, stop>>)
    <2>1. <<start>> \o mid \in Seq(EventType)
      BY <1>1, <1>4, ConcatProperties
    <2>. QED BY <1>4, <2>1, ShownBoth
  <1>8. Shown(mid) \in Text
    BY <1>1, ShownMapped
  <1>. QED BY <1>1, <1>3, <1>5, <1>6, <1>7, <1>8, NothingAdds

-----------------------------------------------------------------------------
(* What is passed on.                                                      *)

\* The chunks of an OpenAI client.
ChunkType == [kind : {"role", "content", "finish", "done"}, text : Text,
              stop : {"", "length", "tool_calls", "stop"}, input : {0}, output : {0}]
ContentIn(c) == IF c.kind = "content" THEN c.text ELSE Nothing

\* An event makes at most one, which shows what the event does.
LEMMA ChunksOfEvent ==
    ASSUME NEW e \in EventType
    PROVE  \/ /\ OpenaiChunks(e) = <<>> /\ Visible(e) = Nothing
              /\ e.type \notin {"message_start", "message_stop"}
              /\ e.type = "message_delta" => e.of = NoStop
           \/ \E c \in ChunkType :
                 /\ OpenaiChunks(e) = <<c>> /\ ContentIn(c) = Visible(e)
                 /\ e.type = "message_start" => c.kind = "role"
                 /\ e.type = "message_delta" => c.kind = "finish"
                 /\ e.type = "message_stop" => c.kind = "done"
  <1>1. CASE e.type = "message_start"
    <2>. DEFINE c == Chunk("role", Nothing, "", 0, 0)
    <2>1. c \in ChunkType /\ c.kind = "role" /\ ContentIn(c) = Nothing
      BY NothingIsText DEF Chunk, ChunkType, ContentIn
    <2>2. OpenaiChunks(e) = <<c>> /\ Visible(e) = Nothing
      BY <1>1 DEF OpenaiChunks, Visible
    <2>. HIDE DEF c
    <2>. QED BY <1>1, <2>1, <2>2
  <1>2. CASE e.type = "content_block_delta" /\ e.of = "text_delta"
    <2>. DEFINE c == Chunk("content", e.text, "", 0, 0)
    <2>1. c \in ChunkType /\ c.kind = "content" /\ ContentIn(c) = e.text
      BY DEF Chunk, ChunkType, ContentIn, EventType
    <2>2. OpenaiChunks(e) = <<c>> /\ Visible(e) = e.text
      BY <1>2 DEF OpenaiChunks, Visible
    <2>. HIDE DEF c
    <2>. QED BY <1>2, <2>1, <2>2
  <1>3. CASE e.type = "message_delta" /\ e.of # NoStop
    <2>. DEFINE c == Chunk("finish", Nothing, OpenaiStop(e.of), 0, 0)
    <2>1. c \in ChunkType /\ c.kind = "finish" /\ ContentIn(c) = Nothing
      BY NothingIsText DEF Chunk, ChunkType, ContentIn, OpenaiStop
    <2>2. OpenaiChunks(e) = <<c>> /\ Visible(e) = Nothing
      BY <1>3 DEF OpenaiChunks, Visible
    <2>. HIDE DEF c
    <2>. QED BY <1>3, <2>1, <2>2
  <1>4. CASE e.type = "message_stop"
    <2>. DEFINE c == Chunk("done", Nothing, "", 0, 0)
    <2>1. c \in ChunkType /\ c.kind = "done" /\ ContentIn(c) = Nothing
      BY NothingIsText DEF Chunk, ChunkType, ContentIn
    <2>2. OpenaiChunks(e) = <<c>> /\ Visible(e) = Nothing
      BY <1>4 DEF OpenaiChunks, Visible
    <2>. HIDE DEF c
    <2>. QED BY <1>4, <2>1, <2>2
  <1>5. CASE /\ e.type # "message_start" /\ ~(e.type = "content_block_delta" /\ e.of = "text_delta")
             /\ ~(e.type = "message_delta" /\ e.of # NoStop) /\ e.type # "message_stop"
    <2>1. OpenaiChunks(e) = <<>> /\ Visible(e) = Nothing
      BY <1>5 DEF OpenaiChunks, Visible
    <2>. QED BY <1>5, <2>1
  <1>. QED BY <1>1, <1>2, <1>3, <1>4, <1>5

\* One chunk more.
LEMMA ContentOneMore ==
    ASSUME NEW cs \in Seq(ChunkType), NEW c \in ChunkType
    PROVE  ContentOf(Append(cs, c)) = ContentOf(cs) \o ContentIn(c)
  <1>. DEFINE F == [x \in ChunkType |-> ContentIn(x)]
  <1>1. Append(cs, c) \in Seq(ChunkType)
    BY AppendProperties
  <1>2. ASSUME NEW s \in Seq(ChunkType) PROVE ContentOf(s) = FlattenSeq(Mapped(F, s))
    <2>1. \A i \in DOMAIN s : s[i] \in ChunkType
      BY LenProperties, ElementOfSeq
    <2>2. [i \in DOMAIN s |-> IF s[i].kind = "content" THEN s[i].text ELSE Nothing] = Mapped(F, s)
      BY <2>1 DEF Mapped, ContentIn
    <2>. QED BY <2>2 DEF ContentOf
  <1>3. F \in [ChunkType -> Text] /\ F[c] = ContentIn(c)
    BY NothingIsText DEF ContentIn, ChunkType
  <1>. HIDE DEF F
  <1>4. Mapped(F, Append(cs, c)) = Append(Mapped(F, cs), F[c]) /\ F[c] \in Text /\ Mapped(F, cs) \in Seq(Text)
    <2>1. F \in [ChunkType -> Text]
      BY <1>3
    <2>2. IsMapped(F, cs, Text)
      BY <2>1, MappedType
    <2>3. IsMappedOnce(F, cs, c)
      BY <2>1, MappedOneMore
    <2>. QED BY <2>1, <2>2, <2>3 DEF IsMapped, IsMappedOnce
  <1>5. FlattenSeq(Append(Mapped(F, cs), F[c])) = FlattenSeq(Mapped(F, cs)) \o F[c]
    BY <1>4, FlattenAppend DEF Text
  <1>6. Text = Seq(STRING \cup {Damaged})
    BY DEF Text
  <1>. QED BY <1>1, <1>2, <1>3, <1>4, <1>5

\* Of none.
LEMMA ContentNone == ContentOf(<<>>) = Nothing
  <1>1. [i \in DOMAIN <<>> |-> IF <<>>[i].kind = "content" THEN <<>>[i].text ELSE Nothing] = <<>>
    OBVIOUS
  <1>. QED BY <1>1, FlattenNone DEF ContentOf, Nothing

\* What a cut through a letter leaves of an event.
Alike(e, f) == e \in EventType /\ e.type = f.type /\ e.of = f.of /\ e.n = f.n

\* What the translators and the extractor have after k events of a message.
PassedOn(p, m, k) ==
    LET n == Len(EventsOf(m))
    IN  /\ p.usage = [input  |-> IF k = 0 THEN 0 ELSE m.input,
                      output |-> IF k < n - 1 THEN 0 ELSE m.output]
        /\ p.openai \in Seq(ChunkType)
        /\ k = 0 => p.openai = <<>>
        /\ k > 0 => p.openai # <<>> /\ Head(p.openai).kind = "role"
        /\ k >= n - 1 => "finish" \in Kinds(p.openai)
        /\ k = n => Last(p.openai).kind = "done"

TextPassed(p, m, k) == ContentOf(p.openai) = Shown(SubSeq(EventsOf(m), 1, k))

\* What the translators and the extractor look for, and where it is.
LEMMA EventsInOrder ==
    ASSUME NEW m \in Messages
    PROVE  LET ev == EventsOf(m)
               n == Len(ev)
           IN  /\ n \in Nat /\ n >= 3
               /\ ev[1].type = "message_start" /\ ev[1].n = m.input
               /\ ev[n - 1].type = "message_delta" /\ ev[n - 1].n = m.output
               /\ ev[n - 1].of = m.stop /\ m.stop # NoStop
               /\ ev[n].type = "message_stop"
               /\ \A i \in 2 .. n - 2 : ev[i].type \notin {"message_start", "message_delta"}
  <1>. DEFINE ev == EventsOf(m)
              len == Len(ev)
  <1>1. /\ len \in Nat /\ len >= 3
        /\ ev[1] = Event("message_start", "", Nothing, m.input)
        /\ ev[len - 1] = Event("message_delta", m.stop, Nothing, m.output)
        /\ ev[len] = Event("message_stop", "", Nothing, 0)
        /\ \A i \in 2 .. len - 2 : ev[i] \in ContentEvent
    BY EventsAre
  <1>. HIDE DEF ev, len
  <1>2. ev[1].type = "message_start" /\ ev[1].n = m.input
    <2>. DEFINE e == Event("message_start", "", Nothing, m.input)
    <2>1. ev[1] = e
      BY <1>1
    <2>2. e.type = "message_start" /\ e.n = m.input
      BY Zenon DEF Event
    <2>. HIDE DEF e
    <2>. QED BY <2>1, <2>2, Zenon
  <1>3. ev[len - 1].type = "message_delta" /\ ev[len - 1].n = m.output /\ ev[len - 1].of = m.stop
    <2>. DEFINE e == Event("message_delta", m.stop, Nothing, m.output)
    <2>1. ev[len - 1] = e
      BY <1>1
    <2>2. e.type = "message_delta" /\ e.n = m.output /\ e.of = m.stop
      BY EventFields
    <2>. HIDE DEF e
    <2>. QED BY <2>1, <2>2, Zenon
  <1>4. ev[len].type = "message_stop"
    <2>. DEFINE e == Event("message_stop", "", Nothing, 0)
    <2>1. ev[len] = e
      BY <1>1
    <2>2. e.type = "message_stop"
      BY Zenon DEF Event
    <2>. HIDE DEF e
    <2>. QED BY <2>1, <2>2, Zenon
  <1>5. \A i \in 2 .. len - 2 : ev[i].type \notin {"message_start", "message_delta"}
    BY <1>1 DEF ContentEvent
  <1>6. m.stop # NoStop
    BY MessageHas
  <1>. QED BY <1>1, <1>2, <1>3, <1>4, <1>5, <1>6 DEF ev, len

\* The next event, for the extractor.
LEMMA UsageStep ==
    ASSUME NEW m \in Messages, NEW k \in 0 .. Len(EventsOf(m)) - 1, NEW p, PassedOn(p, m, k),
           NEW e, Alike(e, EventsOf(m)[k + 1])
    PROVE  LET n == Len(EventsOf(m))
           IN  Passing(p, e).usage = [input  |-> m.input,
                                      output |-> IF k + 1 < n - 1 THEN 0 ELSE m.output]
  <1>. DEFINE ev == EventsOf(m)
              n == Len(ev)
  <1>1. /\ n \in Nat /\ n >= 3
        /\ ev[1].type = "message_start" /\ ev[1].n = m.input
        /\ ev[n - 1].type = "message_delta" /\ ev[n - 1].n = m.output
        /\ ev[n].type = "message_stop"
        /\ \A i \in 2 .. n - 2 : ev[i].type \notin {"message_start", "message_delta"}
    BY EventsInOrder
  <1>2. m.input \in Nat /\ m.output \in Nat
    BY MessageHas
  <1>3. Passing(p, e).usage = UsageNext(p.usage, e)
    BY DEF Passing
  <1>4. p.usage = [input |-> IF k = 0 THEN 0 ELSE m.input, output |-> IF k < n - 1 THEN 0 ELSE m.output]
    BY DEF PassedOn
  <1>5. e.type = ev[k + 1].type /\ e.n = ev[k + 1].n
    BY DEF Alike
  <1>. HIDE DEF ev, n
  <1>6. k \in Nat /\ k <= n - 1
    BY <1>1 DEF n, ev
  <1>7. CASE k = 0
    <2>1. e.type = "message_start" /\ e.n = m.input
      BY <1>1, <1>5, <1>7
    <2>2. p.usage = [input |-> 0, output |-> 0] /\ k + 1 < n - 1
      BY <1>1, <1>4, <1>7
    <2>. QED BY <1>2, <1>3, <2>1, <2>2 DEF UsageNext, n, ev
  <1>8. CASE k > 0 /\ k < n - 2
    <2>1. k + 1 \in 2 .. n - 2
      BY <1>1, <1>6, <1>8
    <2>2. e.type # "message_start" /\ e.type # "message_delta"
      BY <1>1, <1>5, <2>1
    <2>3. p.usage = [input |-> m.input, output |-> 0] /\ k + 1 < n - 1
      BY <1>1, <1>4, <1>6, <1>8
    <2>. QED BY <1>3, <2>2, <2>3 DEF UsageNext, n, ev
  <1>9. CASE k = n - 2
    <2>1. e.type = "message_delta" /\ e.n = m.output
      BY <1>1, <1>5, <1>9
    <2>2. p.usage = [input |-> m.input, output |-> 0] /\ ~(k + 1 < n - 1)
      BY <1>1, <1>4, <1>9
    <2>. QED BY <1>2, <1>3, <2>1, <2>2 DEF UsageNext, n, ev
  <1>10. CASE k = n - 1
    <2>1. e.type = "message_stop"
      BY <1>1, <1>5, <1>10
    <2>2. p.usage = [input |-> m.input, output |-> m.output] /\ ~(k + 1 < n - 1)
      BY <1>1, <1>4, <1>10
    <2>. QED BY <1>3, <2>1, <2>2 DEF UsageNext, n, ev
  <1>. QED BY <1>1, <1>6, <1>7, <1>8, <1>9, <1>10

\* The next event is passed on.
LEMMA PassedStep ==
    ASSUME NEW m \in Messages, NEW k \in 0 .. Len(EventsOf(m)) - 1, NEW p, PassedOn(p, m, k),
           NEW e, Alike(e, EventsOf(m)[k + 1])
    PROVE  PassedOn(Passing(p, e), m, k + 1)
  <1>. DEFINE ev == EventsOf(m)
              n == Len(ev)
              old == p.openai
              new == Passing(p, e).openai
  <1>1. /\ n \in Nat /\ n >= 3
        /\ ev[1].type = "message_start"
        /\ ev[n - 1].type = "message_delta" /\ ev[n - 1].of # NoStop
        /\ ev[n].type = "message_stop"
    BY EventsInOrder
  <1>2. new = old \o OpenaiChunks(e)
    BY DEF Passing
  <1>3. /\ old \in Seq(ChunkType)
        /\ k = 0 => old = <<>>
        /\ k > 0 => old # <<>> /\ Head(old).kind = "role"
        /\ k >= n - 1 => "finish" \in Kinds(old)
    BY DEF PassedOn
  <1>4. e \in EventType /\ e.type = ev[k + 1].type /\ e.of = ev[k + 1].of
    BY DEF Alike
  <1>5. Passing(p, e).usage = [input  |-> m.input, output |-> IF k + 1 < n - 1 THEN 0 ELSE m.output]
    BY UsageStep
  <1>6. k \in Nat /\ k <= n - 1
    BY <1>1
  <1>. HIDE DEF ev, n, old, new
  <1>7. CASE OpenaiChunks(e) = <<>> /\ e.type \notin {"message_start", "message_stop"}
             /\ (e.type = "message_delta" => e.of = NoStop)
    <2>1. new = old
      BY <1>2, <1>3, <1>7, ConcatEmptySeq
    <2>2. k # 0 /\ k # n - 2 /\ k # n - 1
      BY <1>1, <1>4, <1>6, <1>7
    <2>3. k + 1 > 0 /\ k > 0 /\ ~(k + 1 >= n - 1) /\ k + 1 # n /\ k + 1 # 0
      BY <1>1, <1>6, <2>2
    <2>. QED BY <1>3, <1>5, <2>1, <2>3 DEF PassedOn, ev, n, new
  <1>8. ASSUME NEW c \in ChunkType, OpenaiChunks(e) = <<c>>,
               e.type = "message_start" => c.kind = "role",
               e.type = "message_delta" => c.kind = "finish",
               e.type = "message_stop" => c.kind = "done"
        PROVE  PassedOn(Passing(p, e), m, k + 1)
    <2>1. new = Append(old, c)
      BY <1>2, <1>3, <1>8, AppendIsConcat
    <2>2. /\ new \in Seq(ChunkType) /\ new # <<>> /\ Len(new) = Len(old) + 1
          /\ \A i \in 1 .. Len(old) : new[i] = old[i]
          /\ new[Len(old) + 1] = c
      BY <1>3, <2>1, AppendProperties
    <2>3. Len(old) \in Nat /\ DOMAIN old = 1 .. Len(old) /\ DOMAIN new = 1 .. Len(new)
      BY <1>3, <2>2, LenProperties
    <2>4. Head(new).kind = "role"
      <3>1. Head(new) = IF old = <<>> THEN c ELSE Head(old)
        BY <1>3, <2>1, HeadTailAppend
      <3>2. CASE k = 0
        BY <1>1, <1>3, <1>4, <1>8, <3>1, <3>2
      <3>3. CASE k # 0
        BY <1>3, <1>6, <3>1, <3>3
      <3>. QED BY <3>2, <3>3
    <2>5. k + 1 >= n - 1 => "finish" \in Kinds(new)
      <3>1. CASE k = n - 2
        <4>1. c.kind = "finish"
          BY <1>1, <1>4, <1>6, <1>8, <3>1
        <4>2. Len(old) + 1 \in DOMAIN new /\ new[Len(old) + 1].kind = "finish"
          BY <2>2, <2>3, <4>1
        <4>. QED BY <4>2 DEF Kinds
      <3>2. CASE k = n - 1
        <4>1. "finish" \in Kinds(old)
          BY <1>3, <3>2, <1>1
        <4>2. PICK i \in DOMAIN old : old[i].kind = "finish"
          BY <4>1 DEF Kinds
        <4>3. i \in DOMAIN new /\ new[i] = old[i]
          BY <2>2, <2>3
        <4>. QED BY <4>2, <4>3 DEF Kinds
      <3>. QED BY <1>1, <1>6, <3>1, <3>2
    <2>6. k + 1 = n => Last(new).kind = "done"
      <3>1. Last(new) = c
        BY <2>2 DEF Last
      <3>2. k + 1 = n => c.kind = "done"
        BY <1>1, <1>4, <1>8
      <3>. QED BY <3>1, <3>2
    <2>7. k + 1 # 0
      BY <1>6
    <2>. QED BY <1>5, <2>2, <2>4, <2>5, <2>6, <2>7 DEF PassedOn, ev, n, new
  <1>. QED BY <1>4, <1>7, <1>8, ChunksOfEvent

\* And what it shows.
LEMMA TextStep ==
    ASSUME NEW m \in Messages, NEW k \in 0 .. Len(EventsOf(m)) - 1, NEW p, PassedOn(p, m, k),
           TextPassed(p, m, k)
    PROVE  TextPassed(Passing(p, EventsOf(m)[k + 1]), m, k + 1)
  <1>. DEFINE ev == EventsOf(m)
              e == ev[k + 1]
              old == p.openai
              new == Passing(p, e).openai
              had == SubSeq(ev, 1, k)
  <1>1. ev \in Seq(EventType) /\ Len(ev) \in Nat /\ Len(ev) >= 3
    BY EventsAre
  <1>2. k \in Nat /\ k + 1 \in 1 .. Len(ev) /\ e \in EventType
    BY <1>1
  <1>3. had \in Seq(EventType) /\ SubSeq(ev, 1, k + 1) = Append(had, e)
    <2>. HIDE DEF ev
    <2>1. \A i \in 1 .. k : ev[i] \in EventType
      BY <1>1, <1>2
    <2>2. had \in Seq(EventType)
      BY <1>2, <2>1, SubSeqProperties
    <2>3. SubSeq(ev, 1, k + 1) = SubSeq(ev, 1, k) \o <<e>>
      <3>1. 1 \in 1 .. Len(ev) /\ k + 1 \in 1 .. Len(ev) /\ k + 1 - 1 = k
        BY <1>1, <1>2
      <3>. QED BY <1>1, <3>1, SubSeqRecursiveSecond
    <2>. QED BY <1>2, <2>2, <2>3, AppendIsConcat
  <1>4. ContentOf(old) = Shown(had)
    BY DEF TextPassed
  <1>5. old \in Seq(ChunkType) /\ new = old \o OpenaiChunks(e)
    BY DEF PassedOn, Passing
  <1>. HIDE DEF ev, e, old, new, had
  <1>6. Shown(Append(had, e)) = Shown(had) \o Visible(e) /\ Shown(had) \in Text
    BY <1>2, <1>3, ShownOneMore, ShownMapped
  <1>7. ContentOf(new) = ContentOf(old) \o Visible(e)
    <2>1. CASE OpenaiChunks(e) = <<>> /\ Visible(e) = Nothing
      <3>1. new = old
        BY <1>5, <2>1, ConcatEmptySeq
      <3>. QED BY <1>4, <1>6, <2>1, <3>1, NothingAdds
    <2>2. ASSUME NEW c \in ChunkType, OpenaiChunks(e) = <<c>>, ContentIn(c) = Visible(e)
          PROVE  ContentOf(new) = ContentOf(old) \o Visible(e)
      <3>1. new = Append(old, c)
        BY <1>5, <2>2, AppendIsConcat
      <3>. QED BY <1>5, <2>2, <3>1, ContentOneMore
    <2>. QED BY <1>2, <2>1, <2>2, ChunksOfEvent
  <1>. QED BY <1>3, <1>4, <1>6, <1>7 DEF TextPassed, ev, e, new

-----------------------------------------------------------------------------
(* A chunk of the stream.                                                  *)

\* The events of a message that follow the first k, or what a cut leaves of them.
Follow(evs, m, k) ==
    /\ evs \in Seq(EventType) /\ k + Len(evs) <= Len(EventsOf(m))
    /\ \A i \in 1 .. Len(evs) : Alike(evs[i], EventsOf(m)[k + i])

\* They are passed on one by one.
LEMMA PassedAll ==
    ASSUME NEW m \in Messages, NEW k \in Nat, NEW p, PassedOn(p, m, k), NEW evs, Follow(evs, m, k)
    PROVE  PassedOn(FoldLeft(Passing, p, evs), m, k + Len(evs))
  <1>. DEFINE len == Len(evs)
  <1>1. evs \in Seq(EventType) /\ len \in Nat /\ k + len <= Len(EventsOf(m)) /\ Len(EventsOf(m)) \in Nat
    BY LenProperties, EventsInOrder DEF Follow
  <1>2. PICK st : Comes("translators", p, evs, len, st) /\ st[len] = FoldLeft(Passing, p, evs)
    BY <1>1, PassingEach
  <1>. DEFINE P == {j \in Nat : j <= len => PassedOn(st[j], m, k + j)}
  <1>3. 0 \in P
    <2>1. st[0] = p /\ k + 0 = k
      BY <1>2 DEF Comes
    <2>. QED BY <2>1
  <1>4. ASSUME NEW j \in Nat, j \in P PROVE j + 1 \in P
    <2>1. SUFFICES ASSUME j + 1 <= len PROVE PassedOn(st[j + 1], m, k + (j + 1))
      OBVIOUS
    <2>2. j \in 0 .. len - 1 /\ j + 1 \in 1 .. len /\ k + j \in 0 .. Len(EventsOf(m)) - 1
      BY <1>1, <2>1
    <2>3. PassedOn(st[j], m, k + j)
      BY <1>4, <2>2
    <2>4. st[j + 1] = Passing(st[j], evs[j + 1])
      BY <1>2, <2>2 DEF Comes, Taking
    <2>5. Alike(evs[j + 1], EventsOf(m)[k + (j + 1)]) /\ k + (j + 1) = k + j + 1
      BY <2>2 DEF Follow
    <2>6. Alike(evs[j + 1], EventsOf(m)[k + j + 1])
      BY <2>5
    <2>7. PassedOn(Passing(st[j], evs[j + 1]), m, k + j + 1)
      BY <2>2, <2>3, <2>6, PassedStep
    <2>. QED BY <2>4, <2>5, <2>7
  <1>5. len \in P
    <2>. HIDE DEF P, len
    <2>. QED BY <1>1, <1>3, <1>4, NumberInduction
  <1>. QED BY <1>1, <1>2, <1>5

\* Whole as they are, with their text.
LEMMA TextsPassed ==
    ASSUME NEW m \in Messages, NEW k \in Nat, NEW p, PassedOn(p, m, k), TextPassed(p, m, k),
           NEW evs, Follow(evs, m, k), \A i \in 1 .. Len(evs) : evs[i] = EventsOf(m)[k + i]
    PROVE  TextPassed(FoldLeft(Passing, p, evs), m, k + Len(evs))
  <1>. DEFINE len == Len(evs)
  <1>1. evs \in Seq(EventType) /\ len \in Nat /\ k + len <= Len(EventsOf(m)) /\ Len(EventsOf(m)) \in Nat
    BY LenProperties, EventsInOrder DEF Follow
  <1>2. PICK st : Comes("translators", p, evs, len, st) /\ st[len] = FoldLeft(Passing, p, evs)
    BY <1>1, PassingEach
  <1>. DEFINE P == {j \in Nat : j <= len => PassedOn(st[j], m, k + j) /\ TextPassed(st[j], m, k + j)}
  <1>3. 0 \in P
    <2>1. st[0] = p /\ k + 0 = k
      BY <1>2 DEF Comes
    <2>. QED BY <2>1
  <1>4. ASSUME NEW j \in Nat, j \in P PROVE j + 1 \in P
    <2>1. SUFFICES ASSUME j + 1 <= len
                   PROVE  PassedOn(st[j + 1], m, k + (j + 1)) /\ TextPassed(st[j + 1], m, k + (j + 1))
      OBVIOUS
    <2>2. j \in 0 .. len - 1 /\ j + 1 \in 1 .. len /\ k + j \in 0 .. Len(EventsOf(m)) - 1
      BY <1>1, <2>1
    <2>3. PassedOn(st[j], m, k + j) /\ TextPassed(st[j], m, k + j)
      BY <1>4, <2>2
    <2>4. st[j + 1] = Passing(st[j], evs[j + 1])
      BY <1>2, <2>2 DEF Comes, Taking
    <2>5. /\ Alike(evs[j + 1], EventsOf(m)[k + (j + 1)]) /\ evs[j + 1] = EventsOf(m)[k + (j + 1)]
          /\ k + (j + 1) = k + j + 1
      BY <2>2 DEF Follow
    <2>6. Alike(evs[j + 1], EventsOf(m)[k + j + 1]) /\ evs[j + 1] = EventsOf(m)[k + j + 1]
      BY <2>5
    <2>7. PassedOn(Passing(st[j], evs[j + 1]), m, k + j + 1)
      BY <2>2, <2>3, <2>6, PassedStep
    <2>8. TextPassed(Passing(st[j], EventsOf(m)[k + j + 1]), m, k + j + 1)
      BY <2>2, <2>3, TextStep
    <2>. QED BY <2>4, <2>5, <2>6, <2>7, <2>8
  <1>5. len \in P
    <2>. HIDE DEF P, len
    <2>. QED BY <1>1, <1>3, <1>4, NumberInduction
  <1>. QED BY <1>1, <1>2, <1>5

\* A cut through letters.
LEMMA CutIsAlike ==
    ASSUME NEW e \in EventType
    PROVE  Alike(Cut(e), e)
  <1>. DEFINE L == STRING \cup {Damaged}
              F(i) == IF e.text[i] = Wide THEN <<Damaged, Damaged>> ELSE <<e.text[i]>>
              ls == [i \in DOMAIN e.text |-> F(i)]
  <1>1. e.text \in Seq(L)
    BY DEF EventType, Text
  <1>2. ls \in Seq(Seq(L))
    <2>1. DOMAIN e.text = 1 .. Len(e.text) /\ Len(e.text) \in Nat /\ \A i \in 1 .. Len(e.text) : e.text[i] \in L
      BY <1>1, LenProperties, ElementOfSeq
    <2>. DEFINE d == Damaged
    <2>2. d \in L
      OBVIOUS
    <2>. HIDE DEF L, d
    <2>3. \A x \in L : <<x>> \in Seq(L)
      OBVIOUS
    <2>4. <<d, d>> \in Seq(L)
      BY <2>2
    <2>5. \A i \in 1 .. Len(e.text) : F(i) \in Seq(L)
      BY <2>1, <2>3, <2>4, Zenon DEF d
    <2>. HIDE DEF F
    <2>. QED BY <2>1, <2>5
  <1>3. FlattenSeq(ls) \in Text
    <2>1. FlattenSeq(ls) \in Seq(L)
      <3>. HIDE DEF ls, L
      <3>1. <<>> \in Seq(L)
        OBVIOUS
      <3>. QED BY <1>2, <3>1, FlattenAppend
    <2>. QED BY <2>1 DEF Text
  <1>4. Cut(e) = [e EXCEPT !.text = FlattenSeq(ls)]
    BY DEF Cut
  <1>. HIDE DEF ls
  <1>. QED BY <1>3, <1>4 DEF Alike, EventType

\* What arrives of the events j + 1 to l of a message: all of them.
LEMMA Following ==
    ASSUME NEW m \in Messages, NEW j \in Nat, NEW l \in Nat, j <= l, l <= Len(EventsOf(m))
    PROVE  LET got == SubSeq(EventsOf(m), j + 1, l)
           IN  /\ got \in Seq(EventType) /\ Len(got) = l - j /\ Follow(got, m, j)
               /\ \A i \in 1 .. Len(got) : got[i] = EventsOf(m)[j + i]
  <1>. DEFINE ev == EventsOf(m)
              got == SubSeq(ev, j + 1, l)
  <1>1. ev \in Seq(EventType) /\ Len(ev) \in Nat
    BY EventsAre
  <1>2. \A i \in 1 .. Len(ev) : ev[i] \in EventType
    BY <1>1, ElementOfSeq
  <1>. HIDE DEF ev
  <1>3. \A i \in j + 1 .. l : ev[i] \in EventType
    BY <1>1, <1>2 DEF ev
  <1>4. /\ got \in Seq(EventType)
        /\ Len(got) = IF j + 1 <= l THEN l - (j + 1) + 1 ELSE 0
        /\ \A i \in 1 .. l - (j + 1) + 1 : got[i] = ev[(j + 1) + i - 1]
    BY <1>3, SubSeqProperties
  <1>. HIDE DEF got
  <1>5. Len(got) = l - j /\ \A i \in 1 .. Len(got) : got[i] = ev[j + i]
    <2>1. Len(got) = l - j /\ l - (j + 1) + 1 = l - j
      BY <1>4
    <2>2. \A i \in 1 .. l - j : (j + 1) + i - 1 = j + i
      OBVIOUS
    <2>. QED BY <1>4, <2>1, <2>2
  <1>6. ASSUME NEW i \in 1 .. Len(got) PROVE Alike(got[i], ev[j + i])
    <2>1. got[i] \in EventType /\ got[i] = ev[j + i]
      BY <1>4, <1>5, ElementOfSeq
    <2>. QED BY <2>1 DEF Alike
  <1>7. j + Len(got) <= Len(ev)
    BY <1>1, <1>5 DEF ev
  <1>8. Follow(got, m, j)
    BY <1>4, <1>6, <1>7 DEF Follow, ev
  <1>. QED BY <1>4, <1>5, <1>8 DEF got, ev

\* And the same with the first of them cut.
LEMMA FollowingCut ==
    ASSUME NEW m \in Messages, NEW j \in Nat, NEW evs, Follow(evs, m, j)
    PROVE  LET cut == [evs EXCEPT ![1] = Cut(@)]
           IN  Follow(cut, m, j) /\ Len(cut) = Len(evs)
  <1>. DEFINE cut == [evs EXCEPT ![1] = Cut(@)]
  <1>1. /\ evs \in Seq(EventType) /\ j + Len(evs) <= Len(EventsOf(m))
        /\ \A i \in 1 .. Len(evs) : Alike(evs[i], EventsOf(m)[j + i])
    BY DEF Follow
  <1>2. Len(evs) \in Nat /\ DOMAIN evs = 1 .. Len(evs)
    BY <1>1, LenProperties
  <1>3. CASE Len(evs) = 0
    <2>1. evs = <<>>
      BY <1>1, <1>3, EmptySeq
    <2>2. cut = <<>>
      BY <2>1
    <2>. QED BY <2>1, <2>2
  <1>4. CASE Len(evs) # 0
    <2>1. 1 \in 1 .. Len(evs)
      BY <1>2, <1>4
    <2>2. evs[1] \in EventType /\ Alike(Cut(evs[1]), evs[1])
      BY <1>1, <2>1, ElementOfSeq, CutIsAlike
    <2>3. cut = [evs EXCEPT ![1] = Cut(evs[1])]
      OBVIOUS
    <2>4. Cut(evs[1]) \in EventType
      BY <2>2 DEF Alike
    <2>5. /\ cut \in Seq(EventType) /\ Len(cut) = Len(evs)
          /\ \A i \in 1 .. Len(evs) : cut[i] = IF i = 1 THEN Cut(evs[1]) ELSE evs[i]
      <3>1. /\ [evs EXCEPT ![1] = Cut(evs[1])] \in Seq(EventType)
            /\ Len([evs EXCEPT ![1] = Cut(evs[1])]) = Len(evs)
            /\ \A i \in 1 .. Len(evs) :
                  [evs EXCEPT ![1] = Cut(evs[1])][i] = IF i = 1 THEN Cut(evs[1]) ELSE evs[i]
        BY <1>1, <2>1, <2>4, ExceptSeq
      <3>. QED BY <2>3, <3>1, Zenon
    <2>. HIDE DEF cut
    <2>6. ASSUME NEW i \in 1 .. Len(evs) PROVE Alike(cut[i], EventsOf(m)[j + i])
      <3>1. CASE i = 1
        <4>1. cut[i] = Cut(evs[i]) /\ Alike(evs[i], EventsOf(m)[j + i]) /\ Alike(Cut(evs[i]), evs[i])
          BY <1>1, <2>2, <2>5, <3>1
        <4>. QED BY <4>1 DEF Alike
      <3>2. CASE i # 1
        BY <1>1, <2>5, <3>2
      <3>. QED BY <3>1, <3>2
    <2>. QED BY <1>1, <2>5, <2>6 DEF Follow, cut
  <1>. QED BY <1>3, <1>4

\* Halves of events, and events.
LEMMA Halves ==
    ASSUME NEW k \in Nat
    PROVE  /\ k \div 2 \in Nat
           /\ k % 2 = 0 => k = 2 * (k \div 2)
           /\ k % 2 # 0 => k % 2 = 1 /\ k = 2 * (k \div 2) + 1
  OBVIOUS

\* What the reassembler makes of the first k events.
SoFar(m, k) == FoldLeft(Reassembled, NewReassembler, SubSeq(EventsOf(m), 1, k))

\* And of the next events after those.
LEMMA SoFarStep ==
    ASSUME NEW m \in Messages, NEW j \in Nat, NEW l \in Nat, j <= l, l <= Len(EventsOf(m))
    PROVE  FoldLeft(Reassembled, SoFar(m, j), SubSeq(EventsOf(m), j + 1, l)) = SoFar(m, l)
  <1>. DEFINE ev == EventsOf(m)
              a == SubSeq(ev, 1, j)
              b == SubSeq(ev, j + 1, l)
  <1>1. ev \in Seq(EventType) /\ Len(ev) \in Nat
    BY EventsAre
  <1>2. b \in Seq(EventType)
    BY Following
  <1>3. a \in Seq(EventType)
    <2>1. 0 + 1 = 1 /\ 0 <= j /\ j <= Len(EventsOf(m))
      BY <1>1
    <2>2. SubSeq(EventsOf(m), 0 + 1, j) \in Seq(EventType)
      BY <2>1, Following
    <2>. QED BY <2>1, <2>2
  <1>4. a \o b = SubSeq(ev, 1, l)
    <2>1. 1 \in 1 .. Len(ev) + 1 /\ j \in 1 - 1 .. Len(ev) /\ l \in j .. Len(ev)
      BY <1>1
    <2>. HIDE DEF ev
    <2>. QED BY <1>1, <2>1, ConcatAdjacentSubSeq
  <1>. HIDE DEF a, b
  <1>5. FoldLeft(Reassembled, NewReassembler, a \o b)
           = FoldLeft(Reassembled, FoldLeft(Reassembled, NewReassembler, a), b)
    BY <1>2, <1>3, ReassembleBoth
  <1>. QED BY <1>4, <1>5 DEF SoFar, a, b, ev

\* Before the first event.
LEMMA BeforeAll ==
    ASSUME NEW m \in Messages
    PROVE  PassedOn(NewPassing, m, 0) /\ TextPassed(NewPassing, m, 0) /\ SoFar(m, 0) = NewReassembler
  <1>1. SubSeq(EventsOf(m), 1, 0) = <<>>
    BY SubSeqEmpty
  <1>2. NewPassing.openai = <<>> /\ NewPassing.usage = [input |-> 0, output |-> 0]
    BY DEF NewPassing
  <1>3. Len(EventsOf(m)) \in Nat /\ Len(EventsOf(m)) >= 3
    BY EventsInOrder
  <1>4. <<>> \in Seq(ChunkType)
    OBVIOUS
  <1>5. PassedOn(NewPassing, m, 0)
    BY <1>2, <1>3, <1>4 DEF PassedOn
  <1>6. TextPassed(NewPassing, m, 0)
    BY <1>1, <1>2, ContentNone, ShownNone DEF TextPassed
  <1>7. SoFar(m, 0) = NewReassembler
    BY <1>1, ReassembleNone DEF SoFar
  <1>. QED BY <1>5, <1>6, <1>7

-----------------------------------------------------------------------------
(* The answer.                                                             *)

\* Nothing has arrived.
Unopened ==
    fed = 0 /\ ~torn /\ ~split /\ passing = NewPassing /\ held = 0 /\ whole = NewReassembler

\* While the answer streams, the translators and the extractor are where the events that
\* have arrived take them, and so is the reassembler as long as no letter has been cut.
StreamInv ==
    /\ sent.body.stream
    /\ message \in Messages
    /\ fed \in 0 .. 2 * Len(EventsOf(message))
    /\ torn => split
    /\ PassedOn(passing, message, fed \div 2)
    /\ ~split => /\ TextPassed(passing, message, fed \div 2)
                 /\ whole = SoFar(message, fed \div 2)
                 /\ held = IF BeginsInside THEN First ELSE 0

AnswerInv ==
    /\ phase \in {"idle", "sent"} => Unopened
    /\ phase = "stream" => StreamInv
    /\ AnswerIsTheMessage

\* A stream begins with all of them new (StreamOpens).
LEMMA StreamBegins ==
    ASSUME Unopened, NEW m \in Messages, StreamOpens(m)
    PROVE  StreamInv'
  <1>1. /\ sent.body.stream /\ message' = m
        /\ UNCHANGED <<sent, fed, torn, split, passing, held, whole>>
    BY DEF StreamOpens
  <1>2. fed' = 0 /\ ~torn' /\ passing' = NewPassing /\ held' = 0 /\ whole' = NewReassembler
    BY <1>1 DEF Unopened
  <1>3. fed' \in 0 .. 2 * Len(EventsOf(m))
    <2>1. Len(EventsOf(m)) \in Nat
      BY EventsInOrder
    <2>. QED BY <1>2, <2>1
  <1>4. 0 \div 2 = 0 /\ 0 % 2 # 1
    OBVIOUS
  <1>. QED BY <1>1, <1>2, <1>3, <1>4, BeforeAll DEF StreamInv, BeginsInside, First

\* A chunk, cut anywhere.
LEMMA StreamGoesOn ==
    ASSUME StreamInv, NEW upto \in 1 .. 2 * Len(EventsOf(message)), NEW cut \in BOOLEAN,
           NEW fits \in BOOLEAN, ChunkArrives(upto, cut, fits)
    PROVE  StreamInv'
  <1>. DEFINE m == message
              ev == EventsOf(m)
              j == fed \div 2
              l == upto \div 2
              got == SubSeq(ev, j + 1, l)
  <1>1. m \in Messages /\ Len(ev) \in Nat /\ ev \in Seq(EventType)
    BY EventsAre DEF StreamInv
  <1>2. /\ fed \in Nat /\ upto \in Nat /\ upto > fed /\ upto <= 2 * Len(ev)
        /\ fed' = upto /\ torn' = cut /\ split' = (split \/ cut)
        /\ message' = message /\ sent' = sent
        /\ passing' = Passed(upto) /\ Feed(upto, cut, fits)
    BY <1>1 DEF ChunkArrives, StreamInv
  <1>3. j \in Nat /\ l \in Nat /\ j <= l /\ l <= Len(ev)
    <2>1. /\ j \in Nat /\ (fed = 2 * j \/ fed = 2 * j + 1)
          /\ l \in Nat /\ (upto = 2 * l \/ upto = 2 * l + 1)
      BY <1>2, Halves
    <2>. HIDE DEF j, l, ev
    <2>. QED BY <1>1, <1>2, <2>1
  <1>4. /\ got \in Seq(EventType) /\ Len(got) = l - j /\ Follow(got, m, j)
        /\ \A i \in 1 .. Len(got) : got[i] = ev[j + i]
    BY <1>1, <1>3, Following
  <1>5. passing' = FoldLeft(Passing, passing, IF torn THEN [got EXCEPT ![1] = Cut(@)] ELSE got)
    BY <1>2 DEF Passed, First, LastIn
  <1>6. PassedOn(passing, m, j)
    BY DEF StreamInv
  <1>. HIDE DEF got, ev, j, l, m
  <1>7. j + Len(got) = l
    BY <1>3, <1>4
  <1>8. PassedOn(passing', m, l)
    <2>1. CASE torn
      <3>. DEFINE some == [got EXCEPT ![1] = Cut(@)]
      <3>1. Follow(some, m, j) /\ Len(some) = Len(got)
        BY <1>1, <1>3, <1>4, FollowingCut
      <3>2. passing' = FoldLeft(Passing, passing, some)
        BY <1>5, <2>1
      <3>. HIDE DEF some
      <3>3. PassedOn(FoldLeft(Passing, passing, some), m, j + Len(some))
        BY <1>1, <1>3, <1>6, <3>1, PassedAll
      <3>. QED BY <1>7, <3>1, <3>2, <3>3
    <2>2. CASE ~torn
      <3>1. passing' = FoldLeft(Passing, passing, got)
        BY <1>5, <2>2
      <3>2. PassedOn(FoldLeft(Passing, passing, got), m, j + Len(got))
        BY <1>1, <1>3, <1>4, <1>6, PassedAll
      <3>. QED BY <1>7, <3>1, <3>2
    <2>. QED BY <2>1, <2>2
  <1>9. ASSUME ~split'
        PROVE  /\ TextPassed(passing', m, l)
               /\ whole' = SoFar(m, l)
               /\ held' = IF upto % 2 = 1 THEN l + 1 ELSE 0
    <2>1. ~split /\ ~cut /\ ~torn
      BY <1>2, <1>9 DEF StreamInv
    <2>2. /\ TextPassed(passing, m, j) /\ whole = SoFar(m, j)
          /\ held = IF BeginsInside THEN j + 1 ELSE 0
      BY <2>1 DEF StreamInv, First, m, j
    <2>3. TextPassed(passing', m, l)
      <3>1. passing' = FoldLeft(Passing, passing, got)
        BY <1>5, <2>1
      <3>2. TextPassed(FoldLeft(Passing, passing, got), m, j + Len(got))
        BY <1>1, <1>3, <1>4, <1>6, <2>2, TextsPassed DEF ev
      <3>. QED BY <1>7, <3>1, <3>2
    <2>4. /\ whole' = FoldLeft(Reassembled, whole, got)
          /\ held' = IF upto % 2 = 0 THEN 0 ELSE IF l >= j + 1 \/ held = 0 THEN l + 1 ELSE Garbage
      BY <1>2, <2>1, <2>2 DEF Feed, First, LastIn, got, ev, m, j, l
    <2>5. whole' = SoFar(m, l)
      BY <1>1, <1>3, <2>2, <2>4, SoFarStep DEF got, ev
    <2>6. held' = IF upto % 2 = 1 THEN l + 1 ELSE 0
      <3>1. CASE upto % 2 = 0
        BY <2>4, <3>1
      <3>2. CASE upto % 2 # 0 /\ (l >= j + 1 \/ held = 0)
        BY <1>2, <2>4, <3>2, Halves
      <3>3. CASE upto % 2 # 0 /\ ~(l >= j + 1) /\ held # 0
        <4>1. fed % 2 = 1 /\ upto % 2 # 0
          BY <2>2, <3>3 DEF BeginsInside
        <4>2. fed = 2 * j + 1 /\ upto = 2 * l + 1
          BY <1>2, <4>1, Halves DEF j, l
        <4>. QED BY <1>2, <1>3, <3>3, <4>2
      <3>. QED BY <3>1, <3>2, <3>3
    <2>. QED BY <2>3, <2>5, <2>6
  <1>10. fed' \in 0 .. 2 * Len(EventsOf(message'))
    BY <1>1, <1>2 DEF ev, m
  <1>11. sent'.body.stream /\ message' \in Messages /\ (torn' => split')
    BY <1>1, <1>2 DEF StreamInv, m
  <1>12. fed' \div 2 = l /\ message' = m /\ fed' % 2 = upto % 2
    BY <1>2 DEF l, m
  <1>13. BeginsInside' <=> upto % 2 = 1
    BY <1>12 DEF BeginsInside
  <1>14. First' = l + 1
    BY <1>12 DEF First
  <1>15. PassedOn(passing', message', fed' \div 2)
    BY <1>8, <1>12
  <1>16. ~split' => /\ TextPassed(passing', message', fed' \div 2)
                    /\ whole' = SoFar(message', fed' \div 2)
                    /\ held' = IF BeginsInside' THEN First' ELSE 0
    BY <1>9, <1>12, <1>13, <1>14
  <1>. QED BY <1>10, <1>11, <1>15, <1>16 DEF StreamInv

\* The end of an answer that has arrived in full.
LEMMA AllArrived ==
    ASSUME StreamInv, fed = 2 * Len(EventsOf(message))
    PROVE  /\ passing.usage = [input |-> message.input, output |-> message.output]
           /\ {"role", "finish", "done"} \subseteq Kinds(passing.openai)
           /\ Head(passing.openai).kind = "role"
           /\ Last(passing.openai).kind = "done"
           /\ ~split => /\ ContentOf(passing.openai) = TextOf(Whole(message).blocks)
                        /\ IntoMessage(whole) = Rebuilt(Whole(message))
           /\ SubSeq(EventsOf(message), 1, fed \div 2) = EventsOf(message)
  <1>. DEFINE m == message
              ev == EventsOf(m)
              n == Len(ev)
              chunks == passing.openai
  <1>1. m \in Messages /\ ev \in Seq(EventType) /\ n \in Nat /\ n >= 3
    BY EventsAre DEF StreamInv
  <1>2. fed \div 2 = n
    <2>. HIDE DEF n
    <2>1. fed = 2 * n
      BY DEF n
    <2>. QED BY <1>1, <2>1
  <1>3. SubSeq(ev, 1, n) = ev
    BY <1>1, SubSeqFull
  <1>4. PassedOn(passing, m, n)
    BY <1>2 DEF StreamInv
  <1>5. /\ passing.usage = [input |-> m.input, output |-> m.output]
        /\ chunks \in Seq(ChunkType) /\ chunks # <<>> /\ Head(chunks).kind = "role"
        /\ "finish" \in Kinds(chunks) /\ Last(chunks).kind = "done"
    <2>1. n # 0 /\ n > 0 /\ ~(n < n - 1) /\ n >= n - 1
      BY <1>1
    <2>. HIDE DEF m
    <2>. QED BY <1>4, <2>1 DEF PassedOn
  <1>6. "role" \in Kinds(chunks) /\ "done" \in Kinds(chunks)
    <2>. HIDE DEF chunks
    <2>1. Len(chunks) \in Nat \ {0} /\ DOMAIN chunks = 1 .. Len(chunks)
      BY <1>5, EmptySeq, LenProperties
    <2>2. 1 \in DOMAIN chunks /\ Len(chunks) \in DOMAIN chunks
      BY <2>1
    <2>3. Head(chunks) = chunks[1] /\ Last(chunks) = chunks[Len(chunks)]
      BY <1>5 DEF Last
    <2>. QED BY <1>5, <2>2, <2>3 DEF Kinds
  <1>7. ASSUME ~split
        PROVE  ContentOf(chunks) = TextOf(Whole(m).blocks) /\ IntoMessage(whole) = Rebuilt(Whole(m))
    <2>1. TextPassed(passing, m, n) /\ whole = SoFar(m, n)
      BY <1>2, <1>7 DEF StreamInv
    <2>2. ContentOf(chunks) = Shown(ev)
      BY <1>3, <2>1 DEF TextPassed
    <2>3. whole = FoldLeft(Reassembled, NewReassembler, ev)
      BY <1>3, <2>1 DEF SoFar
    <2>. QED BY <1>1, <2>2, <2>3, MessageShown, MessageTogether
  <1>. QED BY <1>2, <1>3, <1>5, <1>6, <1>7

\* What a streaming client gets of it.
LEMMA StreamedIsTheMessage ==
    ASSUME StreamInv, sent.wants, NEW ended, phase' = "answered", answer' = Streamed(ended),
           UNCHANGED <<asked, sent, incoming>>
    PROVE  AnswerIsTheMessage'
  <1>1. UNCHANGED <<asked, sent, message, fed, split, passing>>
    BY DEF incoming
  <1>2. sent.body.stream
    BY DEF StreamInv
  <1>3. answer'.form = "stream"
    BY DEF Streamed
  <1>4. answer'.chunks = CASE asked.fmt = "openai" -> passing.openai
                           [] asked.fmt = "gemini" -> passing.gemini.out
                           [] OTHER -> SubSeq(EventsOf(message), 1, fed \div 2)
    BY DEF Streamed
  <1>5. SUFFICES ASSUME fed = 2 * Len(EventsOf(message))
                 PROVE  AnswerIsTheMessage'
    BY <1>1, <1>2, <1>3 DEF AnswerIsTheMessage
  <1>6. asked.fmt = "anthropic" => answer'.chunks = SubSeq(EventsOf(message), 1, fed \div 2)
    BY <1>4
  <1>7. asked.fmt = "openai" => answer'.chunks = passing.openai
    BY <1>4
  <1>8. Whole(message).input = message.input /\ Whole(message).output = message.output
    BY DEF Whole
  <1>. QED BY <1>1, <1>2, <1>3, <1>5, <1>6, <1>7, <1>8, AllArrived DEF AnswerIsTheMessage

\* What any other client gets of it.
LEMMA JsonIsTheMessage ==
    ASSUME ~sent.wants, NEW m, answer' = Json(m), UNCHANGED <<asked, sent>>,
           ~sent.body.stream => m = Whole(message'),
           sent.body.stream /\ fed' = 2 * Len(EventsOf(message')) /\ ~split' => m = Rebuilt(Whole(message'))
    PROVE  AnswerIsTheMessage'
  <1>1. answer'.form = "json" /\ answer'.said = ToClient(asked.fmt, m)
    BY DEF Json
  <1>. QED BY <1>1 DEF AnswerIsTheMessage

\* Each step keeps to it.
LEMMA AnswerStep ==
    ASSUME AnswerInv, AskedIsSent, [TranslationNext]_translationVars
    PROVE  AnswerInv'
  <1>1. ASSUME NEW r, NEW provider, NEW oauth, Forward(r, provider, oauth) PROVE AnswerInv'
    <2>1. phase = "idle" /\ phase' = "sent" /\ UNCHANGED incoming
      BY <1>1 DEF Forward, Accept
    <2>2. Unopened'
      BY <2>1 DEF AnswerInv, Unopened, incoming
    <2>. QED BY <2>1, <2>2 DEF AnswerInv, AnswerIsTheMessage
  <1>2. ASSUME NEW m \in Messages, AnswerWhole(m) PROVE AnswerInv'
    <2>1. /\ phase' = "answered" /\ answer' = Json(Whole(m)) /\ message' = m
          /\ ~sent.wants /\ ~sent.body.stream /\ UNCHANGED <<asked, sent>>
      BY <1>2 DEF AnswerWhole, Done, AskedIsSent
    <2>2. AnswerIsTheMessage'
      BY <2>1, JsonIsTheMessage
    <2>. QED BY <2>1, <2>2 DEF AnswerInv
  <1>3. ASSUME NEW m \in Messages, StreamOpens(m) PROVE AnswerInv'
    <2>1. phase = "sent" /\ phase' = "stream"
      BY <1>3 DEF StreamOpens
    <2>2. StreamInv'
      BY <1>3, <2>1, StreamBegins DEF AnswerInv
    <2>. QED BY <2>1, <2>2 DEF AnswerInv, AnswerIsTheMessage
  <1>4. ASSUME NEW upto \in 1 .. 2 * Len(EventsOf(message)), NEW cut \in BOOLEAN, NEW fits \in BOOLEAN,
               ChunkArrives(upto, cut, fits)
        PROVE  AnswerInv'
    <2>1. phase = "stream" /\ phase' = "stream"
      BY <1>4 DEF ChunkArrives
    <2>2. StreamInv'
      BY <1>4, <2>1, StreamGoesOn DEF AnswerInv
    <2>. QED BY <2>1, <2>2 DEF AnswerInv, AnswerIsTheMessage
  <1>5. CASE AnswerEnds
    <2>1. StreamInv /\ UNCHANGED <<asked, sent, incoming>>
      BY <1>5 DEF AnswerEnds, AnswerInv
    <2>2. CASE sent.wants
      <3>1. phase' = "answered" /\ answer' = Streamed(TRUE)
        BY <1>5, <2>2 DEF AnswerEnds, Done
      <3>2. AnswerIsTheMessage'
        BY <2>1, <2>2, <3>1, StreamedIsTheMessage
      <3>. QED BY <3>1, <3>2 DEF AnswerInv
    <2>3. CASE ~sent.wants /\ whole.started
      <3>1. phase' = "answered" /\ answer' = Json(IntoMessage(whole))
        BY <1>5, <2>3 DEF AnswerEnds, Done
      <3>2. UNCHANGED <<message, fed, split>> /\ sent.body.stream
        BY <2>1 DEF incoming, StreamInv
      <3>3. fed = 2 * Len(EventsOf(message)) /\ ~split => IntoMessage(whole) = Rebuilt(Whole(message))
        BY <2>1, AllArrived
      <3>4. AnswerIsTheMessage'
        BY <2>1, <2>3, <3>1, <3>2, <3>3, JsonIsTheMessage
      <3>. QED BY <3>1, <3>4 DEF AnswerInv
    <2>4. CASE ~sent.wants /\ ~whole.started
      BY <1>5, <2>4 DEF AnswerEnds, Done, AnswerInv, AnswerIsTheMessage
    <2>. QED BY <2>2, <2>3, <2>4
  <1>6. CASE StreamBreaks
    <2>1. StreamInv /\ UNCHANGED <<asked, sent, incoming>>
      BY <1>6 DEF StreamBreaks, AnswerInv
    <2>2. CASE sent.wants
      <3>1. phase' = "answered" /\ answer' = Streamed(FALSE)
        BY <1>6, <2>2 DEF StreamBreaks, Done
      <3>2. AnswerIsTheMessage'
        BY <2>1, <2>2, <3>1, StreamedIsTheMessage
      <3>. QED BY <3>1, <3>2 DEF AnswerInv
    <2>3. CASE ~sent.wants
      BY <1>6, <2>3 DEF StreamBreaks, Done, AnswerInv, AnswerIsTheMessage
    <2>. QED BY <2>2, <2>3
  <1>7. CASE Refused
    BY <1>7 DEF Refused, Done, AnswerInv, AnswerIsTheMessage
  <1>8. CASE NextRequest
    <2>1. phase' = "idle" /\ Unopened'
      BY <1>8 DEF NextRequest, Unopened
    <2>. QED BY <2>1 DEF AnswerInv, AnswerIsTheMessage
  <1>9. ASSUME UNCHANGED <<phase, asked, sent, incoming, answer>> PROVE AnswerInv'
    <2>1. UNCHANGED <<phase, asked, sent, message, fed, torn, split, passing, held, whole, answer>>
      BY <1>9 DEF incoming
    <2>2. Unopened' = Unopened
      BY <2>1 DEF Unopened
    <2>3. StreamInv' = StreamInv
      BY <2>1 DEF StreamInv, BeginsInside, First
    <2>4. AnswerIsTheMessage' = AnswerIsTheMessage
      BY <2>1 DEF AnswerIsTheMessage
    <2>. QED BY <2>1, <2>2, <2>3, <2>4 DEF AnswerInv
  <1>10. CASE FlushCapture \/ Restart \/ UNCHANGED translationVars
    BY <1>9, <1>10 DEF FlushCapture, Restart, translationVars
  <1>11. ASSUME NEW m \in Messages, ResentStream(m) PROVE AnswerInv'
    <2>1. /\ phase' = "answered" /\ message' = m /\ sent'.body.stream
          /\ answer' = [form |-> "raw", model |-> sent.model, chunks |-> EventsOf(m)]
      BY <1>11 DEF ResentStream, Done
    <2>2. answer'.form = "raw" /\ answer'.chunks = EventsOf(message')
      BY <2>1
    <2>. QED BY <2>1, <2>2 DEF AnswerInv, AnswerIsTheMessage
  <1>. QED BY <1>1, <1>2, <1>3, <1>4, <1>5, <1>6, <1>7, <1>8, <1>10, <1>11 DEF TranslationNext

\* Whatever the provider answers, however many blocks and texts it has and wherever the
\* stream is cut, the client gets that answer: put together when it did not ask for a stream
\* (SseReassembler), passed on event by event or translated to OpenAI's chunks when it did
\* (SseAnthropicToOpenai, SseUsageExtractor), with all text, the reason and the usage; or, if
\* its streamed request was sent again after a 401, as Anthropic's own events.
THEOREM AnswersAreTheMessage == TranslationSpec => []AnswerIsTheMessage
  <1>1. TranslationInit => AnswerInv /\ AskedIsSent
    BY DEF TranslationInit, AnswerInv, Unopened, AnswerIsTheMessage, AskedIsSent
  <1>2. AnswerInv /\ AskedIsSent /\ [TranslationNext]_translationVars => AnswerInv' /\ AskedIsSent'
    BY AnswerStep, AskedStep
  <1>3. AnswerInv => AnswerIsTheMessage
    BY DEF AnswerInv
  <1>. QED BY <1>1, <1>2, <1>3, PTL DEF TranslationSpec
=============================================================================
