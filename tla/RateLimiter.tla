------------------------------ MODULE RateLimiter ------------------------------
(***************************************************************************)
(* The token buckets of the proxy (crates/proxy/src/rate_limiter.rs): one  *)
(* per client address, refilled with time, forgotten when it has not been  *)
(* used for a while.  Time is counted in ticks.                            *)
(***************************************************************************)
EXTENDS Integers, FiniteSets

CONSTANTS
    Ips,            \* client addresses
    Burst,          \* BURST_MAX
    Rate,           \* RATE_RPS, tokens in a tick
    PurgeInterval,  \* PURGE_INTERVAL
    StaleAfter,     \* STALE_AFTER
    PurgeSize       \* MAX_IPS / 2

\* A bucket that is forgotten has filled up: 60 s at 100 a second are more than 200.
ASSUME RateAssumption ==
    /\ Burst \in Nat \ {0} /\ Rate \in Nat /\ StaleAfter \in Nat
    /\ Rate * StaleAfter >= Burst
ASSUME PurgeAssumption == PurgeInterval \in Nat /\ PurgeSize \in Nat

VARIABLES
    now,        \* the time
    known,      \* addresses that have a bucket
    tokens,     \* Bucket.tokens
    last,       \* Bucket.last
    lastPurge,  \* Inner.last_purge
    accepted    \* history: requests let through

limiterVars == <<known, tokens, last, lastPurge, accepted>>

LimiterTypeOK ==
    /\ now \in Nat
    /\ known \in SUBSET Ips
    /\ tokens \in [Ips -> 0 .. Burst]
    /\ last \in [Ips -> Nat]
    /\ lastPurge \in Nat
    /\ accepted \in [Ips -> Nat]

\* RateLimiter::new
LimiterInit ==
    /\ now = 0
    /\ known = {}
    /\ tokens = [i \in Ips |-> 0]
    /\ last = [i \in Ips |-> 0]
    /\ lastPurge = 0
    /\ accepted = [i \in Ips |-> 0]

PurgeDue == now - lastPurge >= PurgeInterval /\ Cardinality(known) >= PurgeSize

\* The buckets that purge_if_needed retains.
Retained == IF PurgeDue THEN {i \in known : now - last[i] < StaleAfter} ELSE known

RefilledFull(ip) ==
    LET filled == tokens[ip] + Rate * (now - last[ip])
    IN  IF ip \notin Retained THEN Burst
        ELSE IF filled < Burst THEN filled ELSE Burst

\* A bucket refilled up to now; a new one starts one token short.
Refilled(ip) ==
    LET filled == tokens[ip] + Rate * (now - last[ip])
    IN  IF ip \notin Retained THEN Burst - 1
        ELSE IF filled < Burst THEN filled ELSE Burst

CheckDebt(ip, allowed) ==
    /\ allowed = (Refilled(ip) >= 1)
    /\ known' = Retained \cup {ip}
    /\ lastPurge' = IF PurgeDue THEN now ELSE lastPurge
    /\ tokens' = [tokens EXCEPT ![ip] = Refilled(ip) - 1]
    /\ last' = [last EXCEPT ![ip] = now]
    /\ accepted' = [accepted EXCEPT ![ip] = @ + (IF allowed THEN 1 ELSE 0)]

\* check(ip), under the one lock of the limiter.
Check(ip, allowed) ==
    /\ allowed = (Refilled(ip) >= 1)
    /\ known' = Retained \cup {ip}
    /\ lastPurge' = IF PurgeDue THEN now ELSE lastPurge
    /\ tokens' = [tokens EXCEPT ![ip] = Refilled(ip) - (IF allowed THEN 1 ELSE 0)]
    /\ last' = [last EXCEPT ![ip] = now]
    /\ accepted' = [accepted EXCEPT ![ip] = @ + (IF allowed THEN 1 ELSE 0)]

LimiterSpec ==
    /\ LimiterInit
    /\ [][\/ \E ip \in Ips, allowed \in BOOLEAN : Check(ip, allowed) /\ UNCHANGED now
          \/ now' = now + 1 /\ UNCHANGED limiterVars]_<<now, limiterVars>>

\* However buckets are created, refilled and forgotten, no address gets more through
\* than a burst and what the rate has added since the start (RateLimiter::check).
NeverOverAdmits == \A ip \in Ips : accepted[ip] <= Burst - 1 + Rate * now
=============================================================================
