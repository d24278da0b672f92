-------------------------- MODULE AdaptiveLimiter --------------------------
(***************************************************************************)
(* AdaptiveRateLimiter (proxies/adaptive.py): what one domain's limiter    *)
(* makes of an outcome.  Rates are whole numbers of requests per second;   *)
(* a halved rate is rounded down, never below the minimum.                 *)
(***************************************************************************)
EXTENDS Outcomes

CONSTANTS
    StartRate, MinRate, MaxRate,   \* requests per second and domain
    IncreaseStep, IncreaseAfter,   \* + step after so many clean responses
    BanFailures,                   \* failures in a row at the floor that are a ban
    Second                         \* ticks of the clock per second

\* AdaptiveRateConfig.__post_init__; slots are a whole number of ticks apart.
ASSUME RateAssumption ==
    /\ {MinRate, StartRate, MaxRate, IncreaseStep, IncreaseAfter, BanFailures} \subseteq Nat \ {0}
    /\ MinRate <= StartRate /\ StartRate <= MaxRate
    /\ Second \in Nat /\ Second >= MaxRate

FreshLimiter == [rate |-> StartRate, successes |-> 0, failAtMin |-> 0]

Limiter == [rate : MinRate..MaxRate, successes : 0..IncreaseAfter - 1, failAtMin : Nat]

Failure(outcome) == outcome \in {"rate_limited", "transport_error"}

AtFloor(l) == l.rate <= MinRate

Decreased(l) ==
    [rate      |-> Larger(MinRate, l.rate \div 2),
     successes |-> 0,
     failAtMin |-> IF AtFloor(l) THEN l.failAtMin + 1 ELSE 0]

Cleared_Mutant(l) ==
    [l EXCEPT !.rate = IF l.successes + 1 >= IncreaseAfter
                       THEN Smaller(MaxRate, l.rate + IncreaseStep) ELSE l.rate,
              !.successes = IF l.successes + 1 >= IncreaseAfter THEN 0 ELSE l.successes + 1]

Cleared(l) ==
    LET streak == l.successes + 1
    IN IF streak >= IncreaseAfter
       THEN [rate |-> Smaller(MaxRate, l.rate + IncreaseStep), successes |-> 0, failAtMin |-> 0]
       ELSE [rate |-> l.rate, successes |-> streak, failAtMin |-> 0]

\* record(): an origin error changes nothing.
Recorded(l, outcome) ==
    IF Failure(outcome) THEN Decreased(l) ELSE IF outcome = "ok" THEN Cleared(l) ELSE l

\* ... and raises BanSuspectedError.
Banned(l, outcome) ==
    /\ Failure(outcome)
    /\ AtFloor(l)
    /\ l.failAtMin + 1 >= BanFailures

\* Ticks between two slots at a rate (acquire).
Interval(rate) == Second \div rate
=============================================================================
