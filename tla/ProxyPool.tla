------------------------------ MODULE ProxyPool ------------------------------
(***************************************************************************)
(* ProxyPool and ProxyHealth (proxies/pool.py, proxies/health.py): a       *)
(* round-robin over proxies, each with a sliding-window circuit breaker.   *)
(* Instants are kept as the time left until them.                          *)
(***************************************************************************)
EXTENDS Outcomes, Sequences, FiniteSets

CONSTANTS
    NumProxies,
    Window, MinSamples,               \* outcomes remembered, and needed to judge
    ThresholdNum, ThresholdDen,       \* failure_threshold, as a fraction
    Cooldown, RateLimitBackoff

ASSUME PoolAssumption ==
    /\ NumProxies \in Nat /\ {Window, MinSamples, ThresholdDen} \subseteq Nat \ {0}
    /\ ThresholdNum \in 1..ThresholdDen
    /\ {Cooldown, RateLimitBackoff} \subseteq Nat

Proxy == 0..NumProxies - 1
NoProxy == -1

FreshHealth == [window |-> <<>>, quarantine |-> 0, backoff |-> 0]

Health == [window : Seq(BOOLEAN), quarantine : 0..Cooldown, backoff : 0..RateLimitBackoff]

Available(h) == h.quarantine = 0 /\ h.backoff = 0

\* deque(maxlen=window).append
Slid(window, failed) ==
    IF Len(window) < Window THEN Append(window, failed) ELSE Append(Tail(window), failed)

FailuresIn(window) == Cardinality({i \in DOMAIN window : window[i]})

Trips(window) ==
    /\ Len(window) >= MinSamples
    /\ FailuresIn(window) * ThresholdDen >= ThresholdNum * Len(window)

Sampled_Mutant(h, failed) ==
    LET window == Slid(h.window, failed)
    IN IF Trips(window) THEN [h EXCEPT !.window = window, !.quarantine = Cooldown]
       ELSE [h EXCEPT !.window = window]

Sampled(h, failed) ==
    LET window == Slid(h.window, failed)
    IN IF Trips(window)
       THEN [window |-> <<>>, quarantine |-> Cooldown, backoff |-> h.backoff]
       ELSE [h EXCEPT !.window = window]

\* ProxyHealth.record, whenever the outcome comes.
Reported_Mutant(h, outcome) ==
    IF outcome = "rate_limited" THEN [h EXCEPT !.backoff = RateLimitBackoff]
    ELSE IF outcome = "origin_error" THEN h
    ELSE IF outcome = "ok" THEN [Sampled(h, FALSE) EXCEPT !.quarantine = 0]
    ELSE Sampled(h, TRUE)

Reported(h, outcome) ==
    IF outcome = "rate_limited" THEN [h EXCEPT !.backoff = RateLimitBackoff]
    ELSE IF outcome = "origin_error" THEN h
    ELSE Sampled(h, outcome = "transport_error")

Rested(h) ==
    [window |-> h.window, quarantine |-> Sooner(h.quarantine), backoff |-> Sooner(h.backoff)]

\* select: how far round from the cursor the first available proxy is.
Distances(health, cursor) ==
    {k \in Proxy : Available(health[(cursor + k) % NumProxies])}

NearestDistance(health, cursor) ==
    CHOOSE k \in Distances(health, cursor) : \A j \in Distances(health, cursor) : k <= j

Selected(health, cursor) ==
    IF Distances(health, cursor) = {} THEN NoProxy
    ELSE (cursor + NearestDistance(health, cursor)) % NumProxies

NextCursor_Mutant(health, cursor) ==
    IF Distances(health, cursor) = {} THEN cursor
    ELSE cursor + NearestDistance(health, cursor) + 1

NextCursor(health, cursor) ==
    IF Distances(health, cursor) = {} THEN cursor
    ELSE (cursor + NearestDistance(health, cursor) + 1) % NumProxies
=============================================================================
