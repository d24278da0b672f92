---------------------------- MODULE TaskProcessor ----------------------------
(***************************************************************************)
(* Batches of requests on the event loop, one after the other:             *)
(* TaskProcessor.run_batch (concurrency/processor.py) with the robots      *)
(* gate, a fixed-rate or an adaptive limiter, the proxy pool, the retries. *)
(*                                                                         *)
(* A coroutine runs undisturbed from one suspension to the next, so an     *)
(* action is the code between two of them.  Time is counted in ticks, an   *)
(* instant is kept as the time left until it, and a tick passes only when  *)
(* nothing is ready to run: sleeps are exact, while answers take any time. *)
(***************************************************************************)
EXTENDS AdaptiveLimiter, ProxyPool

CONSTANTS
    Domain,            \* hosts, each with one origin
    Batch,             \* the requests of a batch: domain, method, overrides
    MaxBatches,        \* bound: batches run
    Configs,           \* configurations of the engine to consider
    Concurrency,       \* concurrency_per_worker
    MaxAttempts,       \* passes of the adaptive mode
    FixedInterval,     \* ticks between slots under per_domain_rate_limit
    BackoffBase, BackoffCap, Jitter,
    Responses,         \* what a transport may answer
    RobotsAnswers,     \* what asking a host for its robots.txt may give
    Unfetched,         \* an origin that is not in the gate's _cache
    NoFile,            \* a robots.txt that could not be had
    Unset              \* an override left to the configuration, no result yet

Tasks == DOMAIN Batch

\* The URLs a file forbids are given by the tasks they belong to; a delay of 0
\* stands for no Crawl-delay.
RobotsFile == [denied : SUBSET Tasks, delay : Nat]

ASSUME BatchAssumption ==
    /\ Batch \in Seq([domain : Domain, idempotent : BOOLEAN,
                      retryNonIdempotent : BOOLEAN \cup {Unset},
                      proxy : Proxy \cup {NoProxy}])
    /\ RobotsAnswers \subseteq RobotsFile \cup {NoFile}
    /\ NoFile \notin RobotsFile /\ Unfetched \notin RobotsFile \cup {NoFile}
    /\ Unset \notin BOOLEAN \cup AnyResponse
    /\ Responses \subseteq AnyResponse

ASSUME ConfigAssumption ==
    Configs \subseteq [limiter : {"none", "fixed", "adaptive"}, robots : BOOLEAN,
                       pool : BOOLEAN, retries : Nat, totalTimeout : Nat,
                       retryNonIdempotent : BOOLEAN]

ASSUME PaceAssumption ==
    /\ {Concurrency, MaxAttempts, MaxBatches} \subseteq Nat \ {0}
    /\ {FixedInterval, BackoffBase, BackoffCap, Jitter} \subseteq Nat

VARIABLES
    config,       \* the configuration the batch is run with
    phase,        \* of run_batch: running, returned, or the exception it raised
    batch,        \* batches begun
    pass,         \* passes of this batch begun
    pending,      \* tasks of this pass
    step,         \* where each task's coroutine is suspended
    result,       \* results by source_id
    robots,       \* the gate's _cache
    nextAllowed,  \* the gate's _next_allowed
    nextSlot,     \* the limiter's _next
    limiter,      \* the adaptive limiter's rates and streaks
    cursor,       \* the pool's cursor
    health,       \* the pool's ProxyHealth of each proxy
    sent,         \* history: requests sent for each task
    sinceSlot,    \* history: ticks since each domain's last slot, up to MaxGap
    failures,     \* history: failures in a row of each domain, up to BanFailures
    denied        \* history: tasks a robots.txt forbade before they began

gate    == <<robots, nextAllowed, denied>>
pace    == <<nextSlot, limiter, failures>>
proxies == <<cursor, health>>
history == <<sent, sinceSlot>>
vars == <<config, phase, batch, pass, pending, step, result, gate, pace, proxies, history>>

Fresh(proxy, budget) == [at |-> "waiting", left |-> 0, delay |-> 0, proxy |-> proxy,
                         attempt |-> 0, budget |-> budget]
Waiting == Fresh(NoProxy, 0)
Done    == [Waiting EXCEPT !.at = "done"]
Suspended(s, at, time) == [at |-> at, left |-> time, delay |-> s.delay, proxy |-> s.proxy,
                           attempt |-> s.attempt, budget |-> s.budget]

Sleeping(t) == step[t].at \in {"crawl", "pace", "backoff"}
Active(t)   == step[t].at \notin {"waiting", "done"}
Alive       == phase \in {"running", "banned", "raised"}

MaxGap == Larger(Second \div MinRate, FixedInterval)

Init ==
    /\ config \in Configs
    /\ phase = "running"
    /\ batch = 1
    /\ pass = 1
    /\ pending = Tasks
    /\ step = [t \in Tasks |-> Waiting]
    /\ result = [t \in Tasks |-> Unset]
    /\ robots = [d \in Domain |-> Unfetched]
    /\ nextAllowed = [d \in Domain |-> 0]
    /\ nextSlot = [d \in Domain |-> 0]
    /\ limiter = [d \in Domain |-> FreshLimiter]
    /\ cursor = 0
    /\ health = [p \in Proxy |-> FreshHealth]
    /\ sent = [t \in Tasks |-> 0]
    /\ sinceSlot = [d \in Domain |-> MaxGap]
    /\ failures = [d \in Domain |-> 0]
    /\ denied = {}

-----------------------------------------------------------------------------
(* Sending: _apply_proxy, the limiter's acquire, the request *)

\* The request leaves: the first of this process() call, or a retry.
Launch(t, s) ==
    /\ step' = [step EXCEPT ![t] = Suspended(s, "send", 0)]
    /\ sent' = [sent EXCEPT ![t] = @ + 1]

UseSlot(t) == sinceSlot' = [sinceSlot EXCEPT ![Batch[t].domain] = 0]

SlotInterval(d) ==
    IF config.limiter = "fixed" THEN FixedInterval ELSE Interval(limiter[d].rate)

\* The slot is read and the next one reserved before the sleep.
Reserve_Mutant(d) == nextSlot' = [nextSlot EXCEPT ![d] = SlotInterval(d)]

Reserve(d) == nextSlot' = [nextSlot EXCEPT ![d] = @ + SlotInterval(d)]

\* perform_with_retries sets its deadline when it starts.
Ready(proxy) == Fresh(proxy, config.totalTimeout)

\* The proxy is chosen before the limiter makes the task wait for its slot.
ApplyProxy(t, proxy) ==
    IF Batch[t].proxy # NoProxy
    THEN proxy = Batch[t].proxy /\ UNCHANGED cursor
    ELSE IF ~config.pool THEN proxy = NoProxy /\ UNCHANGED cursor
    ELSE proxy = Selected(health, cursor) /\ cursor' = NextCursor(health, cursor)

SendFirst(t) ==
    LET d == Batch[t].domain
    IN /\ \E p \in Proxy \cup {NoProxy} :
             /\ ApplyProxy(t, p)
             /\ IF config.limiter = "none" \/ nextSlot[d] = 0
                THEN Launch(t, Ready(p)) /\ UseSlot(t)
                ELSE /\ step' = [step EXCEPT ![t] = Suspended(Fresh(p, 0), "pace", nextSlot[d])]
                     /\ UNCHANGED history
       /\ IF config.limiter = "none" THEN UNCHANGED nextSlot ELSE Reserve(d)
       /\ UNCHANGED <<result, limiter, failures, health>>

\* The sleep in acquire is over.
Paced(t) ==
    /\ Alive
    /\ step[t].at = "pace" /\ step[t].left = 0
    /\ Launch(t, Ready(step[t].proxy))
    /\ UseSlot(t)
    /\ UNCHANGED <<config, phase, batch, pass, pending, result, gate, pace, proxies>>

Finish(t, r) ==
    /\ step' = [step EXCEPT ![t] = Done]
    /\ result' = [result EXCEPT ![t] = r]

\* An exception reaches gather, which hands it to run_batch; the other
\* coroutines go on.
Raise(t, how) ==
    /\ step' = [step EXCEPT ![t] = Done]
    /\ phase' = IF phase = "running" THEN how ELSE phase
    /\ UNCHANGED result

-----------------------------------------------------------------------------
(* The robots gate: allowed, then throttle *)

\* With the origin's file at hand.  throttle reads _next_allowed before its
\* sleep and writes it after.
PassGate(t, file) ==
    LET d == Batch[t].domain
    IN \/ /\ file # NoFile /\ t \in file.denied
          /\ Finish(t, Disallowed)
          /\ UNCHANGED <<nextAllowed, pace, proxies, history>>
       \/ /\ IF file = NoFile THEN TRUE ELSE t \notin file.denied /\ file.delay = 0
          /\ SendFirst(t)
          /\ UNCHANGED nextAllowed
       \/ /\ file # NoFile /\ t \notin file.denied /\ file.delay > 0
          /\ nextAllowed[d] = 0
          /\ nextAllowed' = [nextAllowed EXCEPT ![d] = file.delay]
          /\ SendFirst(t)
       \/ /\ file # NoFile /\ t \notin file.denied /\ file.delay > 0
          /\ nextAllowed[d] > 0
          /\ step' = [step EXCEPT ![t] = Suspended([Waiting EXCEPT !.delay = file.delay],
                                                 "crawl", nextAllowed[d])]
          /\ UNCHANGED <<result, nextAllowed, pace, proxies, history>>

\* The semaphore lets tasks in in their order.
MayEnter_Mutant(t) ==
    /\ Alive
    /\ step[t].at = "waiting"
    /\ \A u \in Tasks : u < t => step[u].at # "waiting"
    /\ Cardinality({u \in pending : step[u].at # "waiting"}) < Concurrency

MayEnter(t) ==
    /\ Alive
    /\ step[t].at = "waiting"
    /\ \A u \in Tasks : u < t => step[u].at # "waiting"
    /\ Cardinality({u \in Tasks : Active(u)}) < Concurrency

FetchRobots_Mutant(t) == SendFirst(t) /\ UNCHANGED nextAllowed

FetchRobots(t) ==
    /\ step' = [step EXCEPT ![t].at = "robots"]
    /\ UNCHANGED <<result, nextAllowed, pace, proxies, history>>

Enter(t) ==
    /\ MayEnter(t)
    /\ IF ~config.robots THEN SendFirst(t) /\ UNCHANGED nextAllowed
       ELSE IF robots[Batch[t].domain] = Unfetched THEN FetchRobots(t)
       ELSE PassGate(t, robots[Batch[t].domain])
    /\ UNCHANGED <<config, phase, batch, pass, pending, robots, denied>>

\* The file has come, or has not: every coroutine that asked for it stores what
\* it got.
RobotsFetched(t) ==
    /\ Alive
    /\ step[t].at = "robots"
    /\ \E file \in RobotsAnswers :
          /\ robots' = [robots EXCEPT ![Batch[t].domain] = file]
          /\ denied' = IF file = NoFile THEN denied
                       ELSE denied \cup {u \in file.denied :
                                            /\ Batch[u].domain = Batch[t].domain
                                            /\ step[u].at = "waiting"}
          /\ PassGate(t, file)
    /\ UNCHANGED <<config, phase, batch, pass, pending>>

\* Decoding the file raised an exception.
RobotsUnreadable(t) ==
    /\ Alive
    /\ step[t].at = "robots"
    /\ Unreadable \in Responses
    /\ Raise(t, "raised")
    /\ UNCHANGED <<config, batch, pass, pending, gate, pace, proxies, history>>

\* The sleep in throttle is over at the instant it read.
Throttled(t) ==
    LET d == Batch[t].domain
    IN /\ Alive
       /\ step[t].at = "crawl" /\ step[t].left = 0
       /\ nextAllowed' = [nextAllowed EXCEPT ![d] = step[t].delay]
       /\ SendFirst(t)
       /\ UNCHANGED <<config, phase, batch, pass, pending, robots, denied>>

-----------------------------------------------------------------------------
(* The answer: perform_with_retries, or one attempt and the limiter's record *)

Inherited(override, default) == IF override = Unset THEN default ELSE override

\* perform_with_retries goes by the request's own setting ...
MayRetry(t) ==
    \/ Batch[t].idempotent
    \/ Inherited(Batch[t].retryNonIdempotent, config.retryNonIdempotent)

\* ... _should_defer by the engine's.
MayDefer_Mutant(t) == TRUE
MayDefer(t) == Batch[t].idempotent \/ config.retryNonIdempotent

BackoffDelay(attempt, jitter) ==
    Smaller(BackoffCap, BackoffBase * 2 ^ attempt) + jitter

InBudget_Mutant(t, delay) == TRUE
InBudget(t, delay) == config.totalTimeout = 0 \/ delay < step[t].budget

Retries(t, r, delay) ==
    /\ IsTransient(r)
    /\ MayRetry(t)
    /\ step[t].attempt < config.retries
    /\ InBudget(t, delay)

Report(t, r) ==
    health' = IF config.pool /\ step[t].proxy # NoProxy
              THEN [health EXCEPT ![step[t].proxy] = Reported(@, ClassifyOutcome(r))]
              ELSE health

Conclude(t, r) ==
    IF r.readable THEN Finish(t, r) /\ UNCHANGED phase ELSE Raise(t, "raised")

AnsweredBounded(t, r, jitter) ==
    LET delay == BackoffDelay(step[t].attempt, jitter)
    IN /\ IF Retries(t, r, delay)
          THEN /\ step' = [step EXCEPT ![t] =
                            Suspended([step[t] EXCEPT !.attempt = @ + 1], "backoff", delay)]
               /\ UNCHANGED <<phase, result, health>>
          ELSE Report(t, r) /\ Conclude(t, r)
       /\ UNCHANGED <<limiter, failures>>

CountFailure(d, outcome) ==
    failures' = [failures EXCEPT ![d] =
                    IF Failure(outcome) THEN Smaller(@ + 1, BanFailures)
                    ELSE IF outcome = "ok" THEN 0 ELSE @]

AnsweredAdaptive(t, r) ==
    LET d == Batch[t].domain
        outcome == ClassifyOutcome(r)
    IN /\ Report(t, r)
       /\ limiter' = [limiter EXCEPT ![d] = Recorded(@, outcome)]
       /\ CountFailure(d, outcome)
       /\ IF Banned(limiter[d], outcome) THEN Raise(t, "banned") ELSE Conclude(t, r)

Answered(t) ==
    /\ Alive
    /\ step[t].at = "send"
    /\ \E r \in Responses :
          IF config.limiter = "adaptive" THEN AnsweredAdaptive(t, r)
          ELSE \E jitter \in 0..Jitter : AnsweredBounded(t, r, jitter)
    /\ UNCHANGED <<config, batch, pass, pending, gate, nextSlot, cursor, history>>

\* The sleep between two attempts is over.  The limiter is not asked again.
Retry(t) ==
    /\ Alive
    /\ step[t].at = "backoff" /\ step[t].left = 0
    /\ Launch(t, step[t])
    /\ UNCHANGED <<config, phase, batch, pass, pending, result, gate, pace, proxies, sinceSlot>>

-----------------------------------------------------------------------------
(* run_batch: passes over what is deferred *)

PassOver == phase = "running" /\ \A t \in Tasks : step[t].at = "done" \/ t \notin pending

ShouldDefer(t) == IsTransient(result[t]) /\ MayDefer(t)

Deferred == {t \in pending : ShouldDefer(t)}

AnotherPass_Mutant == config.limiter = "adaptive" /\ Deferred # {} /\ pass < MaxAttempts - 1
AnotherPass == config.limiter = "adaptive" /\ Deferred # {} /\ pass < MaxAttempts

Replay ==
    /\ PassOver
    /\ AnotherPass
    /\ pass' = pass + 1
    /\ pending' = Deferred
    /\ step' = [t \in Tasks |-> IF t \in Deferred THEN Waiting ELSE Done]
    /\ UNCHANGED <<config, phase, batch, result, gate, pace, proxies, history>>

Return ==
    /\ PassOver
    /\ ~AnotherPass
    /\ phase' = "returned"
    /\ UNCHANGED <<config, batch, pass, pending, step, result, gate, pace, proxies, history>>

\* The executor runs its next batch with the same limiter, gate and pool.
NextBatch ==
    /\ phase = "returned"
    /\ batch < MaxBatches
    /\ batch' = batch + 1
    /\ phase' = "running"
    /\ pass' = 1
    /\ pending' = Tasks
    /\ step' = [t \in Tasks |-> Waiting]
    /\ result' = [t \in Tasks |-> Unset]
    /\ sent' = [t \in Tasks |-> 0]
    /\ denied' = {}
    /\ UNCHANGED <<config, robots, nextAllowed, pace, proxies, sinceSlot>>

\* The executor lets the exception out, and the event loop, in ending, cancels
\* what still runs.
Stop ==
    /\ phase \in {"banned", "raised"}
    /\ phase' = "stopped"
    /\ step' = [t \in Tasks |-> Done]
    /\ UNCHANGED <<config, batch, pass, pending, result, gate, pace, proxies, history>>

Later(s) == Suspended([s EXCEPT !.budget = Sooner(@)], s.at, Sooner(s.left))

\* Time passes when there is something to wait for, and nothing ready to run.
Tick ==
    /\ Alive
    /\ \E t \in Tasks : Active(t)
    /\ \A t \in Tasks : ~MayEnter(t) /\ (Sleeping(t) => step[t].left > 0)
    /\ step' = [t \in Tasks |-> Later(step[t])]
    /\ nextAllowed' = [d \in Domain |-> Sooner(nextAllowed[d])]
    /\ nextSlot' = [d \in Domain |-> Sooner(nextSlot[d])]
    /\ sinceSlot' = [d \in Domain |-> Smaller(sinceSlot[d] + 1, MaxGap)]
    /\ health' = [p \in Proxy |-> Rested(health[p])]
    /\ UNCHANGED <<config, phase, batch, pass, pending, result, robots, denied, limiter, failures,
                   cursor, sent>>

Run(t) ==
    \/ Enter(t)
    \/ RobotsFetched(t)
    \/ RobotsUnreadable(t)
    \/ Throttled(t)
    \/ Paced(t)
    \/ Answered(t)
    \/ Retry(t)

Next ==
    \/ \E t \in Tasks : Run(t)
    \/ Replay
    \/ Return
    \/ NextBatch
    \/ Stop
    \/ Tick

\* The event loop runs what is ready, a request ends (at the latest by its
\* timeout) and time passes.
Fairness ==
    /\ \A t \in Tasks : WF_vars(Run(t))
    /\ WF_vars(Replay \/ Return \/ NextBatch \/ Stop)
    /\ WF_vars(Tick)

Spec == Init /\ [][Next]_vars /\ Fairness

-----------------------------------------------------------------------------
(* Properties *)

Place == {"waiting", "robots", "crawl", "pace", "send", "backoff", "done"}

Step == [at : Place, left : Int, delay : Nat, proxy : Proxy \cup {NoProxy},
         attempt : Nat, budget : Nat]

TypeOK ==
    /\ config \in Configs
    /\ phase \in {"running", "returned", "banned", "raised", "stopped"}
    /\ batch \in 1..MaxBatches /\ pass \in 1..MaxAttempts
    /\ pending \subseteq Tasks
    /\ step \in [Tasks -> Step]
    /\ result \in [Tasks -> Responses \cup {Disallowed, Unset}]
    /\ robots \in [Domain -> RobotsAnswers \cup {Unfetched}]
    /\ nextAllowed \in [Domain -> Nat] /\ nextSlot \in [Domain -> Nat]
    /\ limiter \in [Domain -> Limiter]
    /\ NumProxies > 0 => cursor \in Proxy
    /\ health \in [Proxy -> Health]
    /\ sent \in [Tasks -> Nat]
    /\ sinceSlot \in [Domain -> 0..MaxGap]
    /\ failures \in [Domain -> 0..BanFailures]
    /\ denied \subseteq Tasks

\* A request whose method and effective retry_non_idempotent forbid a second
\* attempt is sent at most once, whatever the mode.
NoUnwantedReplay == \A t \in Tasks : sent[t] > 1 => MayRetry(t)

\* A pass got nothing done: all that it replayed failed again.
NoProgress == pass > 1 /\ \A t \in pending : IsTransient(result[t])

\* run_batch returns a result for every task.  A transient failure of a request
\* that may be sent again (by its method or its effective retry_non_idempotent)
\* is returned only when the retries are used up; in the adaptive mode when "no
\* progress is made, or the max_attempts pass budget is exhausted".
NoEarlyReturn ==
    phase = "returned" => \A t \in Tasks :
        /\ result[t] # Unset
        /\ IsTransient(result[t]) /\ MayRetry(t) =>
              IF config.limiter = "adaptive" THEN pass = MaxAttempts \/ NoProgress
              ELSE config.totalTimeout = 0 /\ result[t] # Disallowed =>
                       sent[t] = config.retries + 1

\* Nothing is asked of an origin before its robots.txt was asked for.
RobotsFirst ==
    config.robots => \A t \in Tasks : sent[t] > 0 => robots[Batch[t].domain] # Unfetched

\* A window at rest is never one that trips the breaker, however late reports
\* come in.
NoTrippedWindow ==
    \A p \in Proxy : Len(health[p].window) <= Window /\ ~Trips(health[p].window)

\* The first request of a process() call leaves.
Begins(t) == step[t].at \in {"waiting", "robots", "crawl", "pace"} /\ step'[t].at = "send"

MinGap == IF config.limiter = "fixed" THEN FixedInterval ELSE Interval(MaxRate)

\* Concurrent acquires get distinct slots: two tasks never start on a domain
\* closer than the fixed interval, or than max_rate allows ("Reserve this slot
\* before sleeping so concurrent acquires on the same domain each get a distinct
\* slot").
DistinctSlots ==
    [][config.limiter # "none" =>
          \A t \in Tasks : Begins(t) =>
              /\ sinceSlot[Batch[t].domain] >= MinGap
              /\ \A u \in Tasks \ {t} : Begins(u) => Batch[u].domain # Batch[t].domain]_vars

\* A ban is suspected only of a domain at the floor, after ban_failures failures
\* with no clean response between them.
BanIsEarned ==
    [][phase = "running" /\ phase' = "banned" =>
          \E d \in Domain : failures'[d] = BanFailures /\ limiter'[d].rate = MinRate]_vars

\* No retry starts at or after the deadline total_timeout sets.
DeadlineHonoured ==
    [][config.totalTimeout > 0 =>
          \A t \in Tasks : step[t].at = "backoff" /\ step'[t].at = "send" =>
              step[t].budget > 0]_vars

\* Neither a success that comes late nor a new failure lets a quarantined or
\* backing-off proxy in earlier.
RestNotShortened ==
    [][\A p \in Proxy :
          /\ health'[p].quarantine >= Sooner(health[p].quarantine)
          /\ health'[p].backoff >= Sooner(health[p].backoff)]_vars

\* Every batch comes to an end: it returns or its exception stops the loop.
BatchEnds == phase = "running" ~> phase \in {"returned", "stopped"}

\* "Per-host crawl-delays are honoured": two tasks never start on a host closer
\* than its Crawl-delay.
CrawlDelayHonoured ==
    [][config.robots => \A t \in Tasks : Begins(t) =>
          LET d == Batch[t].domain
          IN robots'[d] # NoFile => sinceSlot[d] >= robots'[d].delay]_vars

\* A URL its host's robots.txt was seen to disallow before the task began is not
\* requested.
DisallowedSkipped ==
    [][\A t \in denied : sent'[t] = sent[t]]_vars
=============================================================================
