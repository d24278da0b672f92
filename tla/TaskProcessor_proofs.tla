------------------------ MODULE TaskProcessor_proofs ------------------------
(***************************************************************************)
(* Theorems about the task processor, for any batch, any configurations    *)
(* and any answers.                                                        *)
(***************************************************************************)
EXTENDS TaskProcessor, WellFoundedInduction, TLAPS

-----------------------------------------------------------------------------
(* The limiter and the breaker of one domain and one proxy *)

LEMMA OutcomeIsOne == ASSUME NEW r \in AnyResponse PROVE ClassifyOutcome(r) \in Outcome
BY DEF ClassifyOutcome, Outcome

\* The rate stays between its bounds, the streak below the step.
LEMMA LimiterKept ==
    ASSUME NEW l \in Limiter, NEW o \in Outcome
    PROVE  Recorded(l, o) \in Limiter
<1>1. l.rate \in MinRate..MaxRate /\ l.successes \in 0..IncreaseAfter - 1 /\ l.failAtMin \in Nat
  BY DEF Limiter
<1>2. MinRate \in Nat /\ MaxRate \in Nat /\ MinRate > 0 /\ MinRate <= MaxRate
      /\ IncreaseStep \in Nat /\ IncreaseAfter \in Nat /\ IncreaseAfter > 0
  BY RateAssumption
<1>3. CASE Failure(o)
  <2>1. l.rate \div 2 \in Nat /\ l.rate \div 2 <= l.rate
    BY <1>1, <1>2
  <2>2. Larger(MinRate, l.rate \div 2) \in MinRate..MaxRate
    BY <1>1, <1>2, <2>1 DEF Larger
  <2>3. Decreased(l) \in Limiter
    BY <1>1, <1>2, <2>2 DEF Decreased, Limiter, AtFloor
  <2> QED BY <1>3, <2>3 DEF Recorded
<1>4. CASE ~Failure(o) /\ o = "ok"
  <2>1. Cleared(l) \in Limiter
    BY <1>1, <1>2 DEF Cleared, Limiter, Smaller
  <2> QED BY <1>4, <2>1 DEF Recorded
<1>5. CASE ~Failure(o) /\ o # "ok"
  BY <1>5 DEF Recorded
<1> QED BY <1>3, <1>4, <1>5

LEMMA IntervalIsNat ==
    ASSUME NEW rate \in MinRate..MaxRate PROVE Interval(rate) \in Nat
BY RateAssumption DEF Interval

\* The faster the rate the closer the slots.
LEMMA IntervalShrinks ==
    ASSUME NEW rate \in MinRate..MaxRate PROVE Interval(MaxRate) <= Interval(rate)
<1> DEFINE q == Second \div MaxRate
<1>1. Second \in Nat /\ MaxRate \in Nat /\ MaxRate > 0 /\ rate \in Nat /\ rate > 0 /\ rate <= MaxRate
  BY RateAssumption
<1>2. q \in Nat /\ q * MaxRate <= Second
  BY <1>1
<1>3. q * rate <= q * MaxRate
  BY <1>1, <1>2
<1>4. q * rate <= Second /\ q * rate \in Int
  BY <1>1, <1>2, <1>3
<1>5. \A n \in Nat : n * rate <= Second => n <= Second \div rate
  BY <1>1
<1> QED BY <1>2, <1>4, <1>5 DEF Interval

\* A window that is kept does not trip the breaker, whatever was in it.
Calm(h) == Len(h.window) <= Window /\ ~Trips(h.window)

LEMMA SlidWindow ==
    ASSUME NEW w \in Seq(BOOLEAN), Len(w) <= Window, NEW failed \in BOOLEAN
    PROVE  Slid(w, failed) \in Seq(BOOLEAN) /\ Len(Slid(w, failed)) <= Window
<1>1. Window \in Nat /\ Window > 0 BY PoolAssumption
<1>2. CASE Len(w) < Window
  BY <1>1, <1>2 DEF Slid
<1>3. CASE Len(w) = Window
  <2>1. w # <<>> BY <1>1, <1>3
  <2>2. Tail(w) \in Seq(BOOLEAN) /\ Len(Tail(w)) = Len(w) - 1 BY <2>1
  <2>3. /\ Append(Tail(w), failed) \in Seq(BOOLEAN)
        /\ Len(Append(Tail(w), failed)) = Len(Tail(w)) + 1
    BY <2>2
  <2>4. Slid(w, failed) = Append(Tail(w), failed)
    BY <1>1, <1>3 DEF Slid
  <2> QED BY <1>1, <1>3, <2>2, <2>3, <2>4
<1>4. Len(w) \in Nat OBVIOUS
<1> QED BY <1>1, <1>2, <1>3, <1>4

LEMMA EmptyIsCalm == Len(<<>>) <= Window /\ ~Trips(<<>>)
BY PoolAssumption DEF Trips

\* What a report does to a proxy's health, whenever it comes.
LEMMA ReportKeeps ==
    ASSUME NEW h \in Health, Calm(h), NEW o \in Outcome
    PROVE  /\ Reported(h, o) \in Health
           /\ Calm(Reported(h, o))
           /\ Reported(h, o).quarantine >= h.quarantine
           /\ Reported(h, o).backoff >= h.backoff
<1>1. h.window \in Seq(BOOLEAN) /\ h.quarantine \in 0..Cooldown /\ h.backoff \in 0..RateLimitBackoff
  BY DEF Health
<1>2. Cooldown \in Nat /\ RateLimitBackoff \in Nat
  BY PoolAssumption
<1>3. CASE o = "rate_limited"
  BY <1>1, <1>2, <1>3 DEF Reported, Health, Calm
<1>4. CASE o = "origin_error"
  BY <1>1, <1>2, <1>4 DEF Reported, Health, Calm
<1>5. CASE o \in {"ok", "transport_error"}
  <2> DEFINE failed == o = "transport_error"
  <2>1. failed \in BOOLEAN OBVIOUS
  <2>2. Reported(h, o) = Sampled(h, failed)
    BY <1>5 DEF Reported
  <2> HIDE DEF failed
  <2> DEFINE w == Slid(h.window, failed)
  <2>3. w \in Seq(BOOLEAN) /\ Len(w) <= Window
    BY <1>1, <2>1, SlidWindow DEF Calm
  <2>4. Sampled(h, failed) = IF Trips(w) THEN [window |-> <<>>, quarantine |-> Cooldown, backoff |-> h.backoff]
                             ELSE [h EXCEPT !.window = w]
    BY DEF Sampled
  <2> HIDE DEF w
  <2>5. CASE Trips(w)
    <3>1. Sampled(h, failed) = [window |-> <<>>, quarantine |-> Cooldown, backoff |-> h.backoff]
      BY <2>4, <2>5
    <3>2. <<>> \in Seq(BOOLEAN) /\ Cooldown \in 0..Cooldown
      BY <1>2
    <3>3. /\ Sampled(h, failed) \in Health
          /\ Sampled(h, failed).window = <<>>
          /\ Sampled(h, failed).quarantine = Cooldown
          /\ Sampled(h, failed).backoff = h.backoff
      BY <1>1, <3>1, <3>2 DEF Health
    <3> QED BY <1>1, <1>2, <2>2, <3>3, EmptyIsCalm DEF Calm
  <2>6. CASE ~Trips(w)
    <3>1. Sampled(h, failed) = [h EXCEPT !.window = w]
      BY <2>4, <2>6
    <3> QED BY <1>1, <1>2, <2>2, <2>3, <2>6, <3>1 DEF Health, Calm
  <2> QED BY <2>5, <2>6
<1> QED BY <1>3, <1>4, <1>5 DEF Outcome

LEMMA RestKeeps ==
    ASSUME NEW h \in Health, Calm(h)
    PROVE  /\ Rested(h) \in Health /\ Calm(Rested(h))
           /\ Rested(h).quarantine = Sooner(h.quarantine)
           /\ Rested(h).backoff = Sooner(h.backoff)
<1>1. h.window \in Seq(BOOLEAN) /\ h.quarantine \in 0..Cooldown /\ h.backoff \in 0..RateLimitBackoff
  BY DEF Health
<1>2. ASSUME NEW m \in Nat, NEW k \in 0..m PROVE Sooner(k) \in 0..m
  BY DEF Sooner, Larger
<1>3. Sooner(h.quarantine) \in 0..Cooldown
  BY <1>1, <1>2, PoolAssumption
<1>4. Sooner(h.backoff) \in 0..RateLimitBackoff
  BY <1>1, <1>2, PoolAssumption
<1> QED BY <1>1, <1>3, <1>4 DEF Rested, Calm, Health

LessThan == {ss \in Nat \X Nat : ss[1] < ss[2]}

LEMMA LessThanWellFounded == IsWellFoundedOn(LessThan, Nat)
BY NatLessThanWellFounded DEF OpToRel, LessThan

LEMMA LeastElement ==
    ASSUME NEW S \in SUBSET Nat, S # {}
    PROVE  \E k \in S : \A j \in S : k <= j
<1>1. PICK k \in S : \A j \in S : ~(<<j, k>> \in LessThan)
  BY LessThanWellFounded, WFMin
<1>2. \A j \in S : ~(j < k)
  BY <1>1 DEF LessThan
<1> QED BY <1>2

LEMMA CursorKept ==
    ASSUME NumProxies > 0, NEW hs \in [Proxy -> Health], NEW c \in Proxy
    PROVE  NextCursor(hs, c) \in Proxy
<1>1. NumProxies \in Nat /\ NumProxies > 0 BY PoolAssumption
<1>2. CASE Distances(hs, c) = {} BY <1>2 DEF NextCursor
<1>3. CASE Distances(hs, c) # {}
  <2> DEFINE Near(k) == \A j \in Distances(hs, c) : k <= j
  <2>1. Distances(hs, c) \subseteq 0..NumProxies - 1 BY DEF Distances, Proxy
  <2>2. \E k \in Distances(hs, c) : Near(k)
    BY <1>3, <2>1, LeastElement
  <2>3. NearestDistance(hs, c) \in Distances(hs, c)
    BY <2>2 DEF NearestDistance
  <2>4. NearestDistance(hs, c) \in Int BY <2>1, <2>3
  <2> QED BY <1>1, <1>3, <2>4 DEF NextCursor, Proxy
<1> QED BY <1>2, <1>3

-----------------------------------------------------------------------------
(* Types *)

LEMMA Constants ==
    /\ MaxGap \in Nat /\ FixedInterval \in Nat /\ MaxBatches \in Nat /\ MaxAttempts \in Nat
    /\ MaxBatches > 0 /\ MaxAttempts > 0 /\ BanFailures \in Nat /\ BanFailures > 0
    /\ NoProxy \notin Proxy
<1>1. Second \div MinRate \in Nat
  BY RateAssumption
<1> QED BY <1>1, RateAssumption, PaceAssumption, PoolAssumption
        DEF MaxGap, Larger, NoProxy, Proxy

LEMMA BatchTyped ==
    ASSUME NEW t \in Tasks
    PROVE  /\ Batch[t].domain \in Domain
           /\ Batch[t].proxy \in Proxy \cup {NoProxy}
           /\ Batch[t].idempotent \in BOOLEAN
           /\ Batch[t].retryNonIdempotent \in BOOLEAN \cup {Unset}
<1> DEFINE R == [domain : Domain, idempotent : BOOLEAN,
                 retryNonIdempotent : BOOLEAN \cup {Unset}, proxy : Proxy \cup {NoProxy}]
<1>1. Batch[t] \in R
  <2>1. Batch \in Seq(R) /\ t \in DOMAIN Batch BY BatchAssumption DEF Tasks
  <2> HIDE DEF R
  <2> QED BY <2>1
<1> QED BY <1>1

LEMMA ConfigTyped ==
    ASSUME NEW c \in Configs
    PROVE  /\ c.limiter \in {"none", "fixed", "adaptive"}
           /\ c.robots \in BOOLEAN /\ c.pool \in BOOLEAN
           /\ c.retries \in Nat /\ c.totalTimeout \in Nat
BY ConfigAssumption

LEMMA WaitingTyped == Waiting \in Step /\ Done \in Step
BY DEF Waiting, Fresh, Done, Step, Place

LEMMA SuspendedTyped ==
    ASSUME NEW s \in Step, NEW at \in Place, NEW time \in Int
    PROVE  /\ Suspended(s, at, time) \in Step
           /\ Suspended(s, at, time).at = at
           /\ Suspended(s, at, time).left = time
           /\ Suspended(s, at, time).delay = s.delay
           /\ Suspended(s, at, time).proxy = s.proxy
           /\ Suspended(s, at, time).attempt = s.attempt
           /\ Suspended(s, at, time).budget = s.budget
BY DEF Suspended, Step

LEMMA FreshTyped ==
    ASSUME NEW p \in Proxy \cup {NoProxy}, NEW budget \in Nat
    PROVE  Fresh(p, budget) \in Step /\ Fresh(p, budget).proxy = p
           /\ Fresh(p, budget).budget = budget /\ Fresh(p, budget).at = "waiting"
BY DEF Fresh, Step, Place

LEMMA LaterTyped ==
    ASSUME NEW s \in Step
    PROVE  /\ Later(s) \in Step
           /\ Later(s).at = s.at /\ Later(s).left = Sooner(s.left)
           /\ Later(s).budget = Sooner(s.budget)
           /\ Later(s).attempt = s.attempt
<1> DEFINE u == [s EXCEPT !.budget = Sooner(@)]
<1>1. Sooner(s.left) \in Nat /\ Sooner(s.budget) \in Nat
  BY DEF Step, Sooner, Larger
<1>2. u \in Step /\ u.budget = Sooner(s.budget) /\ u.attempt = s.attempt
  BY <1>1 DEF Step
<1>3. Later(s) = Suspended(u, s.at, Sooner(s.left)) /\ s.at \in Place
  BY DEF Later, Step
<1> HIDE DEF u
<1> QED BY <1>1, <1>2, <1>3, SuspendedTyped

LEMMA SlotIntervalTyped ==
    ASSUME NEW d \in Domain, limiter \in [Domain -> Limiter]
    PROVE  SlotInterval(d) \in Nat
<1>1. limiter[d].rate \in MinRate..MaxRate BY DEF Limiter
<1> QED BY <1>1, IntervalIsNat, Constants DEF SlotInterval

LEMMA LaunchTyped ==
    ASSUME TypeOK, NEW t \in Tasks, NEW s \in Step, Launch(t, s)
    PROVE  step' \in [Tasks -> Step] /\ sent' \in [Tasks -> Nat]
<1>1. Suspended(s, "send", 0) \in Step
  BY SuspendedTyped DEF Place
<1> QED BY <1>1 DEF Launch, TypeOK

LEMMA UseSlotTyped ==
    ASSUME TypeOK, NEW t \in Tasks, UseSlot(t)
    PROVE  sinceSlot' \in [Domain -> 0..MaxGap]
BY BatchTyped, Constants DEF UseSlot, TypeOK

LEMMA SendFirstTyped ==
    ASSUME TypeOK, NEW t \in Tasks, SendFirst(t)
    PROVE  /\ step' \in [Tasks -> Step]
           /\ nextSlot' \in [Domain -> Nat]
           /\ NumProxies > 0 => cursor' \in Proxy
           /\ sent' \in [Tasks -> Nat] /\ sinceSlot' \in [Domain -> 0..MaxGap]
<1> DEFINE d == Batch[t].domain
<1>1. d \in Domain BY BatchTyped
<1>2. PICK p \in Proxy \cup {NoProxy} :
          /\ ApplyProxy(t, p)
          /\ IF config.limiter = "none" \/ nextSlot[d] = 0
             THEN Launch(t, Ready(p)) /\ UseSlot(t)
             ELSE /\ step' = [step EXCEPT ![t] = Suspended(Fresh(p, 0), "pace", nextSlot[d])]
                  /\ UNCHANGED history
  BY DEF SendFirst
<1>3. NumProxies > 0 => cursor' \in Proxy
  <2>1. CASE UNCHANGED cursor BY <2>1 DEF TypeOK
  <2>2. CASE cursor' = NextCursor(health, cursor) BY <2>2, CursorKept DEF TypeOK
  <2> QED BY <1>2, <2>1, <2>2 DEF ApplyProxy
<1>4. nextSlot' \in [Domain -> Nat]
  <2>1. CASE UNCHANGED nextSlot BY <2>1 DEF TypeOK
  <2>2. CASE Reserve(d)
    <3>1. SlotInterval(d) \in Nat BY <1>1, SlotIntervalTyped DEF TypeOK
    <3> QED BY <1>1, <2>2, <3>1 DEF Reserve, TypeOK
  <2> QED BY <2>1, <2>2 DEF SendFirst
<1>5. CASE Launch(t, Ready(p)) /\ UseSlot(t)
  <2>1. Ready(p) \in Step BY FreshTyped, ConfigTyped DEF Ready, TypeOK
  <2> QED BY <1>3, <1>4, <1>5, <2>1, LaunchTyped, UseSlotTyped
<1>6. CASE /\ step' = [step EXCEPT ![t] = Suspended(Fresh(p, 0), "pace", nextSlot[d])]
           /\ UNCHANGED history
  <2>1. Suspended(Fresh(p, 0), "pace", nextSlot[d]) \in Step
    <3>1. nextSlot[d] \in Nat /\ "pace" \in Place BY <1>1 DEF Place, TypeOK
    <3>2. Fresh(p, 0) \in Step BY FreshTyped
    <3> QED BY <3>1, <3>2, SuspendedTyped
  <2> QED BY <1>3, <1>4, <1>6, <2>1 DEF history, TypeOK
<1> QED BY <1>2, <1>5, <1>6

LEMMA PassGateTyped ==
    ASSUME TypeOK, NEW t \in Tasks, NEW file \in RobotsAnswers, PassGate(t, file)
    PROVE  /\ step' \in [Tasks -> Step]
           /\ result' \in [Tasks -> Responses \cup {Disallowed, Unset}]
           /\ nextAllowed' \in [Domain -> Nat] /\ nextSlot' \in [Domain -> Nat]
           /\ NumProxies > 0 => cursor' \in Proxy
           /\ sent' \in [Tasks -> Nat] /\ sinceSlot' \in [Domain -> 0..MaxGap]
           /\ UNCHANGED <<limiter, failures, health>>
<1> DEFINE d == Batch[t].domain
<1>1. d \in Domain BY BatchTyped
<1>2. file # NoFile => file.delay \in Nat
  BY BatchAssumption DEF RobotsFile
<1>3. CASE /\ Finish(t, Disallowed)
           /\ UNCHANGED <<nextAllowed, pace, proxies, history>>
  BY <1>3, WaitingTyped DEF Finish, pace, proxies, history, TypeOK
<1>4. CASE SendFirst(t) /\ UNCHANGED nextAllowed
  <2>1. UNCHANGED <<result, limiter, failures, health>> BY <1>4 DEF SendFirst
  <2> QED BY <1>4, <2>1, SendFirstTyped DEF TypeOK
<1>5. CASE /\ file # NoFile
           /\ nextAllowed' = [nextAllowed EXCEPT ![d] = file.delay]
           /\ SendFirst(t)
  <2>1. UNCHANGED <<result, limiter, failures, health>> BY <1>5 DEF SendFirst
  <2>2. nextAllowed' \in [Domain -> Nat] BY <1>1, <1>2, <1>5 DEF TypeOK
  <2> QED BY <1>5, <2>1, <2>2, SendFirstTyped DEF TypeOK
<1>6. CASE /\ file # NoFile
           /\ step' = [step EXCEPT ![t] = Suspended([Waiting EXCEPT !.delay = file.delay],
                                                    "crawl", nextAllowed[d])]
           /\ UNCHANGED <<result, nextAllowed, pace, proxies, history>>
  <2>1. [Waiting EXCEPT !.delay = file.delay] \in Step
    BY <1>2, <1>6, WaitingTyped DEF Step
  <2>2. Suspended([Waiting EXCEPT !.delay = file.delay], "crawl", nextAllowed[d]) \in Step
    <3>1. nextAllowed[d] \in Nat /\ "crawl" \in Place BY <1>1 DEF Place, TypeOK
    <3> QED BY <2>1, <3>1, SuspendedTyped
  <2> QED BY <1>6, <2>2 DEF pace, proxies, history, TypeOK
<1> QED BY <1>3, <1>4, <1>5, <1>6 DEF PassGate

LEMMA ConcludeTyped ==
    ASSUME TypeOK, NEW t \in Tasks, NEW r \in Responses,
           Conclude(t, r) \/ Finish(t, r) \/ Raise(t, "raised") \/ Raise(t, "banned")
    PROVE  /\ step' \in [Tasks -> Step]
           /\ result' \in [Tasks -> Responses \cup {Disallowed, Unset}]
<1>1. CASE Finish(t, r) BY <1>1, WaitingTyped DEF Finish, TypeOK
<1>2. CASE Raise(t, "raised") BY <1>2, WaitingTyped DEF Raise, TypeOK
<1>3. CASE Raise(t, "banned") BY <1>3, WaitingTyped DEF Raise, TypeOK
<1> QED BY <1>1, <1>2, <1>3 DEF Conclude

\* What is reported of a request, at any time, leaves a proxy with a window that
\* does not trip, and resting for as long as it was to.
Patient == \A p \in Proxy :
              /\ health'[p].quarantine >= Sooner(health[p].quarantine)
              /\ health'[p].backoff >= Sooner(health[p].backoff)

LEMMA SoonerIsSmaller == ASSUME NEW n \in Nat PROVE Sooner(n) \in Nat /\ Sooner(n) <= n
BY DEF Sooner, Larger

LEMMA HealthTyped ==
    ASSUME NEW h \in Health PROVE h.quarantine \in Nat /\ h.backoff \in Nat
BY PoolAssumption DEF Health

LEMMA ReportTyped ==
    ASSUME TypeOK, NoTrippedWindow, NEW t \in Tasks, NEW r \in Responses, Report(t, r)
    PROVE  health' \in [Proxy -> Health] /\ NoTrippedWindow' /\ Patient
<1>1. health \in [Proxy -> Health] /\ \A p \in Proxy : Calm(health[p])
  BY DEF TypeOK, NoTrippedWindow, Calm
<1>2. CASE UNCHANGED health
  BY <1>1, <1>2, SoonerIsSmaller, HealthTyped DEF NoTrippedWindow, Patient
<1>3. CASE /\ step[t].proxy # NoProxy
           /\ health' = [health EXCEPT ![step[t].proxy] = Reported(@, ClassifyOutcome(r))]
  <2> DEFINE p == step[t].proxy
             o == ClassifyOutcome(r)
  <2>1. p \in Proxy BY <1>3 DEF TypeOK, Step
  <2>2. o \in Outcome BY OutcomeIsOne, BatchAssumption
  <2>3. health' = [health EXCEPT ![p] = Reported(health[p], o)] BY <1>3
  <2> HIDE DEF p, o
  <2>4. /\ Reported(health[p], o) \in Health
        /\ Calm(Reported(health[p], o))
        /\ Reported(health[p], o).quarantine >= health[p].quarantine
        /\ Reported(health[p], o).backoff >= health[p].backoff
    BY <1>1, <2>1, <2>2, ReportKeeps
  <2>5. health' \in [Proxy -> Health] BY <1>1, <2>1, <2>3, <2>4
  <2>6. \A q \in Proxy : health'[q] = IF q = p THEN Reported(health[p], o) ELSE health[q]
    BY <1>1, <2>1, <2>3
  <2>7. NoTrippedWindow'
    BY <1>1, <2>1, <2>4, <2>6 DEF NoTrippedWindow, Calm
  <2>8. \A q \in Proxy : /\ health'[q].quarantine >= health[q].quarantine
                         /\ health'[q].backoff >= health[q].backoff
    BY <1>1, <2>1, <2>4, <2>6, HealthTyped
  <2>9. Patient
    BY <1>1, <2>5, <2>8, SoonerIsSmaller, HealthTyped DEF Patient
  <2> QED BY <2>5, <2>7, <2>9
<1> QED BY <1>2, <1>3 DEF Report

LEMMA RestTyped ==
    ASSUME TypeOK, NoTrippedWindow, health' = [p \in Proxy |-> Rested(health[p])]
    PROVE  health' \in [Proxy -> Health] /\ NoTrippedWindow' /\ Patient
<1>1. \A p \in Proxy : health[p] \in Health /\ Calm(health[p])
  BY DEF TypeOK, NoTrippedWindow, Calm
<1>2. \A p \in Proxy : /\ health'[p] \in Health /\ Calm(health'[p])
                       /\ health'[p].quarantine = Sooner(health[p].quarantine)
                       /\ health'[p].backoff = Sooner(health[p].backoff)
  BY <1>1, RestKeeps
<1>3. Patient
  BY <1>1, <1>2, SoonerIsSmaller, HealthTyped DEF Patient
<1>4. NoTrippedWindow'
  BY <1>2 DEF NoTrippedWindow, Calm
<1>5. health' \in [Proxy -> Health]
  BY <1>2
<1> QED BY <1>3, <1>4, <1>5

LEMMA StillTyped ==
    ASSUME TypeOK, NoTrippedWindow, UNCHANGED health
    PROVE  health' \in [Proxy -> Health] /\ NoTrippedWindow' /\ Patient
BY SoonerIsSmaller, HealthTyped DEF TypeOK, NoTrippedWindow, Patient

-----------------------------------------------------------------------------
(* Every step *)

Inv == TypeOK /\ NoTrippedWindow

Kept == Inv' /\ Patient

LEMMA InitTyped == ASSUME Init PROVE Inv
<1>1. /\ StartRate \in MinRate..MaxRate /\ IncreaseAfter \in Nat /\ IncreaseAfter > 0
      /\ StartRate \in Nat
  BY RateAssumption
<1>2. FreshLimiter \in Limiter BY <1>1 DEF FreshLimiter, Limiter
<1>3. FreshHealth \in Health /\ Calm(FreshHealth)
  <2>1. <<>> \in Seq(BOOLEAN) /\ 0 \in 0..Cooldown /\ 0 \in 0..RateLimitBackoff
    BY PoolAssumption
  <2> QED BY <2>1, EmptyIsCalm DEF FreshHealth, Health, Calm
<1>4. NoTrippedWindow BY <1>3 DEF Init, NoTrippedWindow, Calm
<1>5. NumProxies > 0 => 0 \in Proxy BY PoolAssumption DEF Proxy
<1>6. TypeOK
  BY <1>2, <1>3, <1>5, Constants, WaitingTyped DEF Init, TypeOK
<1> QED BY <1>4, <1>6 DEF Inv

LEMMA EnterTyped == ASSUME Inv, NEW t \in Tasks, Enter(t) PROVE Kept
<1> USE DEF Inv
<1>1. UNCHANGED <<config, phase, batch, pass, pending, robots, denied>> BY DEF Enter
<1>2. CASE SendFirst(t) /\ UNCHANGED nextAllowed
  <2>1. UNCHANGED <<result, limiter, failures, health>> BY <1>2 DEF SendFirst
  <2>2. TypeOK' BY <1>1, <1>2, <2>1, SendFirstTyped DEF TypeOK
  <2> QED BY <2>1, <2>2, StillTyped DEF Kept
<1>3. CASE FetchRobots(t)
  <2>1. [step[t] EXCEPT !.at = "robots"] \in Step BY DEF Step, Place, TypeOK
  <2>2. step' \in [Tasks -> Step] BY <1>3, <2>1 DEF FetchRobots, TypeOK
  <2>3. UNCHANGED <<result, nextAllowed, pace, proxies, history>> BY <1>3 DEF FetchRobots
  <2>4. TypeOK' BY <1>1, <2>2, <2>3 DEF TypeOK, pace, proxies, history
  <2> QED BY <2>3, <2>4, StillTyped DEF Kept, proxies
<1>4. CASE /\ robots[Batch[t].domain] # Unfetched
           /\ PassGate(t, robots[Batch[t].domain])
  <2>1. robots[Batch[t].domain] \in RobotsAnswers
    BY <1>4, BatchTyped DEF TypeOK
  <2>2. UNCHANGED health BY <1>4, <2>1, PassGateTyped
  <2>3. TypeOK' BY <1>1, <1>4, <2>1, PassGateTyped DEF TypeOK
  <2> QED BY <2>2, <2>3, StillTyped DEF Kept
<1> QED BY <1>2, <1>3, <1>4 DEF Enter

LEMMA RobotsFetchedTyped == ASSUME Inv, NEW t \in Tasks, RobotsFetched(t) PROVE Kept
<1> USE DEF Inv
<1>1. PICK file \in RobotsAnswers :
         /\ robots' = [robots EXCEPT ![Batch[t].domain] = file]
         /\ denied' = IF file = NoFile THEN denied
                      ELSE denied \cup {u \in file.denied :
                                           /\ Batch[u].domain = Batch[t].domain
                                           /\ step[u].at = "waiting"}
         /\ PassGate(t, file)
  BY DEF RobotsFetched
<1>2. UNCHANGED <<config, phase, batch, pass, pending>> BY DEF RobotsFetched
<1>3. robots' \in [Domain -> RobotsAnswers \cup {Unfetched}]
  BY <1>1 DEF TypeOK
<1>4. denied' \subseteq Tasks
  <2>1. file # NoFile => file.denied \subseteq Tasks
    BY BatchAssumption DEF RobotsFile
  <2> QED BY <1>1, <2>1 DEF TypeOK
<1>5. UNCHANGED health BY <1>1, PassGateTyped
<1>6. TypeOK' BY <1>1, <1>2, <1>3, <1>4, PassGateTyped DEF TypeOK
<1> QED BY <1>5, <1>6, StillTyped DEF Kept

LEMMA RaiseTyped ==
    ASSUME TypeOK, NEW t \in Tasks, NEW how \in {"banned", "raised"}, Raise(t, how)
    PROVE  /\ step' \in [Tasks -> Step]
           /\ phase' \in {"running", "returned", "banned", "raised", "stopped"}
           /\ UNCHANGED result
BY WaitingTyped DEF Raise, TypeOK

LEMMA SleepOverTyped ==
    ASSUME Inv, NEW t \in Tasks, Paced(t) \/ Throttled(t) \/ Retry(t) \/ RobotsUnreadable(t)
    PROVE  Kept
<1> USE DEF Inv
<1> step[t] \in Step BY DEF TypeOK
<1>1. CASE Paced(t)
  <2>1. Ready(step[t].proxy) \in Step
    BY FreshTyped, ConfigTyped DEF Ready, TypeOK, Step
  <2>2. Launch(t, Ready(step[t].proxy)) /\ UseSlot(t)
        /\ UNCHANGED <<config, phase, batch, pass, pending, result, gate, pace, proxies>>
    BY <1>1 DEF Paced
  <2>3. TypeOK'
    BY <2>1, <2>2, LaunchTyped, UseSlotTyped DEF TypeOK, gate, pace, proxies
  <2> QED BY <2>2, <2>3, StillTyped DEF Kept, proxies
<1>2. CASE Throttled(t)
  <2>1. /\ SendFirst(t)
        /\ nextAllowed' = [nextAllowed EXCEPT ![Batch[t].domain] = step[t].delay]
        /\ UNCHANGED <<config, phase, batch, pass, pending, robots, denied>>
    BY <1>2 DEF Throttled
  <2>2. nextAllowed' \in [Domain -> Nat] BY <2>1, BatchTyped DEF TypeOK, Step
  <2>3. UNCHANGED <<result, limiter, failures, health>> BY <2>1 DEF SendFirst
  <2>4. TypeOK' BY <2>1, <2>2, <2>3, SendFirstTyped DEF TypeOK
  <2> QED BY <2>3, <2>4, StillTyped DEF Kept
<1>3. CASE Retry(t)
  <2>1. /\ Launch(t, step[t])
        /\ UNCHANGED <<config, phase, batch, pass, pending, result, gate, pace, proxies, sinceSlot>>
    BY <1>3 DEF Retry
  <2>2. TypeOK' BY <2>1, LaunchTyped DEF TypeOK, gate, pace, proxies
  <2> QED BY <2>1, <2>2, StillTyped DEF Kept, proxies
<1>4. CASE RobotsUnreadable(t)
  <2>1. /\ Raise(t, "raised")
        /\ UNCHANGED <<config, batch, pass, pending, gate, pace, proxies, history>>
    BY <1>4 DEF RobotsUnreadable
  <2>2. TypeOK' BY <2>1, RaiseTyped DEF TypeOK, gate, pace, proxies, history
  <2> QED BY <2>1, <2>2, StillTyped DEF Kept, proxies
<1> QED BY <1>1, <1>2, <1>3, <1>4

LEMMA BackoffTyped ==
    ASSUME NEW attempt \in Nat, NEW jitter \in 0..Jitter
    PROVE  BackoffDelay(attempt, jitter) \in Int
BY PaceAssumption DEF BackoffDelay, Smaller

LEMMA AnsweredBoundedTyped ==
    ASSUME Inv, NEW t \in Tasks, NEW r \in Responses, NEW jitter \in 0..Jitter,
           AnsweredBounded(t, r, jitter),
           UNCHANGED <<config, batch, pass, pending, gate, nextSlot, cursor, history>>
    PROVE  Kept
<1> USE DEF Inv
<1> DEFINE delay == BackoffDelay(step[t].attempt, jitter)
<1>1. step[t] \in Step BY DEF TypeOK
<1>2. UNCHANGED <<limiter, failures>> BY DEF AnsweredBounded
<1>3. CASE /\ step' = [step EXCEPT ![t] =
                          Suspended([step[t] EXCEPT !.attempt = @ + 1], "backoff", delay)]
           /\ UNCHANGED <<phase, result, health>>
  <2>1. [step[t] EXCEPT !.attempt = @ + 1] \in Step BY <1>1 DEF Step
  <2>2. delay \in Int /\ "backoff" \in Place BY <1>1, BackoffTyped DEF Step, Place
  <2>3. Suspended([step[t] EXCEPT !.attempt = @ + 1], "backoff", delay) \in Step
    BY <2>1, <2>2, SuspendedTyped
  <2>4. step' \in [Tasks -> Step] BY <1>3, <2>3 DEF TypeOK
  <2>5. TypeOK' BY <1>2, <1>3, <2>4 DEF TypeOK, gate, history
  <2> QED BY <1>3, <2>5, StillTyped DEF Kept
<1>4. CASE Report(t, r) /\ Conclude(t, r)
  <2>1. health' \in [Proxy -> Health] /\ NoTrippedWindow' /\ Patient
    BY <1>4, ReportTyped
  <2>2. phase' \in {"running", "returned", "banned", "raised", "stopped"}
    BY <1>4, RaiseTyped DEF Conclude, TypeOK
  <2>3. /\ step' \in [Tasks -> Step]
        /\ result' \in [Tasks -> Responses \cup {Disallowed, Unset}]
    BY <1>4, ConcludeTyped
  <2>4. TypeOK' BY <1>2, <2>1, <2>2, <2>3 DEF TypeOK, gate, history
  <2> QED BY <2>1, <2>4 DEF Kept
<1> QED BY <1>3, <1>4 DEF AnsweredBounded

LEMMA CountFailureTyped ==
    ASSUME TypeOK, NEW d \in Domain, NEW o, CountFailure(d, o)
    PROVE  failures' \in [Domain -> 0..BanFailures]
<1>1. failures[d] \in 0..BanFailures BY DEF TypeOK
<1>2. Smaller(failures[d] + 1, BanFailures) \in 0..BanFailures
  BY <1>1, Constants DEF Smaller
<1>3. 0 \in 0..BanFailures BY Constants
<1> QED BY <1>1, <1>2, <1>3 DEF CountFailure, TypeOK

LEMMA AnsweredAdaptiveTyped ==
    ASSUME Inv, NEW t \in Tasks, NEW r \in Responses, AnsweredAdaptive(t, r),
           UNCHANGED <<config, batch, pass, pending, gate, nextSlot, cursor, history>>
    PROVE  Kept
<1> USE DEF Inv
<1> DEFINE d == Batch[t].domain
           o == ClassifyOutcome(r)
<1>1. /\ Report(t, r)
      /\ limiter' = [limiter EXCEPT ![d] = Recorded(@, o)]
      /\ CountFailure(d, o)
      /\ IF Banned(limiter[d], o) THEN Raise(t, "banned") ELSE Conclude(t, r)
  BY DEF AnsweredAdaptive
<1>2. d \in Domain /\ o \in Outcome BY BatchTyped, OutcomeIsOne, BatchAssumption
<1>3. health' \in [Proxy -> Health] /\ NoTrippedWindow' /\ Patient
  BY <1>1, ReportTyped
<1>4. limiter' \in [Domain -> Limiter]
  <2>1. Recorded(limiter[d], o) \in Limiter BY <1>2, LimiterKept DEF TypeOK
  <2> HIDE DEF d, o
  <2> QED BY <1>1, <1>2, <2>1 DEF TypeOK
<1>5. failures' \in [Domain -> 0..BanFailures] BY <1>1, <1>2, CountFailureTyped
<1>6. phase' \in {"running", "returned", "banned", "raised", "stopped"}
  BY <1>1, RaiseTyped DEF Conclude, TypeOK
<1>7. /\ step' \in [Tasks -> Step]
      /\ result' \in [Tasks -> Responses \cup {Disallowed, Unset}]
  BY <1>1, ConcludeTyped
<1>8. TypeOK' BY <1>3, <1>4, <1>5, <1>6, <1>7 DEF TypeOK, gate, history
<1> QED BY <1>3, <1>8 DEF Kept

LEMMA AnsweredTyped == ASSUME Inv, NEW t \in Tasks, Answered(t) PROVE Kept
<1>1. UNCHANGED <<config, batch, pass, pending, gate, nextSlot, cursor, history>>
  BY DEF Answered
<1>2. PICK r \in Responses :
          IF config.limiter = "adaptive" THEN AnsweredAdaptive(t, r)
          ELSE \E jitter \in 0..Jitter : AnsweredBounded(t, r, jitter)
  BY DEF Answered
<1>3. CASE AnsweredAdaptive(t, r) BY <1>1, <1>3, AnsweredAdaptiveTyped
<1>4. CASE \E jitter \in 0..Jitter : AnsweredBounded(t, r, jitter)
  BY <1>1, <1>4, AnsweredBoundedTyped
<1> QED BY <1>2, <1>3, <1>4

LEMMA BatchStepTyped == ASSUME Inv, Replay \/ Return \/ NextBatch \/ Stop PROVE Kept
<1> USE DEF Inv
<1>1. CASE Replay
  <2>1. /\ pass' = pass + 1 /\ pass < MaxAttempts /\ pending' = Deferred
        /\ step' = [t \in Tasks |-> IF t \in Deferred THEN Waiting ELSE Done]
        /\ UNCHANGED <<config, phase, batch, result, gate, pace, proxies, history>>
    BY <1>1 DEF Replay, AnotherPass
  <2>2. pending' \subseteq Tasks BY <2>1 DEF Deferred, TypeOK
  <2>3. pass' \in 1..MaxAttempts BY <2>1, Constants DEF TypeOK
  <2>4. step' \in [Tasks -> Step] BY <2>1, WaitingTyped
  <2>5. TypeOK' BY <2>1, <2>2, <2>3, <2>4 DEF TypeOK, gate, pace, proxies, history
  <2> QED BY <2>1, <2>5, StillTyped DEF Kept, proxies
<1>2. CASE Return
  <2>1. TypeOK' BY <1>2 DEF Return, TypeOK, gate, pace, proxies, history
  <2> QED BY <1>2, <2>1, StillTyped DEF Kept, Return, proxies
<1>3. CASE NextBatch
  <2>1. /\ batch < MaxBatches /\ batch' = batch + 1 /\ phase' = "running" /\ pass' = 1
        /\ pending' = Tasks /\ step' = [t \in Tasks |-> Waiting]
        /\ result' = [t \in Tasks |-> Unset] /\ sent' = [t \in Tasks |-> 0] /\ denied' = {}
        /\ UNCHANGED <<config, robots, nextAllowed, pace, proxies, sinceSlot>>
    BY <1>3 DEF NextBatch
  <2>2. batch' \in 1..MaxBatches /\ pass' \in 1..MaxAttempts
    BY <2>1, Constants DEF TypeOK
  <2>3. step' \in [Tasks -> Step] BY <2>1, WaitingTyped
  <2>4. TypeOK' BY <2>1, <2>2, <2>3 DEF TypeOK, pace, proxies
  <2> QED BY <2>1, <2>4, StillTyped DEF Kept, proxies
<1>4. CASE Stop
  <2>1. /\ phase' = "stopped" /\ step' = [t \in Tasks |-> Done]
        /\ UNCHANGED <<config, batch, pass, pending, result, gate, pace, proxies, history>>
    BY <1>4 DEF Stop
  <2>2. step' \in [Tasks -> Step] BY <2>1, WaitingTyped
  <2>3. TypeOK' BY <2>1, <2>2 DEF TypeOK, gate, pace, proxies, history
  <2> QED BY <2>1, <2>3, StillTyped DEF Kept, proxies
<1> QED BY <1>1, <1>2, <1>3, <1>4

LEMMA TickTyped == ASSUME Inv, Tick PROVE Kept
<1> USE DEF Inv
<1>1. /\ step' = [t \in Tasks |-> Later(step[t])]
      /\ nextAllowed' = [d \in Domain |-> Sooner(nextAllowed[d])]
      /\ nextSlot' = [d \in Domain |-> Sooner(nextSlot[d])]
      /\ sinceSlot' = [d \in Domain |-> Smaller(sinceSlot[d] + 1, MaxGap)]
      /\ health' = [p \in Proxy |-> Rested(health[p])]
      /\ UNCHANGED <<config, phase, batch, pass, pending, result, robots, denied, limiter,
                     failures, cursor, sent>>
  BY DEF Tick
<1>2. step' \in [Tasks -> Step] BY <1>1, LaterTyped DEF TypeOK
<1>3. nextAllowed' \in [Domain -> Nat] /\ nextSlot' \in [Domain -> Nat]
  BY <1>1, SoonerIsSmaller DEF TypeOK
<1>4. sinceSlot' \in [Domain -> 0..MaxGap]
  <2>1. \A d \in Domain : Smaller(sinceSlot[d] + 1, MaxGap) \in 0..MaxGap
    BY Constants DEF Smaller, TypeOK
  <2> QED BY <1>1, <2>1
<1>5. health' \in [Proxy -> Health] /\ NoTrippedWindow' /\ Patient
  BY <1>1, RestTyped
<1>6. TypeOK' BY <1>1, <1>2, <1>3, <1>4, <1>5 DEF TypeOK
<1> QED BY <1>5, <1>6 DEF Kept

LEMMA StutterTyped == ASSUME Inv, UNCHANGED vars PROVE Kept
<1>1. TypeOK' BY DEF Inv, TypeOK, vars, gate, pace, proxies, history
<1> QED BY <1>1, StillTyped DEF Inv, Kept, vars, proxies

LEMMA NextTyped == ASSUME Inv, [Next]_vars PROVE Kept
<1>1. ASSUME NEW t \in Tasks, Run(t) PROVE Kept
  BY <1>1, EnterTyped, RobotsFetchedTyped, SleepOverTyped, AnsweredTyped DEF Run
<1> QED BY <1>1, BatchStepTyped, TickTyped, StutterTyped DEF Next

\* Whatever the batch and the answers: the variables keep their types, and no
\* window at rest trips its proxy's breaker.
THEOREM TypeCorrect == Spec => []TypeOK
<1>1. Init => Inv BY InitTyped
<1>2. Inv /\ [Next]_vars => Inv' BY NextTyped DEF Kept
<1>3. Inv => TypeOK BY DEF Inv
<1> QED BY <1>1, <1>2, <1>3, PTL DEF Spec

\* However late and in whatever order outcomes are reported, the window a proxy
\* is judged by never stays in a state that trips the breaker: tripping clears it
\* (proxies/health.py).
THEOREM WindowCleared == Spec => []NoTrippedWindow
<1>1. Init => Inv BY InitTyped
<1>2. Inv /\ [Next]_vars => Inv' BY NextTyped DEF Kept
<1>3. Inv => NoTrippedWindow BY DEF Inv
<1> QED BY <1>1, <1>2, <1>3, PTL DEF Spec

\* A quarantine and a back-off run their whole time: no report, a late success
\* among them, brings a proxy back earlier (ProxyHealth.record).
THEOREM RestRunsOut == Spec => RestNotShortened
<1>1. Init => Inv BY InitTyped
<1>2. Inv /\ [Next]_vars => Inv' BY NextTyped DEF Kept
<1>3. Inv /\ [Next]_vars =>
        [\A p \in Proxy :
            /\ health'[p].quarantine >= Sooner(health[p].quarantine)
            /\ health'[p].backoff >= Sooner(health[p].backoff)]_vars
  BY NextTyped DEF Kept, Patient
<1> QED BY <1>1, <1>2, <1>3, PTL DEF Spec, RestNotShortened

-----------------------------------------------------------------------------
(* What a coroutine's step does to itself and to its domain's slots *)

\* Its first request leaves at once ...
Leaves(t) ==
    /\ step'[t].at = "send"
    /\ UseSlot(t)
    /\ sent' = [sent EXCEPT ![t] = @ + 1]
    /\ config.limiter # "none" => nextSlot[Batch[t].domain] = 0 /\ Reserve(Batch[t].domain)

\* ... or waits for the slot it has reserved;
Queues(t) ==
    /\ config.limiter # "none"
    /\ step'[t].at = "pace" /\ step'[t].left = nextSlot[Batch[t].domain]
    /\ Reserve(Batch[t].domain)
    /\ UNCHANGED history

\* it goes on after a sleep ...
Resumes(t) ==
    /\ step[t].at \in {"pace", "backoff"} /\ step[t].left = 0
    /\ step'[t].at = "send"
    /\ sent' = [sent EXCEPT ![t] = @ + 1]
    /\ IF step[t].at = "pace" THEN UseSlot(t) ELSE UNCHANGED sinceSlot
    /\ UNCHANGED nextSlot

\* ... or it waits for something else, or is done.
Pauses(t) ==
    /\ \/ step'[t].at \in {"robots", "crawl", "done"}
       \/ step[t].at = "send" /\ step'[t].at = "backoff"
    /\ UNCHANGED <<nextSlot, history>>

OnlyStep(t) == \E s \in Step : step' = [step EXCEPT ![t] = s]

LEMMA SendFirstEffect ==
    ASSUME TypeOK, NEW t \in Tasks, SendFirst(t)
    PROVE  OnlyStep(t) /\ (Leaves(t) \/ Queues(t))
<1> DEFINE d == Batch[t].domain
<1>1. d \in Domain BY BatchTyped
<1>2. PICK p \in Proxy \cup {NoProxy} :
          IF config.limiter = "none" \/ nextSlot[d] = 0
          THEN Launch(t, Ready(p)) /\ UseSlot(t)
          ELSE /\ step' = [step EXCEPT ![t] = Suspended(Fresh(p, 0), "pace", nextSlot[d])]
               /\ UNCHANGED history
  BY DEF SendFirst
<1>3. config.limiter # "none" => Reserve(d) BY DEF SendFirst
<1>4. CASE config.limiter = "none" \/ nextSlot[d] = 0
  <2>1. Ready(p) \in Step BY FreshTyped, ConfigTyped DEF Ready, TypeOK
  <2>2. Suspended(Ready(p), "send", 0) \in Step /\ Suspended(Ready(p), "send", 0).at = "send"
    BY <2>1, SuspendedTyped DEF Place
  <2>3. step' = [step EXCEPT ![t] = Suspended(Ready(p), "send", 0)]
        /\ sent' = [sent EXCEPT ![t] = @ + 1] /\ UseSlot(t)
    BY <1>2, <1>4 DEF Launch
  <2>4. step'[t].at = "send" BY <2>2, <2>3 DEF TypeOK
  <2> QED BY <1>3, <1>4, <2>2, <2>3, <2>4 DEF OnlyStep, Leaves
<1>5. CASE config.limiter # "none" /\ nextSlot[d] # 0
  <2> DEFINE s == Suspended(Fresh(p, 0), "pace", nextSlot[d])
  <2>1. nextSlot[d] \in Nat /\ "pace" \in Place BY <1>1 DEF Place, TypeOK
  <2>2. s \in Step /\ s.at = "pace" /\ s.left = nextSlot[d]
    <3>1. Fresh(p, 0) \in Step
      BY <1>1, FreshTyped
    <3>2. nextSlot[d] \in Int
      BY <2>1
    <3> HIDE DEF TypeOK
    <3> QED BY <2>1, <3>1, <3>2, SuspendedTyped
  <2>3. step' = [step EXCEPT ![t] = s] /\ UNCHANGED history BY <1>2, <1>5
  <2> HIDE DEF s
  <2>4. step'[t] = s BY <2>3 DEF TypeOK
  <2> QED BY <1>3, <1>5, <2>2, <2>3, <2>4 DEF OnlyStep, Queues
<1> QED BY <1>4, <1>5

LEMMA PassGateEffect ==
    ASSUME TypeOK, NEW t \in Tasks, NEW file \in RobotsAnswers, PassGate(t, file)
    PROVE  OnlyStep(t) /\ (Leaves(t) \/ Queues(t) \/ Pauses(t))
<1> DEFINE d == Batch[t].domain
<1>1. CASE SendFirst(t) BY <1>1, SendFirstEffect
<1>2. CASE /\ Finish(t, Disallowed)
           /\ UNCHANGED <<nextAllowed, pace, proxies, history>>
  <2>1. step' = [step EXCEPT ![t] = Done] BY <1>2 DEF Finish
  <2>2. Done \in Step /\ Done.at = "done" BY WaitingTyped DEF Done, Waiting, Fresh
  <2>3. step'[t] = Done BY <2>1 DEF TypeOK
  <2> QED BY <1>2, <2>1, <2>2, <2>3 DEF OnlyStep, Pauses, pace
<1>3. CASE /\ file # NoFile
           /\ step' = [step EXCEPT ![t] = Suspended([Waiting EXCEPT !.delay = file.delay],
                                                    "crawl", nextAllowed[d])]
           /\ UNCHANGED <<result, nextAllowed, pace, proxies, history>>
  <2> DEFINE s == Suspended([Waiting EXCEPT !.delay = file.delay], "crawl", nextAllowed[d])
  <2>1. file.delay \in Nat BY <1>3, BatchAssumption DEF RobotsFile
  <2>2. [Waiting EXCEPT !.delay = file.delay] \in Step
    BY <2>1, WaitingTyped DEF Step
  <2>3. nextAllowed[d] \in Nat /\ "crawl" \in Place BY BatchTyped DEF Place, TypeOK
  <2>4. s \in Step /\ s.at = "crawl" BY <2>2, <2>3, SuspendedTyped
  <2>5. step' = [step EXCEPT ![t] = s] /\ UNCHANGED <<pace, history>> BY <1>3
  <2> HIDE DEF s
  <2>6. step'[t] = s BY <2>5 DEF TypeOK
  <2> QED BY <2>4, <2>5, <2>6 DEF OnlyStep, Pauses, pace
<1> QED BY <1>1, <1>2, <1>3 DEF PassGate

LEMMA DoneEffect ==
    ASSUME TypeOK, NEW t \in Tasks, step' = [step EXCEPT ![t] = Done]
    PROVE  OnlyStep(t) /\ step'[t].at = "done"
<1>1. Done \in Step /\ Done.at = "done" BY WaitingTyped DEF Done, Waiting, Fresh
<1>2. step'[t] = Done BY DEF TypeOK
<1> QED BY <1>1, <1>2 DEF OnlyStep

LEMMA AnsweredEffect ==
    ASSUME TypeOK, NEW t \in Tasks, Answered(t)
    PROVE  OnlyStep(t) /\ Pauses(t)
<1>1. step[t].at = "send" /\ UNCHANGED <<nextSlot, history>> BY DEF Answered
<1>2. PICK r \in Responses :
          IF config.limiter = "adaptive" THEN AnsweredAdaptive(t, r)
          ELSE \E jitter \in 0..Jitter : AnsweredBounded(t, r, jitter)
  BY DEF Answered
<1>3. CASE step' = [step EXCEPT ![t] = Done]
  BY <1>1, <1>3, DoneEffect DEF Pauses
<1>4. CASE config.limiter = "adaptive"
  BY <1>2, <1>3, <1>4 DEF AnsweredAdaptive, Conclude, Finish, Raise
<1>5. CASE config.limiter # "adaptive"
  <2>1. PICK jitter \in 0..Jitter : AnsweredBounded(t, r, jitter) BY <1>2, <1>5
  <2> DEFINE s == Suspended([step[t] EXCEPT !.attempt = @ + 1], "backoff",
                            BackoffDelay(step[t].attempt, jitter))
  <2>2. CASE step' = [step EXCEPT ![t] = s]
    <3>1. step[t] \in Step BY DEF TypeOK
    <3>2. [step[t] EXCEPT !.attempt = @ + 1] \in Step BY <3>1 DEF Step
    <3>3. BackoffDelay(step[t].attempt, jitter) \in Int /\ "backoff" \in Place
      BY <3>1, BackoffTyped DEF Step, Place
    <3>4. s \in Step /\ s.at = "backoff" BY <3>2, <3>3, SuspendedTyped
    <3> HIDE DEF s
    <3>5. step'[t] = s BY <2>2 DEF TypeOK
    <3> QED BY <1>1, <2>2, <3>4, <3>5 DEF OnlyStep, Pauses
  <2> QED BY <1>3, <2>1, <2>2 DEF AnsweredBounded, Conclude, Finish, Raise
<1> QED BY <1>4, <1>5

LEMMA AnsweredEnds ==
    ASSUME TypeOK, NEW t \in Tasks, Answered(t), Pauses(t)
    PROVE  step'[t].at \in {"backoff", "done"}
<1>1. CASE step' = [step EXCEPT ![t] = Done] BY <1>1, DoneEffect
<1>2. CASE step' # [step EXCEPT ![t] = Done]
  <2>1. PICK r \in Responses, jitter \in 0..Jitter : AnsweredBounded(t, r, jitter)
    BY <1>2 DEF Answered, AnsweredAdaptive, Conclude, Finish, Raise
  <2> DEFINE u == [step[t] EXCEPT !.attempt = @ + 1]
             s == Suspended(u, "backoff", BackoffDelay(step[t].attempt, jitter))
  <2>2. step' = [step EXCEPT ![t] = s]
    BY <1>2, <2>1 DEF AnsweredBounded, Conclude, Finish, Raise
  <2>3. s.at = "backoff" BY DEF Suspended
  <2> HIDE DEF s
  <2>4. step'[t] = s BY <2>2 DEF TypeOK
  <2> QED BY <2>3, <2>4
<1> QED BY <1>1, <1>2

LEMMA LaunchEffect ==
    ASSUME TypeOK, NEW t \in Tasks, NEW s \in Step, Launch(t, s)
    PROVE  OnlyStep(t) /\ step'[t].at = "send" /\ sent' = [sent EXCEPT ![t] = @ + 1]
<1>1. Suspended(s, "send", 0) \in Step /\ Suspended(s, "send", 0).at = "send"
  BY SuspendedTyped DEF Place
<1>2. step' = [step EXCEPT ![t] = Suspended(s, "send", 0)] BY DEF Launch
<1>3. step'[t] = Suspended(s, "send", 0) BY <1>2 DEF TypeOK
<1> QED BY <1>1, <1>2, <1>3 DEF OnlyStep, Launch

LEMMA RunEffect ==
    ASSUME TypeOK, NEW t \in Tasks, Run(t)
    PROVE  /\ UNCHANGED config
           /\ OnlyStep(t)
           /\ \/ (Leaves(t) \/ Queues(t)) /\ step[t].at \in {"waiting", "robots", "crawl"}
              \/ Resumes(t)
              \/ Pauses(t)
<1>1. UNCHANGED config
  BY DEF Run, Enter, RobotsFetched, RobotsUnreadable, Throttled, Paced, Answered, Retry
<1>2. CASE Enter(t)
  <2>1. step[t].at = "waiting" BY <1>2 DEF Enter, MayEnter
  <2>2. CASE SendFirst(t) BY <1>1, <2>1, <2>2, SendFirstEffect
  <2>3. CASE FetchRobots(t)
    <3>1. [step[t] EXCEPT !.at = "robots"] \in Step BY DEF Step, Place, TypeOK
    <3>2. step' = [step EXCEPT ![t] = [step[t] EXCEPT !.at = "robots"]]
          /\ UNCHANGED <<pace, history>>
      BY <2>3 DEF FetchRobots
    <3>3. step'[t].at = "robots" BY <3>1, <3>2 DEF TypeOK, Step
    <3> QED BY <1>1, <3>1, <3>2, <3>3 DEF OnlyStep, Pauses, pace
  <2>4. CASE /\ robots[Batch[t].domain] # Unfetched
             /\ PassGate(t, robots[Batch[t].domain])
    <3>1. robots[Batch[t].domain] \in RobotsAnswers BY <2>4, BatchTyped DEF TypeOK
    <3> QED BY <1>1, <2>1, <2>4, <3>1, PassGateEffect
  <2> QED BY <1>2, <2>2, <2>3, <2>4 DEF Enter
<1>3. CASE RobotsFetched(t)
  BY <1>1, <1>3, PassGateEffect DEF RobotsFetched
<1>4. CASE RobotsUnreadable(t)
  BY <1>1, <1>4, DoneEffect DEF RobotsUnreadable, Raise, Pauses, pace
<1>5. CASE Throttled(t)
  BY <1>1, <1>5, SendFirstEffect DEF Throttled
<1>6. CASE Paced(t)
  <2>1. Ready(step[t].proxy) \in Step
    <3>1. step[t] \in Step /\ config \in Configs BY DEF TypeOK
    <3>2. step[t].proxy \in Proxy \cup {NoProxy} BY <3>1 DEF Step
    <3> QED BY <3>1, <3>2, FreshTyped, ConfigTyped DEF Ready
  <2> QED BY <1>1, <1>6, <2>1, LaunchEffect DEF Paced, Resumes, pace
<1>7. CASE Retry(t)
  <2>1. step[t] \in Step BY DEF TypeOK
  <2> QED BY <1>1, <1>7, <2>1, LaunchEffect DEF Retry, Resumes, pace
<1>8. CASE Answered(t) BY <1>1, <1>8, AnsweredEffect
<1> QED BY <1>2, <1>3, <1>4, <1>5, <1>6, <1>7, <1>8 DEF Run

LEMMA OthersStay ==
    ASSUME TypeOK, NEW t \in Tasks, OnlyStep(t), NEW u \in Tasks, u # t
    PROVE  step'[u] = step[u]
BY DEF OnlyStep, TypeOK

-----------------------------------------------------------------------------
(* No request before the robots.txt was asked for *)

Asks(t) == step[t].at \in {"crawl", "pace", "send", "backoff"}

AskedFirst ==
    config.robots => \A t \in Tasks :
        sent[t] > 0 \/ Asks(t) => robots[Batch[t].domain] # Unfetched

\* The gate never forgets an origin.
LEMMA GateRemembers ==
    ASSUME TypeOK, NEW t \in Tasks, Run(t), NEW d \in Domain, robots[d] # Unfetched
    PROVE  robots'[d] # Unfetched
<1>1. CASE RobotsFetched(t)
  <2>1. PICK file \in RobotsAnswers : robots' = [robots EXCEPT ![Batch[t].domain] = file]
    BY <1>1 DEF RobotsFetched
  <2>2. file # Unfetched BY BatchAssumption
  <2> QED BY <2>1, <2>2 DEF TypeOK
<1>2. CASE UNCHANGED robots BY <1>2
<1> QED BY <1>1, <1>2 DEF Run, Enter, RobotsUnreadable, Throttled, Paced, Answered, Retry, gate

LEMMA AskedBeforeRun ==
    ASSUME TypeOK, AskedFirst, config.robots, NEW t \in Tasks, Run(t)
    PROVE  sent'[t] > 0 \/ Asks(t)' => robots'[Batch[t].domain] # Unfetched
<1> DEFINE d == Batch[t].domain
<1>1. d \in Domain BY BatchTyped
<1>2. CASE robots[d] # Unfetched BY <1>1, <1>2, GateRemembers
<1>3. CASE robots[d] = Unfetched
  <2>1. ~(sent[t] > 0) /\ ~Asks(t) BY <1>3 DEF AskedFirst
  <2>2. CASE Enter(t)
    <3>1. FetchRobots(t) BY <1>3, <2>2 DEF Enter
    <3>2. step'[t].at = "robots"
      <4>1. step[t] \in Step BY DEF TypeOK
      <4>2. step' = [step EXCEPT ![t] = [step[t] EXCEPT !.at = "robots"]]
        BY <3>1 DEF FetchRobots
      <4> QED BY <4>1, <4>2 DEF TypeOK, Step
    <3>3. UNCHANGED sent BY <3>1 DEF FetchRobots, history
    <3> QED BY <2>1, <3>2, <3>3 DEF Asks
  <2>3. CASE RobotsFetched(t)
    <3>1. PICK file \in RobotsAnswers : robots' = [robots EXCEPT ![d] = file]
      BY <2>3 DEF RobotsFetched
    <3>2. file # Unfetched BY BatchAssumption
    <3> QED BY <1>1, <3>1, <3>2 DEF TypeOK
  <2>4. CASE RobotsUnreadable(t)
    <3>1. step'[t].at = "done" /\ UNCHANGED sent
      BY <2>4, DoneEffect DEF RobotsUnreadable, Raise, history
    <3> QED BY <2>1, <3>1 DEF Asks
  <2>5. CASE Throttled(t) \/ Paced(t) \/ Answered(t) \/ Retry(t)
    BY <2>1, <2>5 DEF Asks, Throttled, Paced, Answered, Retry
  <2> QED BY <2>2, <2>3, <2>4, <2>5 DEF Run
<1> QED BY <1>2, <1>3

LEMMA SentOnlyOwn ==
    ASSUME TypeOK, NEW t \in Tasks, Run(t), NEW u \in Tasks, u # t
    PROVE  sent'[u] = sent[u]
<1>1. sent' = sent \/ sent' = [sent EXCEPT ![t] = @ + 1]
  BY RunEffect DEF Leaves, Queues, Resumes, Pauses, history
<1> QED BY <1>1 DEF TypeOK

LEMMA AskedFirstKept ==
    ASSUME TypeOK, AskedFirst, [Next]_vars
    PROVE  AskedFirst'
<1>1. ASSUME NEW t \in Tasks, Run(t) PROVE AskedFirst'
  <2>1. SUFFICES ASSUME config.robots', NEW u \in Tasks
                 PROVE  sent'[u] > 0 \/ Asks(u)' => robots'[Batch[u].domain] # Unfetched
    BY DEF AskedFirst
  <2>2. config.robots BY <1>1, <2>1, RunEffect
  <2>3. CASE u = t BY <1>1, <2>2, <2>3, AskedBeforeRun
  <2>4. CASE u # t
    <3>1. sent'[u] = sent[u] /\ (Asks(u)' <=> Asks(u))
      BY <1>1, <2>4, SentOnlyOwn, OthersStay, RunEffect DEF Asks
    <3>2. sent[u] > 0 \/ Asks(u) => robots[Batch[u].domain] # Unfetched
      BY <2>2 DEF AskedFirst
    <3> QED BY <1>1, <3>1, <3>2, BatchTyped, GateRemembers
  <2> QED BY <2>3, <2>4
<1>2. ASSUME \A t \in Tasks : step'[t] \in {Waiting, Done},
             UNCHANGED <<config, robots>>, \A t \in Tasks : sent'[t] > 0 => sent[t] > 0
      PROVE  AskedFirst'
  <2>1. \A t \in Tasks : step'[t].at \in {"waiting", "done"}
    BY <1>2 DEF Waiting, Done, Fresh
  <2> QED BY <1>2, <2>1 DEF AskedFirst, Asks
<1>3. CASE Replay
  BY <1>2, <1>3 DEF Replay, gate, history
<1>4. CASE NextBatch
  <2>1. \A t \in Tasks : step'[t] = Waiting /\ sent'[t] = 0
    BY <1>4 DEF NextBatch
  <2> QED BY <1>2, <1>4, <2>1 DEF NextBatch
<1>5. CASE Stop
  BY <1>2, <1>5 DEF Stop, gate, history
<1>6. CASE Tick
  <2>1. \A t \in Tasks : step'[t].at = step[t].at
    BY <1>6, LaterTyped DEF Tick, TypeOK
  <2> QED BY <1>6, <2>1 DEF Tick, AskedFirst, Asks
<1>7. CASE Return \/ UNCHANGED vars
  BY <1>7 DEF Return, vars, gate, history, AskedFirst, Asks
<1> QED BY <1>1, <1>3, <1>4, <1>5, <1>6, <1>7 DEF Next

\* Whatever coroutines of a batch overlap, nothing is asked of an origin before
\* the gate has had an answer about its robots.txt (AsyncRobotsGate.allowed).
THEOREM GateComesFirst == Spec => []RobotsFirst
<1>1. Init => Inv /\ AskedFirst
  <2>1. Init => AskedFirst BY DEF Init, AskedFirst, Asks, Waiting, Fresh
  <2> QED BY <2>1, InitTyped
<1>2. Inv /\ AskedFirst /\ [Next]_vars => Inv' /\ AskedFirst'
  BY NextTyped, AskedFirstKept DEF Kept, Inv
<1>3. AskedFirst => RobotsFirst BY DEF AskedFirst, RobotsFirst
<1> QED BY <1>1, <1>2, <1>3, PTL DEF Spec

-----------------------------------------------------------------------------
(* Bans *)

\* What the limiter counts at the floor are failures in a row.
Counts(l, f) == Smaller(l.failAtMin, BanFailures) <= f

FailuresCounted == \A d \in Domain : Counts(limiter[d], failures[d])

AfterOutcome(f, o) ==
    IF Failure(o) THEN Smaller(f + 1, BanFailures) ELSE IF o = "ok" THEN 0 ELSE f

LEMMA CountKept ==
    ASSUME NEW l \in Limiter, NEW f \in 0..BanFailures, Counts(l, f), NEW o \in Outcome
    PROVE  /\ Counts(Recorded(l, o), AfterOutcome(f, o))
           /\ Banned(l, o) => AfterOutcome(f, o) = BanFailures /\ Recorded(l, o).rate = MinRate
<1>1. l.rate \in MinRate..MaxRate /\ l.failAtMin \in Nat BY DEF Limiter
<1>2. MinRate \in Nat /\ MinRate > 0 /\ BanFailures \in Nat /\ BanFailures > 0
  BY RateAssumption
<1>3. CASE Failure(o)
  <2>1. Recorded(l, o) = Decreased(l) /\ AfterOutcome(f, o) = Smaller(f + 1, BanFailures)
    BY <1>3 DEF Recorded, AfterOutcome
  <2>2. Decreased(l).failAtMin = IF AtFloor(l) THEN l.failAtMin + 1 ELSE 0
    BY DEF Decreased
  <2>3. Counts(Decreased(l), Smaller(f + 1, BanFailures))
    BY <1>1, <1>2, <2>2 DEF Counts, Smaller
  <2>4. ASSUME Banned(l, o) PROVE Smaller(f + 1, BanFailures) = BanFailures
    BY <1>1, <1>2, <2>4 DEF Banned, Counts, Smaller
  <2>5. ASSUME Banned(l, o) PROVE Decreased(l).rate = MinRate
    <3>1. l.rate = MinRate /\ MinRate \div 2 <= MinRate
      BY <1>1, <1>2, <2>5 DEF Banned, AtFloor
    <3> QED BY <1>2, <3>1 DEF Decreased, Larger
  <2> QED BY <2>1, <2>3, <2>4, <2>5
<1>4. CASE ~Failure(o) /\ o = "ok"
  <2>1. Recorded(l, o).failAtMin = 0
    BY <1>4 DEF Recorded, Cleared
  <2> QED BY <1>2, <1>4, <2>1 DEF AfterOutcome, Counts, Smaller, Banned
<1>5. CASE ~Failure(o) /\ o # "ok"
  BY <1>5 DEF AfterOutcome, Recorded, Banned
<1> QED BY <1>3, <1>4, <1>5

Earned == phase = "running" /\ phase' = "banned" =>
             \E d \in Domain : failures'[d] = BanFailures /\ limiter'[d].rate = MinRate

LEMMA AdaptiveCounts ==
    ASSUME TypeOK, FailuresCounted, NEW t \in Tasks, NEW r \in Responses, AnsweredAdaptive(t, r)
    PROVE  FailuresCounted' /\ Earned
<1> DEFINE d == Batch[t].domain
           o == ClassifyOutcome(r)
<1>1. d \in Domain /\ o \in Outcome BY BatchTyped, OutcomeIsOne, BatchAssumption
<1>2. limiter' = [limiter EXCEPT ![d] = Recorded(limiter[d], o)] BY DEF AnsweredAdaptive
<1>3. failures' = [failures EXCEPT ![d] = AfterOutcome(failures[d], o)]
  BY DEF AnsweredAdaptive, CountFailure, AfterOutcome
<1>4. IF Banned(limiter[d], o) THEN Raise(t, "banned") ELSE Conclude(t, r)
  BY DEF AnsweredAdaptive
<1> HIDE DEF d, o
<1>5. /\ limiter[d] \in Limiter /\ failures[d] \in 0..BanFailures
      /\ Counts(limiter[d], failures[d])
  BY <1>1 DEF TypeOK, FailuresCounted
<1>6. /\ Counts(Recorded(limiter[d], o), AfterOutcome(failures[d], o))
      /\ Banned(limiter[d], o) => /\ AfterOutcome(failures[d], o) = BanFailures
                                  /\ Recorded(limiter[d], o).rate = MinRate
  BY <1>1, <1>5, CountKept
<1>7. /\ limiter'[d] = Recorded(limiter[d], o) /\ failures'[d] = AfterOutcome(failures[d], o)
      /\ \A e \in Domain : e # d => limiter'[e] = limiter[e] /\ failures'[e] = failures[e]
  BY <1>1, <1>2, <1>3 DEF TypeOK
<1>8. FailuresCounted' BY <1>6, <1>7 DEF FailuresCounted
<1>9. Earned
  <2>1. CASE Banned(limiter[d], o) BY <1>1, <1>6, <1>7, <2>1 DEF Earned
  <2>2. CASE ~Banned(limiter[d], o)
    BY <1>4, <2>2 DEF Earned, Conclude, Finish, Raise
  <2> QED BY <2>1, <2>2
<1> QED BY <1>8, <1>9

LEMMA CountsStay ==
    ASSUME FailuresCounted, UNCHANGED <<limiter, failures>>
    PROVE  FailuresCounted'
BY DEF FailuresCounted

LEMMA FailuresCountedKept ==
    ASSUME TypeOK, FailuresCounted, [Next]_vars
    PROVE  FailuresCounted' /\ Earned
<1>1. ASSUME NEW t \in Tasks, Run(t) PROVE FailuresCounted' /\ Earned
  <2>1. CASE Answered(t)
    <3>1. PICK r \in Responses :
              IF config.limiter = "adaptive" THEN AnsweredAdaptive(t, r)
              ELSE \E jitter \in 0..Jitter : AnsweredBounded(t, r, jitter)
      BY <2>1 DEF Answered
    <3>2. CASE AnsweredAdaptive(t, r) BY <3>2, AdaptiveCounts
    <3>3. CASE \E jitter \in 0..Jitter : AnsweredBounded(t, r, jitter)
      BY <3>3, CountsStay DEF AnsweredBounded, Conclude, Raise, Earned
    <3> QED BY <3>1, <3>2, <3>3
  <2>2. CASE RobotsUnreadable(t)
    BY <2>2, CountsStay DEF RobotsUnreadable, Raise, pace, Earned
  <2>3. CASE Enter(t)
    <3>1. UNCHANGED phase BY <2>3 DEF Enter
    <3>2. UNCHANGED <<limiter, failures>>
      <4>1. CASE SendFirst(t) BY <4>1 DEF SendFirst
      <4>2. CASE FetchRobots(t) BY <4>2 DEF FetchRobots, pace
      <4>3. CASE /\ robots[Batch[t].domain] # Unfetched
                 /\ PassGate(t, robots[Batch[t].domain])
        BY <4>3, PassGateTyped, BatchTyped DEF TypeOK
      <4> QED BY <2>3, <4>1, <4>2, <4>3 DEF Enter
    <3> QED BY <3>1, <3>2, CountsStay DEF Earned
  <2>4. CASE RobotsFetched(t)
    BY <2>4, PassGateTyped, CountsStay DEF RobotsFetched, Earned
  <2>5. CASE Throttled(t)
    BY <2>5, CountsStay DEF Throttled, SendFirst, Earned
  <2>6. CASE Paced(t) \/ Retry(t)
    BY <2>6, CountsStay DEF Paced, Retry, pace, Earned
  <2> QED BY <1>1, <2>1, <2>2, <2>3, <2>4, <2>5, <2>6 DEF Run
<1>2. CASE Replay \/ Return \/ NextBatch \/ Stop \/ Tick \/ UNCHANGED vars
  BY <1>2, CountsStay DEF Replay, Return, NextBatch, Stop, Tick, vars, pace, Earned
<1> QED BY <1>1, <1>2 DEF Next

\* For any interleaving of the coroutines' outcomes: a ban is raised only of a
\* domain at its lowest rate, after ban_failures failures in a row
\* (AdaptiveRateLimiter._decrease).
THEOREM BansAreEarned == Spec => BanIsEarned
<1>1. Init => Inv /\ FailuresCounted
  <2>1. Init => FailuresCounted
    <3>1. Smaller(0, BanFailures) <= 0 BY Constants DEF Smaller
    <3> QED BY <3>1 DEF Init, FailuresCounted, Counts, FreshLimiter
  <2> QED BY <2>1, InitTyped
<1>2. Inv /\ FailuresCounted /\ [Next]_vars => Inv' /\ FailuresCounted'
  BY NextTyped, FailuresCountedKept DEF Kept, Inv
<1>3. Inv /\ FailuresCounted /\ [Next]_vars =>
        [phase = "running" /\ phase' = "banned" =>
            \E d \in Domain : failures'[d] = BanFailures /\ limiter'[d].rate = MinRate]_vars
  BY FailuresCountedKept DEF Inv, Earned
<1> QED BY <1>1, <1>2, <1>3, PTL DEF Spec, BanIsEarned

-----------------------------------------------------------------------------
(* Deadlines *)

\* A back-off is only begun when it ends before the deadline.
WithinBudget ==
    config.totalTimeout > 0 =>
        \A t \in Tasks : step[t].at = "backoff" => step[t].left < step[t].budget

InTime == config.totalTimeout > 0 =>
             \A t \in Tasks : step[t].at = "backoff" /\ step'[t].at = "send" =>
                 step[t].budget > 0

LEMMA BackoffInBudget ==
    ASSUME TypeOK, config.totalTimeout > 0, NEW t \in Tasks, Run(t),
           step[t].at = "send", step'[t].at = "backoff"
    PROVE  step'[t].left < step'[t].budget
<1>1. Answered(t)
  BY DEF Run, Enter, MayEnter, RobotsFetched, RobotsUnreadable, Throttled, Paced, Retry
<1>2. PICK r \in Responses :
          IF config.limiter = "adaptive" THEN AnsweredAdaptive(t, r)
          ELSE \E jitter \in 0..Jitter : AnsweredBounded(t, r, jitter)
  BY <1>1 DEF Answered
<1>3. step' # [step EXCEPT ![t] = Done]
  BY DoneEffect
<1>4. PICK jitter \in 0..Jitter : AnsweredBounded(t, r, jitter)
  BY <1>2, <1>3 DEF AnsweredAdaptive, Conclude, Finish, Raise
<1> DEFINE delay == BackoffDelay(step[t].attempt, jitter)
           s == Suspended([step[t] EXCEPT !.attempt = @ + 1], "backoff", delay)
<1>5. Retries(t, r, delay) /\ step' = [step EXCEPT ![t] = s]
  BY <1>3, <1>4 DEF AnsweredBounded, Conclude, Finish, Raise
<1>6. delay < step[t].budget
  <2>1. config.totalTimeout # 0 BY ConfigTyped DEF TypeOK
  <2> QED BY <1>5, <2>1 DEF Retries, InBudget
<1>7. step[t] \in Step BY DEF TypeOK
<1>8. [step[t] EXCEPT !.attempt = @ + 1] \in Step
      /\ [step[t] EXCEPT !.attempt = @ + 1].budget = step[t].budget
  BY <1>7 DEF Step
<1>9. delay \in Int /\ "backoff" \in Place BY <1>7, BackoffTyped DEF Step, Place
<1>10. s.left = delay /\ s.budget = step[t].budget BY <1>8 DEF Suspended
<1> HIDE DEF s
<1>11. step'[t] = s BY <1>5 DEF TypeOK
<1> QED BY <1>6, <1>10, <1>11

LEMMA WithinBudgetKept ==
    ASSUME TypeOK, WithinBudget, [Next]_vars
    PROVE  WithinBudget' /\ InTime
<1>1. ASSUME NEW t \in Tasks, Run(t) PROVE WithinBudget' /\ InTime
  <2>1. UNCHANGED config /\ OnlyStep(t) BY <1>1, RunEffect
  <2>2. \A u \in Tasks : u # t => step'[u] = step[u] BY <2>1, OthersStay
  <2>3. config.totalTimeout > 0 /\ step'[t].at = "backoff" => step'[t].left < step'[t].budget
    BY <1>1, RunEffect, BackoffInBudget DEF Leaves, Queues, Resumes, Pauses
  <2>4. step[t].at = "backoff" /\ step'[t].at = "send" => step[t].left = 0
    BY <1>1, RunEffect DEF Resumes, Pauses
  <2>5. WithinBudget' BY <2>1, <2>2, <2>3 DEF WithinBudget
  <2>6. InTime
    <3>1. SUFFICES ASSUME config.totalTimeout > 0, NEW u \in Tasks,
                          step[u].at = "backoff", step'[u].at = "send"
                   PROVE  step[u].budget > 0
      BY DEF InTime
    <3>2. u = t BY <2>2, <3>1
    <3> QED BY <2>4, <3>1, <3>2 DEF WithinBudget
  <2> QED BY <2>5, <2>6
<1>2. ASSUME \A t \in Tasks : step'[t] \in {Waiting, Done}, UNCHANGED config
      PROVE  WithinBudget' /\ InTime
  <2>1. \A t \in Tasks : step'[t].at \in {"waiting", "done"}
    BY <1>2 DEF Waiting, Done, Fresh
  <2> QED BY <1>2, <2>1 DEF WithinBudget, InTime
<1>3. CASE Replay BY <1>2, <1>3 DEF Replay
<1>4. CASE NextBatch BY <1>2, <1>4 DEF NextBatch
<1>5. CASE Stop BY <1>2, <1>5 DEF Stop
<1>6. CASE Tick
  <2>1. \A t \in Tasks : /\ step'[t].at = step[t].at
                         /\ step'[t].left = Sooner(step[t].left)
                         /\ step'[t].budget = Sooner(step[t].budget)
    BY <1>6, LaterTyped DEF Tick, TypeOK
  <2>2. InTime BY <2>1 DEF InTime
  <2>3. SUFFICES ASSUME config.totalTimeout > 0, NEW t \in Tasks, step[t].at = "backoff"
                 PROVE  step'[t].left < step'[t].budget
    BY <1>6, <2>1, <2>2 DEF Tick, WithinBudget
  <2>4. step[t].left > 0 /\ step[t].left < step[t].budget
    BY <1>6, <2>3 DEF Tick, Sleeping, WithinBudget
  <2>5. step[t].left \in Int /\ step[t].budget \in Nat BY DEF TypeOK, Step
  <2> QED BY <2>1, <2>4, <2>5 DEF Sooner, Larger
<1>7. CASE Return \/ UNCHANGED vars
  <2>1. UNCHANGED <<config, step>> BY <1>7 DEF Return, vars
  <2> QED BY <2>1 DEF WithinBudget, InTime
<1> QED BY <1>1, <1>3, <1>4, <1>5, <1>6, <1>7 DEF Next

\* However long the answers take: no retry starts once total_timeout is over
\* (perform_with_retries).
THEOREM RetriesInTime == Spec => DeadlineHonoured
<1>1. Init => Inv /\ WithinBudget
  <2>1. Init => WithinBudget BY DEF Init, WithinBudget, Waiting, Fresh
  <2> QED BY <2>1, InitTyped
<1>2. Inv /\ WithinBudget /\ [Next]_vars => Inv' /\ WithinBudget'
  BY NextTyped, WithinBudgetKept DEF Kept, Inv
<1>3. Inv /\ WithinBudget /\ [Next]_vars =>
        [config.totalTimeout > 0 =>
            \A t \in Tasks : step[t].at = "backoff" /\ step'[t].at = "send" =>
                step[t].budget > 0]_vars
  BY WithinBudgetKept DEF Inv, InTime
<1> QED BY <1>1, <1>2, <1>3, PTL DEF Spec, DeadlineHonoured

-----------------------------------------------------------------------------
(* Slots *)

Limited == config.limiter # "none"

LEMMA Gaps ==
    ASSUME TypeOK
    PROVE  /\ MinGap \in Nat /\ MinGap <= MaxGap
           /\ \A d \in Domain : Limited => SlotInterval(d) \in Nat /\ SlotInterval(d) >= MinGap
<1>1. MinRate \in MinRate..MaxRate /\ MaxRate \in MinRate..MaxRate
  BY RateAssumption
<1>2. /\ Interval(MaxRate) \in Nat /\ Interval(MinRate) \in Nat
      /\ Interval(MaxRate) <= Interval(MinRate)
  BY <1>1, IntervalIsNat, IntervalShrinks
<1>3. MaxGap >= FixedInterval /\ MaxGap >= Interval(MinRate) /\ MaxGap \in Nat
      /\ FixedInterval \in Nat
  BY <1>2, Constants DEF MaxGap, Larger, Interval
<1>4. \A d \in Domain : Interval(limiter[d].rate) >= Interval(MaxRate)
  BY IntervalShrinks DEF TypeOK, Limiter
<1>5. MinGap \in Nat /\ MinGap <= MaxGap
  BY <1>2, <1>3 DEF MinGap
<1>6. \A d \in Domain : SlotInterval(d) \in Nat /\ SlotInterval(d) >= MinGap
  BY <1>3, <1>4, SlotIntervalTyped DEF SlotInterval, MinGap, TypeOK
<1> QED BY <1>5, <1>6

Paces(t) == step[t].at = "pace"

Home(t) == Batch[t].domain

\* A reservation is a gap after the last slot and after the last start ...
SlotAhead(d) == sinceSlot[d] + nextSlot[d] >= MinGap

\* ... a task that waits has one that is a gap before the next free slot ...
OwnSlot(t) ==
    /\ step[t].left >= 0
    /\ step[t].left + MinGap <= nextSlot[Home(t)]
    /\ sinceSlot[Home(t)] + step[t].left >= MinGap

\* ... and a gap from every other's.
Apart(t, u) == step[t].left + MinGap <= step[u].left \/ step[u].left + MinGap <= step[t].left

Spaced ==
    Limited =>
        /\ \A d \in Domain : SlotAhead(d)
        /\ \A t \in Tasks : Paces(t) => OwnSlot(t)
        /\ \A t \in Tasks, u \in Tasks :
              t # u /\ Paces(t) /\ Paces(u) /\ Home(t) = Home(u) => Apart(t, u)

LEMMA SlotTypes ==
    ASSUME TypeOK
    PROVE  /\ \A d \in Domain : sinceSlot[d] \in Nat /\ nextSlot[d] \in Nat /\ sinceSlot[d] <= MaxGap
           /\ \A t \in Tasks : Home(t) \in Domain /\ step[t].left \in Int
<1>1. \A t \in Tasks : Home(t) \in Domain BY BatchTyped DEF Home
<1> QED BY <1>1, Constants DEF TypeOK, Step

LEMMA ReservedSlot ==
    ASSUME TypeOK, Limited, NEW d \in Domain, Reserve(d)
    PROVE  /\ nextSlot'[d] >= nextSlot[d] + MinGap
           /\ \A e \in Domain : e # d => nextSlot'[e] = nextSlot[e]
           /\ nextSlot'[d] \in Nat
<1>1. SlotInterval(d) \in Nat /\ SlotInterval(d) >= MinGap BY Gaps
<1> QED BY <1>1, Gaps DEF Reserve, TypeOK

LEMMA UsedSlot ==
    ASSUME TypeOK, NEW t \in Tasks, UseSlot(t)
    PROVE  /\ sinceSlot'[Home(t)] = 0
           /\ \A e \in Domain : e # Home(t) => sinceSlot'[e] = sinceSlot[e]
BY SlotTypes DEF UseSlot, Home, TypeOK

\* A first request that leaves at once.
LEMMA LeavesSpaced ==
    ASSUME TypeOK, Limited, Spaced, UNCHANGED config, NEW t \in Tasks, OnlyStep(t), Leaves(t)
    PROVE  Spaced' /\ sinceSlot[Home(t)] >= MinGap
<1> DEFINE d == Home(t)
<1>1. d \in Domain /\ nextSlot[d] = 0 /\ Reserve(d) /\ UseSlot(t)
  BY SlotTypes DEF Leaves, Limited, Home
<1>2. /\ nextSlot'[d] \in Nat /\ nextSlot'[d] >= MinGap /\ sinceSlot'[d] = 0
      /\ \A e \in Domain : e # d => nextSlot'[e] = nextSlot[e] /\ sinceSlot'[e] = sinceSlot[e]
  <2>1. /\ sinceSlot'[d] = 0
        /\ \A e \in Domain : e # d => sinceSlot'[e] = sinceSlot[e]
    BY <1>1, UsedSlot
  <2>2. /\ nextSlot'[d] \in Nat /\ nextSlot'[d] >= nextSlot[d] + MinGap
        /\ \A e \in Domain : e # d => nextSlot'[e] = nextSlot[e]
    BY <1>1, ReservedSlot
  <2>3. MinGap \in Nat BY Gaps
  <2> QED BY <1>1, <2>1, <2>2, <2>3
<1>3. UNCHANGED MinGap BY DEF MinGap
<1>4. ~Paces(t)' /\ \A u \in Tasks : u # t => step'[u] = step[u]
  BY OthersStay DEF Leaves, Paces
<1>5. sinceSlot[d] >= MinGap
  BY <1>1, SlotTypes, Gaps DEF Spaced, SlotAhead
<1> HIDE DEF d
<1>6. \A e \in Domain : SlotAhead(e)'
  BY <1>1, <1>2, <1>3, Gaps DEF Spaced, SlotAhead
<1>7. ASSUME NEW u \in Tasks, Paces(u)' PROVE OwnSlot(u)'
  <2>1. u # t /\ step'[u] = step[u] /\ Paces(u) BY <1>4, <1>7 DEF Paces
  <2>2. OwnSlot(u) BY <2>1 DEF Spaced
  <2>3. CASE Home(u) # d
    BY <1>2, <1>3, <2>1, <2>2, <2>3, SlotTypes DEF OwnSlot
  <2>4. CASE Home(u) = d
    <3>1. MinGap = 0 /\ step[u].left = 0
      BY <1>1, <2>2, <2>4, SlotTypes, Gaps DEF OwnSlot
    <3> QED BY <1>2, <1>3, <2>1, <2>4, <3>1 DEF OwnSlot
  <2> QED BY <2>3, <2>4
<1>8. ASSUME NEW u \in Tasks, NEW v \in Tasks, u # v, Paces(u)', Paces(v)', Home(u) = Home(v)
      PROVE  Apart(u, v)'
  <2>1. step'[u] = step[u] /\ step'[v] = step[v] /\ Paces(u) /\ Paces(v)
    BY <1>4, <1>8 DEF Paces
  <2> QED BY <1>3, <1>8, <2>1 DEF Spaced, Apart
<1>9. Spaced' BY <1>6, <1>7, <1>8 DEF Spaced, Home
<1> QED BY <1>5, <1>9 DEF d

\* A first request that waits for its slot.
LEMMA QueuesSpaced ==
    ASSUME TypeOK, Limited, Spaced, UNCHANGED config, NEW t \in Tasks, OnlyStep(t), Queues(t),
           ~Paces(t)
    PROVE  Spaced'
<1> DEFINE d == Home(t)
           n == nextSlot[d]
<1>1. d \in Domain /\ n \in Nat /\ Reserve(d) /\ step'[t].left = n /\ UNCHANGED sinceSlot
  BY SlotTypes DEF Queues, Home, history
<1>2. /\ nextSlot'[d] \in Nat /\ nextSlot'[d] >= n + MinGap
      /\ \A e \in Domain : e # d => nextSlot'[e] = nextSlot[e]
  BY <1>1, ReservedSlot
<1>3. UNCHANGED MinGap BY DEF MinGap
<1>4. \A u \in Tasks : u # t => step'[u] = step[u]
  BY OthersStay
<1>5. sinceSlot[d] + n >= MinGap BY <1>1 DEF Spaced, SlotAhead
<1> HIDE DEF d, n
<1>6. \A e \in Domain : nextSlot'[e] \in Nat /\ nextSlot'[e] >= nextSlot[e]
  <2>1. n = nextSlot[d] BY DEF n
  <2> QED BY <1>1, <1>2, <2>1, SlotTypes, Gaps
<1>7. \A e \in Domain : SlotAhead(e)'
  BY <1>1, <1>3, <1>6, SlotTypes, Gaps DEF Spaced, SlotAhead
<1>8. ASSUME NEW u \in Tasks, Paces(u)' PROVE OwnSlot(u)'
  <2>1. CASE u = t
    <3>1. Home(t) = d BY DEF d
    <3> QED BY <1>1, <1>2, <1>3, <1>5, <2>1, <3>1, SlotTypes, Gaps DEF OwnSlot
  <2>2. CASE u # t
    <3>1. step'[u] = step[u] /\ OwnSlot(u) BY <1>4, <1>8, <2>2 DEF Paces, Spaced
    <3> QED BY <1>1, <1>3, <1>6, <3>1, SlotTypes, Gaps DEF OwnSlot
  <2> QED BY <2>1, <2>2
<1>9. ASSUME NEW u \in Tasks, u # t, Paces(u)', Home(u) = d
      PROVE  step'[u].left + MinGap <= step'[t].left
  <2>1. step'[u] = step[u] /\ OwnSlot(u) BY <1>4, <1>9 DEF Paces, Spaced
  <2>2. n = nextSlot[Home(u)] BY <1>9 DEF n
  <2> QED BY <1>1, <2>1, <2>2 DEF OwnSlot
<1>10. ASSUME NEW u \in Tasks, NEW v \in Tasks, u # v, Paces(u)', Paces(v)', Home(u) = Home(v)
       PROVE  Apart(u, v)'
  <2>1. CASE u = t BY <1>3, <1>9, <1>10, <2>1 DEF Apart, d
  <2>2. CASE v = t BY <1>3, <1>9, <1>10, <2>2 DEF Apart, d
  <2>3. CASE u # t /\ v # t
    <3>1. step'[u] = step[u] /\ step'[v] = step[v] /\ Paces(u) /\ Paces(v)
      BY <1>4, <1>10, <2>3 DEF Paces
    <3> QED BY <1>3, <1>10, <3>1 DEF Spaced, Apart
  <2> QED BY <2>1, <2>2, <2>3
<1> QED BY <1>7, <1>8, <1>10 DEF Spaced, Home

\* A first request whose slot has come.
LEMMA PacedSpaced ==
    ASSUME TypeOK, Limited, Spaced, UNCHANGED config, NEW t \in Tasks, OnlyStep(t), Paces(t),
           step[t].left = 0, step'[t].at = "send", UseSlot(t), UNCHANGED nextSlot
    PROVE  Spaced' /\ sinceSlot[Home(t)] >= MinGap
<1> DEFINE d == Home(t)
<1>1. d \in Domain /\ OwnSlot(t) BY SlotTypes DEF Spaced
<1>2. /\ sinceSlot'[d] = 0 /\ nextSlot' = nextSlot
      /\ \A e \in Domain : e # d => sinceSlot'[e] = sinceSlot[e]
  BY UsedSlot
<1>3. UNCHANGED MinGap BY DEF MinGap
<1>4. ~Paces(t)' /\ \A u \in Tasks : u # t => step'[u] = step[u]
  BY OthersStay DEF Paces
<1>5. sinceSlot[d] >= MinGap /\ nextSlot[d] >= MinGap
  BY <1>1, SlotTypes, Gaps DEF OwnSlot
<1>6. \A e \in Domain : SlotAhead(e)'
  <2>1. ASSUME NEW e \in Domain PROVE SlotAhead(e)'
    <3>1. CASE e = d BY <1>2, <1>3, <1>5, <3>1, SlotTypes, Gaps DEF SlotAhead
    <3>2. CASE e # d BY <1>2, <1>3, <2>1, <3>2 DEF Spaced, SlotAhead
    <3> QED BY <3>1, <3>2
  <2> QED BY <2>1
<1>7. ASSUME NEW u \in Tasks, Paces(u)' PROVE OwnSlot(u)'
  <2>1. u # t /\ step'[u] = step[u] /\ Paces(u) BY <1>4, <1>7 DEF Paces
  <2>2. OwnSlot(u) BY <2>1 DEF Spaced
  <2>3. CASE Home(u) # d
    BY <1>2, <1>3, <2>1, <2>2, <2>3, SlotTypes DEF OwnSlot
  <2>4. CASE Home(u) = d
    <3>1. Apart(t, u) BY <2>1, <2>4 DEF Spaced
    <3>2. step[u].left >= MinGap
      BY <2>1, <2>2, <3>1, SlotTypes, Gaps DEF Apart, OwnSlot
    <3> QED BY <1>2, <1>3, <2>1, <2>2, <2>4, <3>2, SlotTypes, Gaps DEF OwnSlot
  <2> QED BY <2>3, <2>4
<1>8. ASSUME NEW u \in Tasks, NEW v \in Tasks, u # v, Paces(u)', Paces(v)', Home(u) = Home(v)
      PROVE  Apart(u, v)'
  <2>1. step'[u] = step[u] /\ step'[v] = step[v] /\ Paces(u) /\ Paces(v)
    BY <1>4, <1>8 DEF Paces
  <2> QED BY <1>3, <1>8, <2>1 DEF Spaced, Apart
<1>9. Spaced' BY <1>6, <1>7, <1>8 DEF Spaced, Home
<1> QED BY <1>5, <1>9

\* A step that takes no slot and leaves none waiting anew.
LEMMA ElseSpaced ==
    ASSUME TypeOK, Spaced, UNCHANGED <<config, nextSlot, sinceSlot>>,
           \A u \in Tasks : Paces(u)' => step'[u] = step[u]
    PROVE  Spaced'
<1>1. UNCHANGED MinGap /\ (Limited' => Limited) BY DEF MinGap, Limited
<1>2. \A u \in Tasks : Paces(u)' => Paces(u) BY DEF Paces
<1> QED BY <1>1, <1>2 DEF Spaced, SlotAhead, OwnSlot, Apart, Home

\* A tick brings every waiting task's slot nearer, with the next free one.
LEMMA TickSpaced ==
    ASSUME TypeOK, Spaced, Tick
    PROVE  Spaced'
<1>1. SUFFICES ASSUME Limited PROVE Spaced'
  BY DEF Tick, Spaced, Limited
<1>2. UNCHANGED MinGap BY DEF Tick, MinGap
<1>3. \A d \in Domain : /\ sinceSlot'[d] = Smaller(sinceSlot[d] + 1, MaxGap)
                        /\ nextSlot'[d] = Sooner(nextSlot[d])
  BY DEF Tick
<1>4. \A t \in Tasks : step'[t].at = step[t].at /\ step'[t].left = Sooner(step[t].left)
  BY LaterTyped DEF Tick, TypeOK
<1>5. \A t \in Tasks : Paces(t)' => Paces(t) /\ OwnSlot(t) /\ step[t].left > 0
  BY <1>1, <1>4 DEF Paces, Spaced, Tick, Sleeping
<1>6. ASSUME NEW d \in Domain PROVE SlotAhead(d)'
  <2>1. SlotAhead(d) BY <1>1 DEF Spaced
  <2> QED BY <1>2, <1>3, <2>1, SlotTypes, Gaps, Constants DEF SlotAhead, Smaller, Sooner, Larger
<1>7. ASSUME NEW t \in Tasks, Paces(t)' PROVE OwnSlot(t)'
  <2> DEFINE d == Home(t)
             n == step[t].left
  <2>1. OwnSlot(t) /\ n > 0 /\ n \in Int /\ d \in Domain BY <1>5, <1>7, SlotTypes
  <2>2. step'[t].left = n - 1 BY <1>4, <2>1 DEF Sooner, Larger
  <2>3. /\ n + MinGap <= nextSlot[d] /\ sinceSlot[d] + n >= MinGap
        /\ nextSlot[d] \in Nat /\ sinceSlot[d] \in Nat
    BY <2>1, SlotTypes DEF OwnSlot
  <2>4. nextSlot'[d] = nextSlot[d] - 1
    BY <1>3, <2>1, <2>3, Gaps DEF Sooner, Larger
  <2>5. sinceSlot'[d] = Smaller(sinceSlot[d] + 1, MaxGap) BY <1>3, <2>1
  <2>6. sinceSlot'[d] + (n - 1) >= MinGap
    BY <2>1, <2>3, <2>5, Gaps, Constants DEF Smaller
  <2> QED BY <1>2, <2>1, <2>2, <2>3, <2>4, <2>6, Gaps DEF OwnSlot, Home
<1>8. ASSUME NEW t \in Tasks, NEW u \in Tasks, t # u, Paces(t)', Paces(u)', Home(t) = Home(u)
      PROVE  Apart(t, u)'
  <2>1. Apart(t, u) /\ step[t].left > 0 /\ step[u].left > 0
    BY <1>1, <1>5, <1>8 DEF Spaced
  <2>2. step'[t].left = step[t].left - 1 /\ step'[u].left = step[u].left - 1
    BY <1>4, <2>1, SlotTypes DEF Sooner, Larger
  <2> QED BY <1>2, <2>1, <2>2, SlotTypes, Gaps DEF Apart
<1> QED BY <1>6, <1>7, <1>8 DEF Spaced, Home

InSlot == Limited => \A t \in Tasks : Begins(t) =>
              /\ sinceSlot[Batch[t].domain] >= MinGap
              /\ \A u \in Tasks \ {t} : Begins(u) => Batch[u].domain # Batch[t].domain

LEMMA RunSpaced ==
    ASSUME TypeOK, Spaced, NEW t \in Tasks, Run(t)
    PROVE  Spaced' /\ InSlot
<1>1. UNCHANGED config /\ OnlyStep(t) BY RunEffect
<1>2. \A u \in Tasks : u # t => step'[u] = step[u] BY <1>1, OthersStay
<1>3. \A u \in Tasks : u # t => ~Begins(u) BY <1>2 DEF Begins
<1>4. CASE ~Limited
  BY <1>1, <1>4 DEF Spaced, InSlot, Limited
<1>5. CASE Limited
  <2>1. CASE Leaves(t)
    <3>1. Spaced' /\ sinceSlot[Home(t)] >= MinGap BY <1>1, <1>5, <2>1, LeavesSpaced
    <3> QED BY <1>3, <3>1 DEF InSlot, Home
  <2>2. CASE Queues(t) /\ step[t].at \in {"waiting", "robots", "crawl"}
    <3>1. ~Paces(t) BY <2>2 DEF Paces
    <3>2. Spaced' BY <1>1, <1>5, <2>2, <3>1, QueuesSpaced
    <3>3. ~Begins(t) BY <2>2 DEF Queues, Begins
    <3> QED BY <1>3, <3>2, <3>3 DEF InSlot
  <2>3. CASE Resumes(t) /\ Paces(t)
    <3>1. /\ step[t].left = 0 /\ step'[t].at = "send" /\ UseSlot(t) /\ UNCHANGED nextSlot
      BY <2>3 DEF Resumes, Paces
    <3>2. Spaced' /\ sinceSlot[Home(t)] >= MinGap
      BY <1>1, <1>5, <2>3, <3>1, PacedSpaced
    <3> QED BY <1>3, <3>2 DEF InSlot, Home
  <2>4. CASE Resumes(t) /\ ~Paces(t)
    <3>1. step[t].at = "backoff" /\ step'[t].at = "send" /\ UNCHANGED <<nextSlot, sinceSlot>>
      BY <2>4 DEF Resumes, Paces
    <3>2. \A u \in Tasks : Paces(u)' => step'[u] = step[u] BY <1>2, <3>1 DEF Paces
    <3> QED BY <1>1, <1>3, <3>1, <3>2, ElseSpaced DEF InSlot, Begins
  <2>5. CASE Pauses(t)
    <3>1. step'[t].at \notin {"pace", "send"} /\ UNCHANGED <<nextSlot, sinceSlot>>
      BY <2>5 DEF Pauses, history
    <3>2. \A u \in Tasks : Paces(u)' => step'[u] = step[u] BY <1>2, <3>1 DEF Paces
    <3> QED BY <1>1, <1>3, <3>1, <3>2, ElseSpaced DEF InSlot, Begins
  <2> QED BY <2>1, <2>2, <2>3, <2>4, <2>5, RunEffect
<1> QED BY <1>4, <1>5

LEMMA SpacedKept ==
    ASSUME TypeOK, Spaced, [Next]_vars
    PROVE  Spaced' /\ InSlot
<1>1. CASE \E t \in Tasks : Run(t) BY <1>1, RunSpaced
<1>2. ASSUME \A t \in Tasks : step'[t] \in {Waiting, Done},
             UNCHANGED <<config, nextSlot, sinceSlot>>
      PROVE  Spaced' /\ InSlot
  <2>1. \A t \in Tasks : step'[t].at \in {"waiting", "done"}
    BY <1>2 DEF Waiting, Done, Fresh
  <2> QED BY <1>2, <2>1, ElseSpaced DEF InSlot, Begins, Paces
<1>3. CASE Replay BY <1>2, <1>3 DEF Replay, pace, history
<1>4. CASE NextBatch BY <1>2, <1>4 DEF NextBatch, pace
<1>5. CASE Stop BY <1>2, <1>5 DEF Stop, pace, history
<1>6. CASE Tick
  <2>1. \A t \in Tasks : ~Begins(t)
    BY <1>6, LaterTyped DEF Tick, TypeOK, Begins
  <2> QED BY <1>6, <2>1, TickSpaced DEF InSlot
<1>7. CASE Return \/ UNCHANGED vars
  <2>1. UNCHANGED <<config, step, nextSlot, sinceSlot>>
    BY <1>7 DEF Return, vars, pace, history
  <2> QED BY <2>1, ElseSpaced DEF InSlot, Begins
<1> QED BY <1>1, <1>3, <1>4, <1>5, <1>6, <1>7 DEF Next

\* For any number of coroutines of any domains, and while the rate changes under
\* the slots already reserved: two requests of the limiter never start on a
\* domain closer than the gap (RateLimiter.acquire, AdaptiveRateLimiter.acquire).
THEOREM SlotsAreDistinct == Spec => DistinctSlots
<1>1. Init => Inv /\ Spaced
  <2>1. Init => Inv BY InitTyped
  <2>2. ASSUME Init PROVE Spaced
    <3>1. \A t \in Tasks : ~Paces(t) BY <2>2 DEF Init, Paces, Waiting, Fresh
    <3>2. MinGap \in Nat /\ MinGap <= MaxGap BY <2>1, <2>2, Gaps DEF Inv
    <3>3. \A d \in Domain : SlotAhead(d) BY <2>2, <3>2, Constants DEF Init, SlotAhead
    <3> QED BY <3>1, <3>3 DEF Spaced
  <2> QED BY <2>1, <2>2
<1>2. Inv /\ Spaced /\ [Next]_vars => Inv' /\ Spaced'
  BY NextTyped, SpacedKept DEF Kept, Inv
<1>3. Inv /\ Spaced /\ [Next]_vars =>
        [config.limiter # "none" =>
            \A t \in Tasks : Begins(t) =>
                /\ sinceSlot[Batch[t].domain] >= MinGap
                /\ \A u \in Tasks \ {t} : Begins(u) => Batch[u].domain # Batch[t].domain]_vars
  BY SpacedKept DEF Inv, InSlot, Limited
<1> QED BY <1>1, <1>2, <1>3, PTL DEF Spec, DistinctSlots

-----------------------------------------------------------------------------
(* Replays *)

\* No request refuses the replays an engine allows.
NoneRefuses ==
    \A c \in Configs : c.retryNonIdempotent =>
        \A t \in Tasks : Batch[t].idempotent \/ Batch[t].retryNonIdempotent # FALSE

\* A request that may be sent once has not been, or waits for no more than its
\* answer.
OnceOnly ==
    \A t \in Tasks : ~MayRetry(t) =>
        /\ sent[t] <= 1
        /\ sent[t] = 1 => step[t].at \in {"send", "done"}
        /\ step[t].at # "backoff"

LEMMA OnlyRetriesBackOff ==
    ASSUME TypeOK, NEW t \in Tasks, Run(t), step[t].at = "send", step'[t].at = "backoff"
    PROVE  MayRetry(t)
<1>1. Answered(t)
  BY DEF Run, Enter, MayEnter, RobotsFetched, RobotsUnreadable, Throttled, Paced, Retry
<1>2. step' # [step EXCEPT ![t] = Done]
  BY DoneEffect
<1>3. PICK r \in Responses, jitter \in 0..Jitter : AnsweredBounded(t, r, jitter)
  BY <1>1, <1>2 DEF Answered, AnsweredAdaptive, Conclude, Finish, Raise
<1>4. Retries(t, r, BackoffDelay(step[t].attempt, jitter))
  BY <1>2, <1>3 DEF AnsweredBounded, Conclude, Finish, Raise
<1> QED BY <1>4 DEF Retries

LEMMA RunFromSend ==
    ASSUME NEW t \in Tasks, Run(t)
    PROVE  step[t].at # "done"
BY DEF Run, Enter, MayEnter, RobotsFetched, RobotsUnreadable, Throttled, Paced, Answered, Retry

LEMMA OnceOnlyKept ==
    ASSUME TypeOK, NoneRefuses, OnceOnly, [Next]_vars
    PROVE  OnceOnly'
<1>1. ASSUME NEW t \in Tasks, Run(t) PROVE OnceOnly'
  <2>1. UNCHANGED config /\ OnlyStep(t) BY <1>1, RunEffect
  <2>2. SUFFICES ASSUME NEW u \in Tasks, ~MayRetry(u)
                 PROVE  /\ sent'[u] <= 1
                        /\ sent'[u] = 1 => step'[u].at \in {"send", "done"}
                        /\ step'[u].at # "backoff"
    BY <2>1 DEF OnceOnly, MayRetry, Inherited
  <2>3. CASE u # t
    BY <1>1, <2>1, <2>2, <2>3, OthersStay, SentOnlyOwn DEF OnceOnly
  <2>4. CASE u = t
    <3>1. /\ sent[t] \in Nat /\ sent[t] <= 1
          /\ sent[t] = 1 => step[t].at = "send"
          /\ step[t].at # "backoff"
      BY <1>1, <2>2, <2>4, RunFromSend DEF OnceOnly, TypeOK
    <3>2. CASE Pauses(t)
      <4>1. sent'[t] = sent[t] BY <3>2 DEF Pauses, history
      <4>2. step'[t].at # "backoff"
        BY <1>1, <2>2, <2>4, <3>2, OnlyRetriesBackOff DEF Pauses
      <4>3. CASE sent[t] = 1
        <5>1. Answered(t)
          BY <1>1, <3>1, <4>3
             DEF Run, Enter, MayEnter, RobotsFetched, RobotsUnreadable, Throttled, Paced, Retry
        <5>2. step'[t].at \in {"backoff", "done"}
          BY <3>2, <5>1, AnsweredEnds
        <5> QED BY <2>4, <3>1, <4>1, <4>2, <5>2
      <4> QED BY <2>4, <3>1, <4>1, <4>2, <4>3
    <3>3. CASE (Leaves(t) \/ Resumes(t)) /\ step[t].at # "send"
      <4>1. sent'[t] = sent[t] + 1 /\ step'[t].at = "send"
        BY <3>3 DEF Leaves, Resumes, TypeOK
      <4> QED BY <2>4, <3>1, <3>3, <4>1
    <3>4. CASE Queues(t) /\ step[t].at # "send"
      <4>1. sent'[t] = sent[t] /\ step'[t].at = "pace" BY <3>4 DEF Queues, history
      <4> QED BY <2>4, <3>1, <3>4, <4>1
    <3> QED BY <1>1, <3>2, <3>3, <3>4, RunEffect DEF Resumes
  <2> QED BY <2>3, <2>4
<1>2. CASE Replay
  <2>1. UNCHANGED <<config, sent>> BY <1>2 DEF Replay, history
  <2>2. \A t \in Tasks : ~MayRetry(t) => step'[t] = Done
    <3>1. SUFFICES ASSUME NEW t \in Tasks, t \in Deferred PROVE MayRetry(t)
      BY <1>2 DEF Replay
    <3>2. MayDefer(t) BY <3>1 DEF Deferred, ShouldDefer
    <3>3. config \in Configs BY DEF TypeOK
    <3>4. Batch[t].retryNonIdempotent \in BOOLEAN \cup {Unset} BY BatchTyped
    <3>5. CASE Batch[t].idempotent BY <3>5 DEF MayRetry
    <3>6. CASE config.retryNonIdempotent /\ ~Batch[t].idempotent
      <4>1. Batch[t].retryNonIdempotent # FALSE BY <3>3, <3>6 DEF NoneRefuses
      <4> QED BY <3>4, <3>6, <4>1 DEF MayRetry, Inherited
    <3> QED BY <3>2, <3>5, <3>6 DEF MayDefer
  <2>3. Done.at = "done" BY DEF Done, Waiting, Fresh
  <2> QED BY <2>1, <2>2, <2>3 DEF OnceOnly, MayRetry, Inherited
<1>3. CASE NextBatch
  <2>1. \A t \in Tasks : sent'[t] = 0 /\ step'[t].at = "waiting"
    BY <1>3 DEF NextBatch, Waiting, Fresh
  <2> QED BY <2>1 DEF OnceOnly
<1>4. CASE Stop
  <2>1. \A t \in Tasks : step'[t].at = "done" BY <1>4 DEF Stop, Done, Waiting, Fresh
  <2>2. UNCHANGED <<config, sent>> BY <1>4 DEF Stop, history
  <2> QED BY <2>1, <2>2 DEF OnceOnly, MayRetry, Inherited
<1>5. CASE Tick
  <2>1. \A t \in Tasks : step'[t].at = step[t].at BY <1>5, LaterTyped DEF Tick, TypeOK
  <2> QED BY <1>5, <2>1 DEF Tick, OnceOnly, MayRetry, Inherited
<1>6. CASE Return \/ UNCHANGED vars
  BY <1>6 DEF Return, vars, history, OnceOnly, MayRetry, Inherited
<1> QED BY <1>1, <1>2, <1>3, <1>4, <1>5, <1>6 DEF Next

\* Where no request refuses what its engine allows, neither the retries nor the
\* passes of the adaptive mode ever send twice a request that may be sent once
\* (_should_defer, perform_with_retries).  With such a refusal they do.
THEOREM NoReplayWithoutRefusal ==
    ASSUME NoneRefuses PROVE Spec => []NoUnwantedReplay
<1>1. Init => Inv /\ OnceOnly
  <2>1. Init => OnceOnly BY DEF Init, OnceOnly, Waiting, Fresh
  <2> QED BY <2>1, InitTyped
<1>2. Inv /\ OnceOnly /\ [Next]_vars => Inv' /\ OnceOnly'
  BY NextTyped, OnceOnlyKept DEF Kept, Inv
<1>3. Inv /\ OnceOnly => NoUnwantedReplay
  BY DEF Inv, TypeOK, OnceOnly, NoUnwantedReplay
<1> QED BY <1>1, <1>2, <1>3, PTL DEF Spec

-----------------------------------------------------------------------------
(* What a batch returns *)

\* A coroutine that has sent n requests: those of the attempts it has begun.
Attempts(s, n) ==
    /\ s.at \in {"waiting", "robots", "crawl", "pace"} => n = 0
    /\ s.at = "send" => s.attempt <= config.retries /\ n = s.attempt + 1
    /\ s.at = "backoff" => s.attempt <= config.retries /\ n = s.attempt

\* With result r a task that has sent n requests has none left that it may send.
UsedUp(t, r, n) ==
    /\ IsTransient(r) /\ r # Disallowed
    /\ MayRetry(t) /\ config.totalTimeout = 0
    => n = config.retries + 1

\* While a batch runs: what is done has a result, what this pass leaves alone is
\* done and was not put off, and the retries were used up.  What it returns is all
\* done, and what is put off then has had every pass.
Worked ==
    phase \in {"running", "returned"} =>
        /\ \A t \in Tasks : step[t].at = "done" => result[t] # Unset
        /\ \A t \in Tasks \ pending : step[t].at = "done"
        /\ config.limiter = "adaptive" => \A t \in Tasks \ pending : ~ShouldDefer(t)
        /\ config.limiter # "adaptive" =>
              /\ pending = Tasks
              /\ \A t \in Tasks : Attempts(step[t], sent[t])
              /\ \A t \in Tasks : step[t].at = "done" => UsedUp(t, result[t], sent[t])
        /\ phase = "returned" =>
              /\ \A t \in Tasks : step[t].at = "done"
              /\ config.limiter = "adaptive" =>
                    \A t \in Tasks : ShouldDefer(t) => pass = MaxAttempts

\* A coroutine that ends puts down a result.
Puts(t, r) == result' = [result EXCEPT ![t] = r]

\* What a step of a coroutine does to its result: nothing while it has not ended ...
GoesOn(t) == step'[t].at # "done" /\ UNCHANGED result

\* ... and then it puts one down.
Ends(t) == \E r \in AnyResponse :
               /\ step'[t].at = "done" /\ Puts(t, r)
               /\ config.limiter # "adaptive" => UsedUp(t, r, sent'[t])

\* The requests it has sent are still those of its attempts.
Counted(t) == config.limiter # "adaptive" => Attempts(step'[t], sent'[t])

LEMMA SendFirstWorks ==
    ASSUME TypeOK, NEW t \in Tasks, SendFirst(t),
           config.limiter # "adaptive" => sent[t] = 0
    PROVE  GoesOn(t) /\ Counted(t)
<1> DEFINE d == Batch[t].domain
<1>1. PICK p \in Proxy \cup {NoProxy} :
          IF config.limiter = "none" \/ nextSlot[d] = 0
          THEN Launch(t, Ready(p)) /\ UseSlot(t)
          ELSE /\ step' = [step EXCEPT ![t] = Suspended(Fresh(p, 0), "pace", nextSlot[d])]
               /\ UNCHANGED history
  BY DEF SendFirst
<1>2. UNCHANGED result BY DEF SendFirst
<1>3. CASE Launch(t, Ready(p))
  <2> DEFINE s == Suspended(Ready(p), "send", 0)
  <2>1. s.at = "send" /\ s.attempt = 0 BY DEF Suspended, Ready, Fresh
  <2>2. step' = [step EXCEPT ![t] = s] /\ sent' = [sent EXCEPT ![t] = @ + 1]
    BY <1>3 DEF Launch
  <2> HIDE DEF s
  <2>3. step'[t] = s /\ sent'[t] = sent[t] + 1 BY <2>2 DEF TypeOK
  <2>4. config.retries \in Nat BY ConfigTyped DEF TypeOK
  <2> QED BY <1>2, <2>1, <2>3, <2>4 DEF GoesOn, Counted, Attempts
<1>4. CASE /\ step' = [step EXCEPT ![t] = Suspended(Fresh(p, 0), "pace", nextSlot[d])]
           /\ UNCHANGED history
  <2> DEFINE s == Suspended(Fresh(p, 0), "pace", nextSlot[d])
  <2>1. s.at = "pace" BY DEF Suspended
  <2>2. step' = [step EXCEPT ![t] = s] /\ UNCHANGED sent BY <1>4 DEF history
  <2> HIDE DEF s
  <2>3. step'[t] = s BY <2>2 DEF TypeOK
  <2> QED BY <1>2, <2>1, <2>2, <2>3 DEF GoesOn, Counted, Attempts
<1> QED BY <1>1, <1>3, <1>4

\* A result that the gate puts down is not one of a request.
LEMMA DisallowedWorks ==
    ASSUME TypeOK, NEW t \in Tasks, Finish(t, Disallowed)
    PROVE  Ends(t) /\ Counted(t)
<1>1. step'[t].at = "done" BY DoneEffect DEF Finish
<1>2. Disallowed \in AnyResponse BY DEF Disallowed, Answer, NoStatus, AnyResponse
<1>3. UsedUp(t, Disallowed, sent'[t]) BY DEF UsedUp
<1> QED BY <1>1, <1>2, <1>3 DEF Ends, Puts, Counted, Attempts, Finish

LEMMA PassGateWorks ==
    ASSUME TypeOK, NEW t \in Tasks, NEW file, PassGate(t, file),
           config.limiter # "adaptive" => sent[t] = 0
    PROVE  (GoesOn(t) \/ Ends(t)) /\ Counted(t)
<1> DEFINE s == Suspended([Waiting EXCEPT !.delay = file.delay],
                          "crawl", nextAllowed[Batch[t].domain])
<1>1. CASE Finish(t, Disallowed) BY <1>1, DisallowedWorks
<1>2. CASE SendFirst(t) BY <1>2, SendFirstWorks
<1>3. CASE step' = [step EXCEPT ![t] = s] /\ UNCHANGED <<result, history>>
  <2>1. s.at = "crawl" BY DEF Suspended
  <2> HIDE DEF s
  <2>2. step'[t] = s BY <1>3 DEF TypeOK
  <2> QED BY <1>3, <2>1, <2>2 DEF GoesOn, Counted, Attempts, history
<1> QED BY <1>1, <1>2, <1>3 DEF PassGate

\* An answer that is not transient, or that no retry is left for, ends the coroutine.
LEMMA AnsweredWorks ==
    ASSUME TypeOK, NEW t \in Tasks, Answered(t), phase' = "running",
           config.limiter # "adaptive" => Attempts(step[t], sent[t])
    PROVE  (GoesOn(t) \/ Ends(t)) /\ Counted(t)
<1>1. step[t].at = "send" /\ UNCHANGED sent /\ step[t] \in Step
  BY DEF Answered, history, TypeOK
<1>2. PICK r \in Responses :
          IF config.limiter = "adaptive" THEN AnsweredAdaptive(t, r)
          ELSE \E jitter \in 0..Jitter : AnsweredBounded(t, r, jitter)
  BY DEF Answered
<1>3. r \in AnyResponse BY BatchAssumption
<1>4. ASSUME Conclude(t, r) PROVE Finish(t, r)
  BY <1>4 DEF Conclude, Raise
<1>5. CASE config.limiter = "adaptive"
  <2>1. Finish(t, r)
    BY <1>2, <1>4, <1>5 DEF AnsweredAdaptive, Raise
  <2>2. step'[t].at = "done" BY <2>1, DoneEffect DEF Finish
  <2> QED BY <1>3, <1>5, <2>1, <2>2 DEF Finish, Ends, Puts, Counted
<1>6. CASE config.limiter # "adaptive"
  <2>1. PICK jitter \in 0..Jitter : AnsweredBounded(t, r, jitter) BY <1>2, <1>6
  <2> DEFINE delay == BackoffDelay(step[t].attempt, jitter)
             s == Suspended([step[t] EXCEPT !.attempt = @ + 1], "backoff", delay)
  <2>2. /\ step[t].attempt \in Nat /\ config.retries \in Nat
        /\ step[t].attempt <= config.retries /\ sent[t] = step[t].attempt + 1
    BY <1>1, <1>6, ConfigTyped DEF Attempts, Step, TypeOK
  <2>3. CASE Retries(t, r, delay)
    <3>1. step' = [step EXCEPT ![t] = s] /\ UNCHANGED result
      BY <2>1, <2>3 DEF AnsweredBounded
    <3>2. s.at = "backoff" /\ s.attempt = step[t].attempt + 1
      <4>1. [step[t] EXCEPT !.attempt = @ + 1].attempt = step[t].attempt + 1
        BY <1>1 DEF Step
      <4> QED BY <4>1 DEF Suspended
    <3> HIDE DEF s
    <3>3. step'[t] = s BY <3>1 DEF TypeOK
    <3>4. step[t].attempt < config.retries BY <2>3 DEF Retries
    <3> QED BY <1>1, <2>2, <3>1, <3>2, <3>3, <3>4 DEF GoesOn, Counted, Attempts
  <2>4. CASE ~Retries(t, r, delay)
    <3>1. Finish(t, r) BY <1>4, <2>1, <2>4 DEF AnsweredBounded
    <3>2. step'[t].at = "done" BY <3>1, DoneEffect DEF Finish
    <3>3. UsedUp(t, r, sent[t])
      <4>1. SUFFICES ASSUME IsTransient(r), MayRetry(t), config.totalTimeout = 0
                     PROVE  sent[t] = config.retries + 1
        BY DEF UsedUp
      <4>2. ~(step[t].attempt < config.retries)
        BY <2>4, <4>1 DEF Retries, InBudget
      <4> QED BY <2>2, <4>2
    <3> QED BY <1>1, <1>3, <3>1, <3>2, <3>3 DEF Finish, Ends, Puts, Counted, Attempts
  <2> QED BY <2>3, <2>4
<1> QED BY <1>5, <1>6

\* So does every step of a coroutine in a batch that goes on.
LEMMA RunWorks ==
    ASSUME TypeOK, NEW t \in Tasks, Run(t), phase' = "running",
           config.limiter # "adaptive" => Attempts(step[t], sent[t])
    PROVE  /\ phase = "running" /\ UNCHANGED <<config, pending, pass>>
           /\ step[t].at # "done"
           /\ (GoesOn(t) \/ Ends(t)) /\ Counted(t)
<1>1. UNCHANGED <<config, pending, pass>>
  BY DEF Run, Enter, RobotsFetched, RobotsUnreadable, Throttled, Paced, Answered, Retry
<1>2. phase = "running"
  <2>1. \/ UNCHANGED phase
        \/ phase' # "running"
        \/ phase' = IF phase = "running" THEN "raised" ELSE phase
        \/ phase' = IF phase = "running" THEN "banned" ELSE phase
    BY DEF Run, Enter, RobotsFetched, RobotsUnreadable, Throttled, Paced, Answered, Retry,
           AnsweredAdaptive, AnsweredBounded, Conclude, Raise
  <2> QED BY <2>1
<1>3. step[t].at \in {"waiting", "robots", "crawl", "pace"} =>
          (config.limiter # "adaptive" => sent[t] = 0)
  BY DEF Attempts
<1> SUFFICES (GoesOn(t) \/ Ends(t)) /\ Counted(t)
  BY <1>1, <1>2, RunFromSend
<1>4. CASE Enter(t)
  <2>1. config.limiter # "adaptive" => sent[t] = 0
    BY <1>3, <1>4 DEF Enter, MayEnter
  <2>2. CASE SendFirst(t) BY <2>1, <2>2, SendFirstWorks
  <2>3. CASE FetchRobots(t)
    <3>1. step' = [step EXCEPT ![t] = [step[t] EXCEPT !.at = "robots"]]
          /\ UNCHANGED <<result, sent>>
      BY <2>3 DEF FetchRobots, history
    <3>2. step'[t].at = "robots" BY <3>1 DEF TypeOK, Step
    <3> QED BY <2>1, <3>1, <3>2 DEF GoesOn, Counted, Attempts
  <2>4. CASE PassGate(t, robots[Batch[t].domain]) BY <2>1, <2>4, PassGateWorks
  <2> QED BY <1>4, <2>2, <2>3, <2>4 DEF Enter
<1>5. CASE RobotsFetched(t)
  BY <1>3, <1>5, PassGateWorks DEF RobotsFetched
<1>6. CASE RobotsUnreadable(t)
  BY <1>2, <1>6 DEF RobotsUnreadable, Raise
<1>7. CASE Throttled(t)
  BY <1>3, <1>7, SendFirstWorks DEF Throttled
<1>8. CASE Paced(t)
  <2> DEFINE s == Suspended(Ready(step[t].proxy), "send", 0)
  <2>1. s.at = "send" /\ s.attempt = 0 BY DEF Suspended, Ready, Fresh
  <2>2. step' = [step EXCEPT ![t] = s] /\ sent' = [sent EXCEPT ![t] = @ + 1]
        /\ UNCHANGED result
    BY <1>8 DEF Paced, Launch
  <2> HIDE DEF s
  <2>3. step'[t] = s /\ sent'[t] = sent[t] + 1 BY <2>2 DEF TypeOK
  <2>4. config.retries \in Nat BY ConfigTyped DEF TypeOK
  <2>5. config.limiter # "adaptive" => sent[t] = 0 BY <1>3, <1>8 DEF Paced
  <2> QED BY <2>1, <2>2, <2>3, <2>4, <2>5 DEF GoesOn, Counted, Attempts
<1>9. CASE Retry(t)
  <2> DEFINE s == Suspended(step[t], "send", 0)
  <2>1. s.at = "send" /\ s.attempt = step[t].attempt BY DEF Suspended
  <2>2. step' = [step EXCEPT ![t] = s] /\ sent' = [sent EXCEPT ![t] = @ + 1]
        /\ UNCHANGED result
    BY <1>9 DEF Retry, Launch
  <2> HIDE DEF s
  <2>3. step'[t] = s /\ sent'[t] = sent[t] + 1 BY <2>2 DEF TypeOK
  <2>4. step[t].at = "backoff" BY <1>9 DEF Retry
  <2> QED BY <2>1, <2>2, <2>3, <2>4 DEF GoesOn, Counted, Attempts
<1>10. CASE Answered(t) BY <1>10, AnsweredWorks
<1> QED BY <1>4, <1>5, <1>6, <1>7, <1>8, <1>9, <1>10 DEF Run

LEMMA UnsetIsNoAnswer == Unset \notin AnyResponse
BY BatchAssumption

LEMMA WorkedKept ==
    ASSUME TypeOK, Worked, [Next]_vars
    PROVE  Worked'
<1>1. ASSUME NEW t \in Tasks, Run(t) PROVE Worked'
  <2>1. phase' # "returned"
    <3>1. phase # "returned"
      BY <1>1 DEF Run, Enter, MayEnter, RobotsFetched, RobotsUnreadable, Throttled, Paced,
                  Answered, Retry, Alive
    <3>2. \/ UNCHANGED phase
          \/ phase' = IF phase = "running" THEN "raised" ELSE phase
          \/ phase' = IF phase = "running" THEN "banned" ELSE phase
      BY <1>1 DEF Run, Enter, RobotsFetched, RobotsUnreadable, Throttled, Paced, Answered,
                  Retry, AnsweredAdaptive, AnsweredBounded, Conclude, Raise
    <3> QED BY <3>1, <3>2
  <2>2. SUFFICES ASSUME phase' = "running" PROVE Worked'
    BY <2>1 DEF Worked
  <2>3. phase = "running"
    BY <1>1, <2>2 DEF Run, Enter, RobotsFetched, RobotsUnreadable, Throttled, Paced, Answered,
                      Retry, AnsweredAdaptive, AnsweredBounded, Conclude, Raise
  <2>4. /\ \A u \in Tasks : step[u].at = "done" => result[u] # Unset
        /\ \A u \in Tasks \ pending : step[u].at = "done"
        /\ config.limiter = "adaptive" => \A u \in Tasks \ pending : ~ShouldDefer(u)
        /\ config.limiter # "adaptive" =>
              /\ pending = Tasks
              /\ \A u \in Tasks : Attempts(step[u], sent[u])
              /\ \A u \in Tasks : step[u].at = "done" => UsedUp(u, result[u], sent[u])
    BY <2>3 DEF Worked
  <2>5. /\ UNCHANGED <<config, pending, pass>> /\ step[t].at # "done"
        /\ (GoesOn(t) \/ Ends(t)) /\ Counted(t)
    BY <1>1, <2>2, <2>4, RunWorks
  <2>6. t \in pending BY <2>4, <2>5
  <2>7. \A u \in Tasks : u # t => /\ step'[u] = step[u] /\ sent'[u] = sent[u]
                                  /\ result'[u] = result[u]
    <3>1. \A u \in Tasks : u # t => step'[u] = step[u] /\ sent'[u] = sent[u]
      BY <1>1, RunEffect, OthersStay, SentOnlyOwn
    <3>2. \A u \in Tasks : u # t => result'[u] = result[u]
      BY <2>5 DEF GoesOn, Ends, Puts, TypeOK
    <3> QED BY <3>1, <3>2
  <2>8. step'[t].at = "done" =>
            /\ result'[t] # Unset
            /\ config.limiter # "adaptive" => UsedUp(t, result'[t], sent'[t])
    BY <2>5, UnsetIsNoAnswer DEF GoesOn, Ends, Puts, TypeOK
  <2>9. config.limiter = "adaptive" => \A u \in Tasks \ pending : ~ShouldDefer(u)'
    BY <2>4, <2>5, <2>6, <2>7 DEF ShouldDefer, MayDefer
  <2>10. config.limiter # "adaptive" =>
            /\ \A u \in Tasks : Attempts(step'[u], sent'[u])
            /\ \A u \in Tasks : step'[u].at = "done" => UsedUp(u, result'[u], sent'[u])
    BY <2>4, <2>5, <2>7, <2>8 DEF Counted
  <2> QED
    BY <2>1, <2>4, <2>5, <2>6, <2>7, <2>8, <2>9, <2>10
    DEF Worked, Attempts, UsedUp, MayRetry, Inherited
<1>2. CASE Replay
  <2>1. /\ phase = "running" /\ config.limiter = "adaptive" /\ pending' = Deferred
        /\ UNCHANGED <<config, phase, result>>
        /\ \A t \in Tasks : step[t].at = "done" \/ t \notin pending
        /\ \A t \in Tasks : step'[t] = IF t \in Deferred THEN Waiting ELSE Done
    BY <1>2 DEF Replay, PassOver, AnotherPass
  <2>2. /\ Waiting.at = "waiting" /\ Done.at = "done" BY DEF Done, Waiting, Fresh
  <2>3. /\ \A t \in Tasks : step[t].at = "done" => result[t] # Unset
        /\ \A t \in Tasks \ pending : step[t].at = "done" /\ ~ShouldDefer(t)
    BY <2>1 DEF Worked
  <2>4. \A t \in Tasks : result[t] # Unset /\ (t \notin Deferred => ~ShouldDefer(t))
    BY <2>1, <2>3 DEF Deferred
  <2>5. \A t \in Tasks : ShouldDefer(t)' <=> ShouldDefer(t)
    BY <2>1 DEF ShouldDefer, MayDefer
  <2> QED BY <2>1, <2>2, <2>4, <2>5 DEF Worked
<1>3. CASE Return
  <2>1. /\ phase = "running" /\ phase' = "returned"
        /\ UNCHANGED <<config, pending, pass, step, result, sent>>
        /\ \A t \in Tasks : step[t].at = "done" \/ t \notin pending
        /\ ~AnotherPass
    BY <1>3 DEF Return, PassOver, history
  <2>2. \A t \in Tasks : step[t].at = "done" BY <2>1 DEF Worked
  <2>3. config.limiter = "adaptive" => \A t \in Tasks : ShouldDefer(t) => pass = MaxAttempts
    <3>1. SUFFICES ASSUME config.limiter = "adaptive", NEW t \in Tasks, ShouldDefer(t)
                   PROVE  pass = MaxAttempts
      OBVIOUS
    <3>2. t \in pending BY <2>1, <3>1 DEF Worked
    <3>3. ~(pass < MaxAttempts) BY <2>1, <3>1, <3>2 DEF AnotherPass, Deferred
    <3> QED BY <3>3, PaceAssumption DEF TypeOK
  <2> QED BY <2>1, <2>2, <2>3
          DEF Worked, ShouldDefer, MayDefer, Attempts, UsedUp, MayRetry, Inherited
<1>4. CASE NextBatch
  <2>1. /\ phase' = "running" /\ pending' = Tasks
        /\ \A t \in Tasks : step'[t].at = "waiting" /\ sent'[t] = 0
    BY <1>4 DEF NextBatch, Waiting, Fresh
  <2> QED BY <2>1 DEF Worked, Attempts
<1>5. CASE Stop
  BY <1>5 DEF Stop, Worked
<1>6. CASE Tick
  <2>1. UNCHANGED <<config, phase, pass, pending, result, sent>>
    BY <1>6 DEF Tick
  <2>2. \A t \in Tasks : step'[t].at = step[t].at /\ step'[t].attempt = step[t].attempt
    <3>1. \A t \in Tasks : step[t] \in Step /\ step'[t] = Later(step[t])
      BY <1>6 DEF Tick, TypeOK
    <3> QED BY <3>1, LaterTyped
  <2>3. phase # "returned"
    BY <1>6 DEF Tick, Alive
  <2> QED BY <2>1, <2>2, <2>3
          DEF Worked, ShouldDefer, MayDefer, Attempts, UsedUp, MayRetry, Inherited
<1>7. CASE UNCHANGED vars
  BY <1>7
  DEF vars, history, Worked, ShouldDefer, MayDefer, Attempts, UsedUp, MayRetry, Inherited
<1> QED BY <1>1, <1>2, <1>3, <1>4, <1>5, <1>6, <1>7 DEF Next

\* Under the adaptive limiter no request insists on replays that the engine does
\* not allow.
NoneInsists ==
    \A c \in Configs : c.limiter = "adaptive" /\ ~c.retryNonIdempotent =>
        \A t \in Tasks : Batch[t].idempotent \/ Batch[t].retryNonIdempotent # TRUE

LEMMA DeferredWhenAllowed ==
    ASSUME NoneInsists, TypeOK, config.limiter = "adaptive", NEW t \in Tasks, MayRetry(t)
    PROVE  MayDefer(t)
<1>1. config \in Configs BY DEF TypeOK
<1>2. Batch[t].retryNonIdempotent \in BOOLEAN \cup {Unset} BY BatchTyped
<1>3. CASE Batch[t].idempotent BY <1>3 DEF MayDefer
<1>4. CASE config.retryNonIdempotent BY <1>4 DEF MayDefer
<1>5. CASE ~Batch[t].idempotent /\ ~config.retryNonIdempotent
  <2>1. Batch[t].retryNonIdempotent # TRUE BY <1>1, <1>5 DEF NoneInsists
  <2> QED BY <1>2, <1>5, <2>1 DEF MayRetry, Inherited
<1> QED BY <1>3, <1>4, <1>5

\* run_batch loses no task and, unless a request insists on replays that the engine
\* does not allow (_should_defer goes by the engine's setting), gives up on none
\* before its retries or passes are used up, however the answers come and
\* whichever tasks wait for which (NoEarlyReturn).
THEOREM NothingReturnedEarly ==
    ASSUME NoneInsists PROVE Spec => []NoEarlyReturn
<1>1. Init => Inv /\ Worked
  <2>1. Init => Worked BY DEF Init, Worked, Waiting, Fresh, Attempts
  <2> QED BY <2>1, InitTyped
<1>2. Inv /\ Worked /\ [Next]_vars => Inv' /\ Worked'
  BY NextTyped, WorkedKept DEF Kept, Inv
<1>3. Inv /\ Worked => NoEarlyReturn
  <2> SUFFICES ASSUME Inv, Worked, phase = "returned", NEW t \in Tasks
               PROVE  /\ result[t] # Unset
                      /\ IsTransient(result[t]) /\ MayRetry(t) =>
                            IF config.limiter = "adaptive" THEN pass = MaxAttempts
                            ELSE config.totalTimeout = 0 /\ result[t] # Disallowed =>
                                     sent[t] = config.retries + 1
    BY DEF NoEarlyReturn
  <2>1. step[t].at = "done" /\ result[t] # Unset BY DEF Worked
  <2>2. ASSUME config.limiter = "adaptive", IsTransient(result[t]), MayRetry(t)
        PROVE  pass = MaxAttempts
    <3>1. ShouldDefer(t) BY <2>2, DeferredWhenAllowed DEF ShouldDefer, Inv
    <3> QED BY <2>2, <3>1 DEF Worked
  <2>3. config.limiter # "adaptive" => UsedUp(t, result[t], sent[t])
    BY <2>1 DEF Worked
  <2> QED BY <2>1, <2>2, <2>3 DEF UsedUp
<1> QED BY <1>1, <1>2, <1>3, PTL DEF Spec
=============================================================================
