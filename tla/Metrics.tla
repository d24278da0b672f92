------------------------------ MODULE Metrics ------------------------------
(***************************************************************************)
(* Batch statistics, the collector with its bounded sample of latencies    *)
(* and the percentiles of a snapshot (metrics/batch.py, collector.py).     *)
(***************************************************************************)
EXTENDS Requests

CONSTANTS
    SampleCap,       \* latencies a batch reports
    ReservoirSize    \* latencies the collector keeps

ASSUME SampleAssumption == {SampleCap, ReservoirSize} \subseteq Nat \ {0}

NoMetrics == [total |-> 0, matched |-> 0, by_status |-> EmptyBag, errors |-> EmptyBag,
              latencies |-> <<>>, seen |-> 0]

\* The results that matched, in their order.
WithMatch(rows, result) == IF result.matched THEN Append(rows, result) ELSE rows

Matching(results) == FoldLeft(WithMatch, <<>>, results)

Tallied(counter, v) == IF v = Unset THEN counter ELSE counter (+) SetToBag({v})

Counted(field, results) ==
    FoldLeft(Tallied, EmptyBag, [k \in DOMAIN results |-> results[k][field]])

WithElapsed(sample, result) ==
    IF result.elapsed # Unset /\ Len(sample) < SampleCap THEN Append(sample, result.elapsed)
    ELSE sample

\* compute_batch_stats
BatchStats_Mutant(results) ==
    [total     |-> Len(results),
     matched   |-> Len(Matching(results)),
     by_status |-> SetToBag({results[k].status : k \in DOMAIN results} \ {Unset}),
     errors    |-> Counted("error", results),
     latencies |-> <<results[1].elapsed>>]

BatchStats(results) ==
    [total     |-> Len(results),
     matched   |-> Len(Matching(results)),
     by_status |-> Counted("status", results),
     errors    |-> Counted("error", results),
     latencies |-> FoldLeft(WithElapsed, <<>>, results)]

\* _sample_latency: the value is appended, or takes a random place, or none.
WithLatency_Mutant(m, value) ==
    IF Len(m.latencies) <= ReservoirSize
    THEN {[m EXCEPT !.seen = @ + 1, !.latencies = Append(@, value)]}
    ELSE {[m EXCEPT !.seen = @ + 1]}

WithLatency(m, value) ==
    IF Len(m.latencies) < ReservoirSize
    THEN {[m EXCEPT !.seen = @ + 1, !.latencies = Append(@, value)]}
    ELSE {[m EXCEPT !.seen = @ + 1]} \cup
         {[m EXCEPT !.seen = @ + 1, !.latencies[k] = value] : k \in 1..ReservoirSize}

SampledWith(ms, value) == UNION {WithLatency(m, value) : m \in ms}

\* merge: what the collector may be afterwards.
Merged(m, stats) ==
    FoldLeft(SampledWith,
             {[m EXCEPT !.total     = @ + stats.total,
                        !.matched   = @ + stats.matched,
                        !.by_status = @ (+) stats.by_status,
                        !.errors    = @ (+) stats.errors]},
             stats.latencies)

\* ceil(pct / 100 * n), the quotient rounded up
Rank_Mutant(pct, n) == (pct * n) \div 100
Rank(pct, n) == (pct * n + 99) \div 100

Clamp(n, low, high) == IF n < low THEN low ELSE IF n > high THEN high ELSE n

\* sorted(samples)
Sorts(p, samples) == \A i, j \in DOMAIN samples : i < j => samples[p[i]] <= samples[p[j]]

Sorted(samples) ==
    LET places == DOMAIN samples
        p      == CHOOSE p_ \in Bijection(places, places) : Sorts(p_, samples)
    IN [k \in places |-> samples[p[k]]]

\* _percentile
Percentile(samples, pct) ==
    IF samples = <<>> THEN 0
    ELSE Sorted(samples)[Clamp(Rank(pct, Len(samples)), 1, Len(samples))]

Snapshot(m) ==
    [total |-> m.total, matched |-> m.matched, by_status |-> m.by_status, errors |-> m.errors,
     p50 |-> Percentile(m.latencies, 50), p95 |-> Percentile(m.latencies, 95),
     p99 |-> Percentile(m.latencies, 99)]
=============================================================================
