-------------------------- MODULE MCTaskProcessor --------------------------
(***************************************************************************)
(* Batches, configurations and answers for TLC.                            *)
(***************************************************************************)
EXTENDS TaskProcessor

CONSTANTS a, b   \* hosts

Get(d)  == [domain |-> d, idempotent |-> TRUE, retryNonIdempotent |-> Unset, proxy |-> NoProxy]
Post(d) == [Get(d) EXCEPT !.idempotent = FALSE]

Plain    == [limiter |-> "none", robots |-> FALSE, pool |-> FALSE, retries |-> 0,
             totalTimeout |-> 0, retryNonIdempotent |-> FALSE]
Adaptive == [Plain EXCEPT !.limiter = "adaptive"]
Fixed    == [Plain EXCEPT !.limiter = "fixed"]

MCBatch == <<Get(a), Post(a), Get(a)>>

MCConfigs ==
    {[Adaptive EXCEPT !.robots = TRUE],
     [Adaptive EXCEPT !.retryNonIdempotent = TRUE],
     [Fixed EXCEPT !.retries = 1, !.totalTimeout = 3],
     [Fixed EXCEPT !.robots = TRUE],
     [Plain EXCEPT !.pool = TRUE, !.retries = 2]}

MCResponses == {Answer(200), Answer(429), Answer(503), Failed, Unreadable}

MCRobotsAnswers == {NoFile, [denied |-> {3}, delay |-> 1], [denied |-> {}, delay |-> 0]}

\* Requests that wait for one host's Crawl-delay together.
CrawlBatch   == <<Get(a), Get(a), Get(a)>>
CrawlConfigs == {[Plain EXCEPT !.robots = TRUE]}
CrawlAnswers == {[denied |-> {}, delay |-> 2]}

\* A POST that must not be replayed, in an engine that replays them.
OverrideBatch   == <<[Post(a) EXCEPT !.retryNonIdempotent = FALSE], Get(a)>>
OverrideConfigs == {[Adaptive EXCEPT !.retryNonIdempotent = TRUE]}

\* A host that gives its robots.txt once, and fails once.
RefetchAnswers == {NoFile, [denied |-> {3}, delay |-> 0]}
=============================================================================
