------------------------------ MODULE Outcomes ------------------------------
(***************************************************************************)
(* What a request can end with, and how the retries, the adaptive limiter  *)
(* and the proxy pool each look at it (net/transport.py, net/retry.py,     *)
(* proxies/health.py, concurrency/processor.py).                           *)
(***************************************************************************)
EXTENDS Integers

NoStatus == 0   \* status None

\* A RawResponse, or the Result made without one.  "readable" is what
\* evaluating it says: FALSE when the decoder, the matcher or the predicate
\* raises an exception that is not a CurlError.
Answer(status) == [status |-> status, error |-> "none", readable |-> TRUE]
Unreadable     == [Answer(200) EXCEPT !.readable = FALSE]
Failed         == [Answer(NoStatus) EXCEPT !.error = "transport"]
Disallowed     == [Answer(NoStatus) EXCEPT !.error = "robots_disallowed"]

AnyResponse == [status : Nat, error : {"none", "transport", "robots_disallowed"},
                readable : BOOLEAN]

Outcome == {"ok", "transport_error", "rate_limited", "origin_error"}

\* A proxy's refusal (407) counts against the proxy, 403 and 5xx against nobody.
ClassifyOutcome(r) ==
    IF r.error # "none" \/ r.status = 407 THEN "transport_error"
    ELSE IF r.status = 429 THEN "rate_limited"
    ELSE IF r.status = 403 \/ r.status \in 500..599 THEN "origin_error"
    ELSE "ok"

\* Worth another attempt: one test in perform_with_retries, and the same one on
\* the Result in _should_defer, where a disallowed URL passes it too.
IsTransient(r) == r.error # "none" \/ r.status = 429

Smaller(a, b) == IF a < b THEN a ELSE b
Larger(a, b)  == IF a > b THEN a ELSE b

\* A time left to wait, one tick later.
Sooner(n) == Larger(n - 1, 0)
=============================================================================
