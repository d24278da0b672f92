------------------------------ MODULE Requests ------------------------------
(***************************************************************************)
(* Requests and the configuration they inherit from: models.py, config.py  *)
(* and the loosely typed rows they are built from (sources/_build.py).     *)
(*                                                                         *)
(* A value of a row is a text, a list of texts or an object, each with the *)
(* text that str() makes of it; Numeral gives the texts that int() and     *)
(* float() accept (times are whole seconds) and LowerCase the texts that   *)
(* lower() changes.                                                        *)
(***************************************************************************)
EXTENDS Integers, SequencesExt

CONSTANTS
    Unset,       \* None
    Invalid,     \* an exception instead of a value
    Numeral,
    LowerCase

ASSUME NumeralAssumption == \A text \in DOMAIN Numeral : Numeral[text] \in Int

Text(text)            == [kind |-> "text", text |-> text, items |-> <<text>>, entries |-> <<>>]
List(text, items)     == [kind |-> "list", text |-> text, items |-> items, entries |-> <<>>]
Object(text, entries) == [kind |-> "object", text |-> text, items |-> <<>>, entries |-> entries]

Lower(text) == IF text \in DOMAIN LowerCase THEN LowerCase[text] ELSE text

Methods         == {"GET", "POST", "PUT", "DELETE", "PATCH", "HEAD", "OPTIONS"}
CutOnValues     == {"wire", "decoded"}
HttpVersions    == {"auto", "h1", "h2", "h3"}
AcceptEncodings == {"impersonate", "identity"}

StrFields   == {"cut_on", "impersonate", "http_version", "accept_encoding", "proxy"}
DictFields  == {"headers", "cookies"}
IntFields   == {"stream_cut", "max_redirects", "retries"}
FloatFields == {"timeout", "total_timeout"}
BoolFields  == {"fast_status", "verify_ssl", "follow_redirects", "retry_non_idempotent"}
Overrides   == StrFields \cup IntFields \cup FloatFields \cup BoolFields
Inherited   == Overrides \ {"proxy"}

TrueTexts  == {"1", "true", "yes", "y", "on"}
FalseTexts == {"0", "false", "no", "n", "off", ""}

\* A mapping after an entry is put, or those of another one.
Updated(mapping, key, value) ==
    [k \in DOMAIN mapping \cup {key} |-> IF k = key THEN value ELSE mapping[k]]

UpdatedBy(mapping, entries) ==
    [k \in DOMAIN mapping \cup DOMAIN entries |->
        IF k \in DOMAIN entries THEN entries[k] ELSE mapping[k]]

-----------------------------------------------------------------------------
(* build_request *)

\* int(value), float(value)
Number(value) ==
    IF value.kind = "text" /\ value.text \in DOMAIN Numeral THEN Numeral[value.text] ELSE Invalid

Numbers(value) ==
    IF value.kind # "object" /\ ToSet(value.items) \subseteq DOMAIN Numeral
    THEN {Numeral[text] : text \in ToSet(value.items)} ELSE Invalid

\* _to_bool
Boolean(value) ==
    LET text == Lower(value.text)
    IN IF text \in TrueTexts THEN TRUE ELSE IF text \in FalseTexts THEN FALSE ELSE Invalid

\* dict(value): of texts and lists only the empty ones will do (a list of texts of
\* two letters, each a pair to dict(), is left out).
Dictionary(value) ==
    IF value.items = <<>> \/ value = Text("") THEN value.entries ELSE Invalid

\* bytes(value), of a text its encoding: the elements of a list or an object would
\* have to be numbers.
Bytes(value) ==
    IF value.kind = "text" THEN value.text
    ELSE IF value.items = <<>> /\ DOMAIN value.entries = {} THEN "" ELSE Invalid

\* What "needles" iterates over: of an object its keys.
Elements(value) ==
    IF value.kind = "object" THEN SetToSeq(DOMAIN value.entries) ELSE value.items

Coerced(key, value) ==
    IF key \in IntFields \cup FloatFields THEN Number(value)
    ELSE IF key \in BoolFields THEN Boolean(value)
    ELSE value.text

NoRequest ==
    [url |-> "", method |-> "GET", headers |-> <<>>, cookies |-> <<>>, body |-> Unset,
     needles |-> <<>>, expected |-> Unset, meta |-> <<>>, overrides |-> [o \in Overrides |-> Unset]]

\* One turn of the loop over the fields of a row; what was built so far may
\* already be an exception.  Metadata is noted by its text.
WithField(r, field) ==
    LET key   == field.key
        value == field.value
        Put(v, built) == IF v = Invalid THEN Invalid ELSE built
    IN IF r = Invalid THEN Invalid ELSE
       CASE key = "url"               -> [r EXCEPT !.url = value.text]
         [] key = "method"            -> [r EXCEPT !.method = value.text]
         [] key \in Overrides         -> Put(Coerced(key, value),
                                             [r EXCEPT !.overrides[key] = Coerced(key, value)])
         [] key \in DictFields        -> Put(Dictionary(value), [r EXCEPT ![key] = Dictionary(value)])
         [] key = "body"              -> Put(Bytes(value), [r EXCEPT !.body = Bytes(value)])
         [] key = "needle"            -> [r EXCEPT !.needles = Append(@, value.text)]
         [] key = "needles"           -> [r EXCEPT !.needles = @ \o Elements(value)]
         [] key = "expected_status"   -> Put(Numbers(value), [r EXCEPT !.expected = Numbers(value)])
         [] key = "meta"              -> Put(Dictionary(value), [r EXCEPT !.meta = UpdatedBy(@, value.entries)])
         [] OTHER                     -> [r EXCEPT !.meta = Updated(@, key, value.text)]

AtLeast(n, v) == v # Unset => v >= n

\* Request.__post_init__; a method is written in capitals by build_request.
ValidRequest(r) ==
    LET o == r.overrides
    IN /\ r.url # ""
       /\ Lower(r.method) \in {Lower(m) : m \in Methods}
       /\ o["cut_on"] \in CutOnValues \cup {Unset}
       /\ o["http_version"] \in HttpVersions \cup {Unset}
       /\ o["accept_encoding"] \in AcceptEncodings \cup {Unset}
       /\ \A positive \in {"stream_cut", "timeout", "total_timeout"} : AtLeast(1, o[positive])
       /\ \A natural \in {"max_redirects", "retries"} : AtLeast(0, o[natural])

BuildRequest(fields, meta) ==
    LET r == FoldLeft(WithField, [NoRequest EXCEPT !.meta = meta], fields)
    IN IF r = Invalid THEN Invalid ELSE IF ValidRequest(r) THEN r ELSE Invalid

-----------------------------------------------------------------------------
(* EngineConfig *)

\* Its defaults; Unset workers are "auto".
DefaultConfig ==
    [workers |-> Unset, concurrency_per_worker |-> 450, chunk_size |-> 1000,
     max_tasks_per_child |-> 50000, in_flight_batches |-> 4,
     defaults |-> [o \in Inherited |->
         CASE o \in {"stream_cut", "total_timeout"} -> Unset
           [] o = "cut_on"          -> "wire"
           [] o = "accept_encoding" -> "impersonate"
           [] o = "http_version"    -> "auto"
           [] o = "impersonate"     -> "chrome"
           [] o = "max_redirects"   -> 10
           [] o = "timeout"         -> 30
           [] o = "retries"         -> 2
           [] o \in BoolFields      -> o = "verify_ssl"],
     per_domain_rate_limit |-> Unset,
     allowlist |-> <<>>, denylist |-> <<>>, identity_header |-> Unset, authorization |-> Unset]

\* EngineConfig.__post_init__
ValidConfig(c) ==
    LET d == c.defaults
    IN /\ AtLeast(1, c.workers)
       /\ {c.concurrency_per_worker, c.chunk_size, c.in_flight_batches} \subseteq Nat \ {0}
       /\ AtLeast(1, c.max_tasks_per_child)
       /\ d["cut_on"] \in CutOnValues
       /\ d["http_version"] \in HttpVersions
       /\ d["accept_encoding"] \in AcceptEncodings
       /\ \A positive \in {"stream_cut", "timeout", "total_timeout"} : AtLeast(1, d[positive])
       /\ \A natural \in {"max_redirects", "retries"} : d[natural] >= 0
       /\ AtLeast(1, c.per_domain_rate_limit)

\* effective(): a request's own setting, or else the engine's.
Effective(config, r) ==
    [r EXCEPT !.overrides =
        [o \in Overrides |-> IF o \in Inherited /\ @[o] = Unset THEN config.defaults[o] ELSE @[o]]]
=============================================================================
