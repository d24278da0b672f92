------------------------------ MODULE DataPath ------------------------------
(***************************************************************************)
(* The data of one campaign in one process: rows become requests, requests *)
(* batches, bodies arrive chunk by chunk while the other transfers of the  *)
(* batch go on, results become statistics and output rows, and these a CSV *)
(* file (engine/core.py, engine/executor.py, concurrency/processor.py's    *)
(* process, net/curl.py, sinks/).                                          *)
(*                                                                         *)
(* A transfer here is the last attempt of a request: pacing, retries and   *)
(* proxies are TaskProcessor's, the checkpoint InProcessCampaign's.        *)
(***************************************************************************)
EXTENDS Compliance, Evaluation, Metrics

CONSTANTS
    Campaigns,        \* sequence of [source, config, needle, predicate, http3]
    Replies,          \* what a server may do with a request
    NoReply           \* reply of a request that was not sent

Source(n) == Campaigns[n].source
Config(n) == Campaigns[n].config

ASSUME CampaignAssumption ==
    \A n \in DOMAIN Campaigns :
        /\ ValidConfig(Config(n))
        /\ Config(n).defaults["stream_cut"] \in Int \cup {Unset}
        /\ WellFormed(Source(n))
        /\ Campaigns[n].predicate \in Predicates

\* The requests a campaign's rows yield.
RequestsOf(n) ==
    {RequestFrom(Source(n), Source(n).rows[k]) : k \in FirstRow(Source(n))..Len(Source(n).rows)}
        \ {Skipped, Invalid}

\* The host of a request, and an entry of the lists, has at least one label.
IsHost(host) == IsSequence(host) /\ host # <<>>

ASSUME HostAssumption ==
    \A n \in DOMAIN Campaigns :
        /\ \A entry \in ToSet(Config(n).denylist) \cup ToSet(Config(n).allowlist) : IsHost(entry)
        /\ \A r \in RequestsOf(n) : r.url \in DOMAIN HostOf /\ IsHost(HostOf[r.url])

\* The needles looked for are sequences of symbols.
ASSUME NeedleAssumption ==
    \A n \in DOMAIN Campaigns : \A r \in RequestsOf(n) :
        \A needle \in ToSet(Prepared(Config(n), Campaigns[n].needle, r).needles) :
            IsSequence(Spelling[needle])

ASSUME ReplyAssumption ==
    /\ Unset \notin {"CurlError", "http3_unavailable"}
    /\ NoReply \notin Replies
    /\ \A reply \in Replies :
          /\ reply.status # Unset /\ reply.elapsed \in Nat
          /\ IsSequence(reply.encoding) /\ IsSequence(reply.chunks)
          /\ \A chunk \in ToSet(reply.chunks) :
                IsSequence(chunk) /\ ToSet(chunk) \subseteq DOMAIN Yields

\* Bytes decode to bytes.
ASSUME ByteAssumption ==
    /\ Piece \in Nat \ {0}
    /\ \A byte \in DOMAIN Yields :
          IsSequence(Yields[byte]) /\ ToSet(Yields[byte]) \subseteq DOMAIN Yields

VARIABLES
    campaign,   \* the campaign run: an index of Campaigns
    phase,      \* reading, sending, returned, or raised: an exception left run()
    line,       \* the next row of the source
    built,      \* requests built, the next source_id
    skipped,    \* counter["skipped"]
    batch,      \* the tasks of the batch being gathered or run
    job,        \* of each task of the batch: its transfer and its result
    metrics,    \* the MetricsCollector
    matched,    \* counter["matched"]
    out,        \* rows of the NDJSON file
    summary,    \* the snapshot run() returns
    csv,        \* the exported file: its columns and rows
    asked,      \* history: requests handed to curl
    log         \* history: every task run, with the reply it had and its result

vars == <<campaign, phase, line, built, skipped, batch, job, metrics, matched, out, summary, csv,
          asked, log>>

Rows   == Source(campaign).rows
config == Config(campaign)

Init ==
    /\ campaign \in DOMAIN Campaigns
    /\ phase = "reading"
    /\ line = FirstRow(Source(campaign))
    /\ built = 0
    /\ skipped = 0
    /\ batch = <<>>
    /\ job = <<>>
    /\ metrics = NoMetrics
    /\ matched = 0
    /\ out = <<>>
    /\ summary = Unset
    /\ csv = Unset
    /\ asked = {}
    /\ log = <<>>

-----------------------------------------------------------------------------
(* distributed(): the source, _prepare and chunk_batches *)

Full_Mutant == Len(batch) > config.chunk_size
Full == Len(batch) = config.chunk_size

Numbered_Mutant(request) == [id |-> Len(batch), request |-> request]
Numbered(request) == [id |-> built, request |-> request]

Admit(request) ==
    IF IsAllowed(config, request.url)
    THEN /\ batch' = Append(batch, Numbered(Prepared(config, Campaigns[campaign].needle, request)))
         /\ UNCHANGED skipped
    ELSE skipped' = skipped + 1 /\ UNCHANGED batch

ReadRow ==
    LET request == RequestFrom(Source(campaign), Rows[line])
    IN /\ phase = "reading" /\ ~Full /\ line <= Len(Rows)
       /\ line' = line + 1
       /\ \/ request = Skipped /\ UNCHANGED <<phase, built, skipped, batch>>
          \/ request = Invalid /\ phase' = "raised" /\ UNCHANGED <<built, skipped, batch>>
          \/ /\ request \notin {Skipped, Invalid}
             /\ built' = built + 1
             /\ Admit(request)
             /\ UNCHANGED phase
       /\ UNCHANGED <<campaign, job, metrics, matched, out, summary, csv, asked, log>>

Waiting == [at |-> "waiting", reply |-> NoReply, got |-> 0, result |-> Unset]

YieldsBatch_Mutant == Full
YieldsBatch == Full \/ (line > Len(Rows) /\ batch # <<>>)

RunBatch ==
    /\ phase = "reading" /\ YieldsBatch
    /\ phase' = "sending"
    /\ job' = [k \in DOMAIN batch |-> Waiting]
    /\ UNCHANGED <<campaign, line, built, skipped, batch, metrics, matched, out, summary, csv,
                   asked, log>>

-----------------------------------------------------------------------------
(* process(): CurlTransport.perform and evaluate *)

Resolved(k) == Effective(config, batch[k].request)

Result(k, response, verdict, elapsed) ==
    [source_id |-> batch[k].id, url |-> Resolved(k).url, status |-> response.status,
     matched |-> verdict, error |-> response.error, meta |-> Resolved(k).meta,
     elapsed |-> elapsed]

\* The response is complete: it is evaluated, and the exception evaluating may
\* raise ends the campaign.
Complete(k, reply, got, response, elapsed) ==
    LET verdict == Evaluated(Resolved(k), Campaigns[campaign].predicate, response)
    IN IF verdict = Invalid THEN phase' = "raised" /\ UNCHANGED job
       ELSE /\ job' = [job EXCEPT ![k] = [at |-> "done", reply |-> reply, got |-> got,
                                          result |-> Result(k, response, verdict, elapsed)]]
            /\ UNCHANGED phase

Http3Missing(k) == Resolved(k).overrides["http_version"] = "h3" /\ ~Campaigns[campaign].http3

Answer(k, reply) ==
    LET settings == Resolved(k).overrides
        whole    == Len(reply.chunks)
    IN IF reply.refused THEN Complete(k, reply, 0, Failure("CurlError"), reply.elapsed)
       ELSE IF settings["fast_status"]
       THEN Complete(k, reply, 0, Response(reply, <<>>), reply.elapsed)
       ELSE IF settings["stream_cut"] # Unset
       THEN job' = [job EXCEPT ![k].at = "open", ![k].reply = reply] /\ UNCHANGED phase
       ELSE IF reply.breaks THEN Complete(k, reply, whole, Failure("CurlError"), reply.elapsed)
       ELSE Complete(k, reply, whole, Response(reply, reply.chunks), reply.elapsed)

Sent(k) == [url |-> Resolved(k).url, headers |-> Resolved(k).headers,
            codings |-> AdvertisedCodings(Resolved(k))]

Send(k) ==
    /\ phase = "sending"
    /\ job[k].at = "waiting"
    /\ IF Http3Missing(k)
       THEN Complete(k, NoReply, 0, Failure("http3_unavailable"), 0) /\ UNCHANGED asked
       ELSE \E reply \in Replies : Answer(k, reply) /\ asked' = asked \cup {Sent(k)}
    /\ UNCHANGED <<campaign, line, built, skipped, batch, metrics, matched, out, summary, csv, log>>

\* The next chunk of a stream that is cut when enough has come; after the last
\* chunk it ends, or breaks.
Receive(k) ==
    LET reply   == job[k].reply
        got     == job[k].got + 1
        begun   == SubSeq(reply.chunks, 1, got)
        enough  == Reached(Resolved(k), reply.encoding, begun)
    IN /\ phase = "sending"
       /\ job[k].at = "open"
       /\ IF got > Len(reply.chunks)
          THEN IF reply.breaks
               THEN Complete(k, reply, job[k].got, Failure("CurlError"), reply.elapsed)
               ELSE Complete(k, reply, job[k].got, Response(reply, reply.chunks), reply.elapsed)
          ELSE IF enough = Invalid THEN phase' = "raised" /\ UNCHANGED job
          ELSE IF enough THEN Complete(k, reply, got, Response(reply, begun), reply.elapsed)
          ELSE job' = [job EXCEPT ![k].got = got] /\ UNCHANGED phase
       /\ UNCHANGED <<campaign, line, built, skipped, batch, metrics, matched, out, summary, csv,
                      asked, log>>

-----------------------------------------------------------------------------
(* The executor's end of a batch, and of the campaign *)

Results == [k \in DOMAIN batch |-> job[k].result]

FinishBatch ==
    LET rows == Matching(Results)
    IN /\ phase = "sending"
       /\ \A k \in DOMAIN batch : job[k].at = "done"
       /\ out' = out \o rows
       /\ matched' = matched + Len(rows)
       /\ metrics' \in Merged(metrics, BatchStats(Results))
       /\ log' = log \o [k \in DOMAIN batch |-> [task |-> batch[k], job |-> job[k]]]
       /\ batch' = <<>>
       /\ job' = <<>>
       /\ phase' = "reading"
       /\ UNCHANGED <<campaign, line, built, skipped, summary, csv, asked>>

Return ==
    /\ phase = "reading" /\ line > Len(Rows) /\ batch = <<>>
    /\ phase' = "returned"
    /\ summary' = Snapshot(metrics)
    /\ UNCHANGED <<campaign, line, built, skipped, batch, job, metrics, matched, out, csv, asked, log>>

\* export_csv: the fields of a result, then the metadata keys as they turn up.
BaseFields == <<"source_id", "url", "status", "matched", "error", "elapsed">>

WithKeys(columns, row) == columns \o SetToSeq(DOMAIN row.meta \ ToSet(columns))

MetaColumns_Mutant(rows) ==
    IF rows = <<>> THEN <<>> ELSE SetToSeq(DOMAIN Head(rows).meta)

MetaColumns(rows) == FoldLeft(WithKeys, <<>>, rows)

Cell(row, column) ==
    IF column \in ToSet(BaseFields) THEN row[column]
    ELSE IF column \in DOMAIN row.meta THEN row.meta[column]
    ELSE Unset

Export ==
    LET columns == BaseFields \o MetaColumns(out)
    IN /\ phase \in {"returned", "raised"} /\ csv = Unset
       /\ csv' = [columns |-> columns,
                  rows    |-> [k \in DOMAIN out |->
                                  [c \in DOMAIN columns |-> Cell(out[k], columns[c])]]]
       /\ UNCHANGED <<campaign, phase, line, built, skipped, batch, job, metrics, matched, out,
                      summary, asked, log>>

Next ==
    \/ ReadRow
    \/ RunBatch
    \/ \E k \in DOMAIN job : Send(k)
    \/ \E k \in DOMAIN job : Receive(k)
    \/ FinishBatch
    \/ Return
    \/ Export

\* The coordinator goes on, and a transfer ends, at the latest by its timeout.
Fairness == WF_vars(Next)

Spec == Init /\ [][Next]_vars /\ Fairness

-----------------------------------------------------------------------------
(* Properties *)

TypeOK ==
    /\ campaign \in DOMAIN Campaigns
    /\ phase \in {"reading", "sending", "returned", "raised"}
    /\ line \in FirstRow(Source(campaign))..Len(Rows) + 1
    /\ built \in 0..Len(Rows) /\ skipped \in 0..built
    /\ Len(batch) <= config.chunk_size
    /\ \A k \in DOMAIN batch : batch[k].id < built /\ ValidRequest(batch[k].request)
    /\ phase = "sending" => DOMAIN job = DOMAIN batch
    /\ \A k \in DOMAIN job : job[k].at \in {"waiting", "open", "done"}
    /\ {matched, metrics.total, metrics.seen} \subseteq Nat
    /\ Len(metrics.latencies) <= ReservoirSize

ParentDomains(host) == {SubSeq(host, n, Len(host)) : n \in DOMAIN host}

\* No request made of a row leaves for a host that is denied, or that an allowlist
\* leaves out, itself or by one of its parent domains ("deny takes precedence").
\* Where a server redirects to, and the fetches of robots.txt, are not filtered by
\* the code; hosts and entries are in small letters here.
OnlyAllowedAsked ==
    \A a \in asked :
        LET domains == ParentDomains(HostOf[a.url])
        IN /\ domains \cap ToSet(config.denylist) = {}
           /\ config.allowlist # <<>> => domains \cap ToSet(config.allowlist) # {}

Spellings(headers, name) == {h \in DOMAIN headers : Lower(h) = Lower(name)}

\* Every request made of a row carries the identity header: in the spellings its
\* row brings along, or else in the engine's, once and with the engine's value.
\* (The fetch of a robots.txt, robots_support.py:22, is made of no row and carries
\* none.)
IdentitySent ==
    LET identity == config.identity_header
    IN identity # Unset =>
           \A a \in asked : \E r \in RequestsOf(campaign) :
               /\ a.url = r.url
               /\ IF Spellings(r.headers, identity.name) # {}
                  THEN a.headers = r.headers
                  ELSE /\ Spellings(a.headers, identity.name) = {identity.name}
                       /\ a.headers[identity.name] = identity.value

\* "authorization attached to every output record", not a value of the same name
\* that comes from a row.
AuthorizationNoted ==
    config.authorization # Unset =>
        \A k \in DOMAIN out : /\ "authorization" \in DOMAIN out[k].meta
                              /\ out[k].meta["authorization"] = config.authorization

\* Ids grow along the output, though transfers end in any order and rows and
\* requests are left out on the way.
IdsInOrder == \A i, j \in DOMAIN out : i < j => out[i].source_id < out[j].source_id

SettingsOf(e) == Effective(config, e.task.request).overrides

Spells(text, needle) ==
    \E n \in DOMAIN text : /\ n + Len(Spelling[needle]) - 1 <= Len(text)
                           /\ SubSeq(text, n, n + Len(Spelling[needle]) - 1) = Spelling[needle]

HasNeedle(e, text) ==
    \/ e.task.request.needles = <<>>
    \/ \E needle \in ToSet(e.task.request.needles) : Spelling[needle] # <<>> /\ Spells(text, needle)

AsExpected(e) ==
    \/ e.task.request.expected = Unset
    \/ e.job.reply.status \in e.task.request.expected

\* The programs that read a coding; a "deflate" body is of one of two formats.
DecodersFor(coding) ==
    CASE coding \in {"gzip", "x-gzip"} -> {"gzip"}
      [] coding = "deflate"            -> {"zlib", "raw"}
      [] OTHER                         -> {coding}

\* How many bytes can be read before every decoder for the coding has failed.
LegibleTo(bytes, coding) ==
    LET legible == {n \in 0..Len(bytes) :
                       \E d \in DecodersFor(coding) : \A k \in 1..n : bytes[k] \notin Failing[d]}
    IN CHOOSE n \in legible : \A other \in legible : other <= n

\* A coding undone as far as it can be, and whether all of it could.
Read(reading, coding) ==
    LET n == LegibleTo(reading.text, coding)
    IN IF coding \in NoCoding THEN reading
       ELSE [text      |-> Yielded(SubSeq(reading.text, 1, n)),
             undamaged |-> reading.undamaged /\ n = Len(reading.text)]

\* What anyone could read of the first chunks of a body.
Reading(reply, chunks) ==
    FoldLeft(Read, [text |-> BytesOf(chunks), undamaged |-> TRUE], Reverse(reply.encoding))

Begun(reply, n) == SubSeq(reply.chunks, 1, n)

\* A row is written only of a task whose complete response, read up to its first
\* damage, meets every condition set, however little of it was received.  JSON
\* data is at the beginning of it: the rest may have been cut off.
MatchedSound ==
    \A row \in ToSet(out) : \E e \in ToSet(log) :
        LET reply == e.job.reply
            text  == Reading(reply, reply.chunks).text
        IN /\ e.task.id = row.source_id
           /\ reply # NoReply
           /\ ~reply.refused
           /\ AsExpected(e)
           /\ HasNeedle(e, text)
           /\ Campaigns[campaign].predicate = "data" =>
                  reply.mime = "json" /\ \E n \in 0..Len(text) : SubSeq(text, 1, n) \in JsonTexts

\* The most chunks that are begun when each is only read below the threshold.
MostBegun(chunks, cut) ==
    LET begun == {n \in 0..Len(chunks) : n > 0 => WireLength(SubSeq(chunks, 1, n - 1)) < cut}
    IN CHOOSE n \in begun : \A other \in begun : other <= n

\* What is searched at least: nothing under Fast-Status, otherwise the body up to
\* the threshold, counted in the text or on the wire.
PromisedText(e) ==
    LET reply == e.job.reply
        cut   == SettingsOf(e)["stream_cut"]
        text  == Reading(reply, reply.chunks).text
    IN IF SettingsOf(e)["fast_status"] THEN <<>>
       ELSE IF cut = Unset THEN text
       ELSE IF SettingsOf(e)["cut_on"] = "decoded"
       THEN SubSeq(text, 1, IF cut < Len(text) THEN cut ELSE Len(text))
       ELSE Reading(reply, Begun(reply, MostBegun(reply.chunks, cut))).text

\* The needle of a response that is as expected is looked for in all that the
\* transfer promises to search.
Promised(e) == e.job.result.error = Unset /\ AsExpected(e) /\ HasNeedle(e, PromisedText(e))

Written(e) == \E row \in ToSet(out) : row.source_id = e.task.id

\* Cutting a transfer loses no match within the threshold, also of a needle that
\* lies across two chunks, when what was received is not damaged.
NothingMissed ==
    Campaigns[campaign].predicate = "none" =>
        \A e \in ToSet(log) :
            /\ Promised(e)
            /\ Reading(e.job.reply, Begun(e.job.reply, e.job.got)).undamaged
            => Written(e)

\* "return whatever can be decoded from the prefix and deliberately ignore
\* end-of-stream errors": a needle before the damage is found.
PrefixSearched ==
    Campaigns[campaign].predicate = "none" => \A e \in ToSet(log) : Promised(e) => Written(e)

\* "reads until a byte threshold and then aborts": no chunk is read once the ones
\* before it reach the threshold on the wire, or by an undamaged text.
NoOverread ==
    \A e \in ToSet(log) \cup {[task |-> batch[k], job |-> job[k]] : k \in DOMAIN job} :
        LET cut == SettingsOf(e)["stream_cut"]
        IN cut # Unset => \A m \in 1..e.job.got - 1 :
               LET begun == Begun(e.job.reply, m)
                   read  == Reading(e.job.reply, begun)
               IN IF SettingsOf(e)["cut_on"] = "wire" THEN WireLength(begun) < cut
                  ELSE read.undamaged => Len(read.text) < cut

Occurring(field, v) == Cardinality({n \in DOMAIN log : log[n].job.result[field] = v})

ExactlyTallies(counter, field) ==
    /\ DOMAIN counter = {e.job.result[field] : e \in ToSet(log)} \ {Unset}
    /\ \A v \in DOMAIN counter : counter[v] = Occurring(field, v)

\* "Counts are exact": the collector counts every task once, by the status or the
\* error it ended with, its matches are the rows written, and what was built is
\* skipped, counted or in the batch.
MetricsExact ==
    /\ metrics.total = Len(log)
    /\ built = skipped + Len(log) + Len(batch)
    /\ metrics.matched = Len(out) /\ matched = Len(out)
    /\ \A e \in ToSet(log) : (e.job.result.status = Unset) # (e.job.result.error = Unset)
    /\ ExactlyTallies(metrics.by_status, "status")
    /\ ExactlyTallies(metrics.errors, "error")

\* The sample is bounded, is full as soon as it can be, and holds only latencies
\* that were measured, none more often than it was.
ReservoirSampled ==
    /\ Len(metrics.latencies) = IF metrics.seen < ReservoirSize THEN metrics.seen ELSE ReservoirSize
    /\ ToBag(metrics.latencies) \sqsubseteq ToBag([n \in DOMAIN log |-> log[n].job.result.elapsed])

\* A percentile is the least observation that so many percent of the sample do
\* not exceed.
NearestRank(pct, v) ==
    LET sample  == metrics.latencies
        AtMost(bound) == Cardinality({n \in DOMAIN sample : sample[n] <= bound})
    IN /\ v \in ToSet(sample)
       /\ AtMost(v) * 100 >= pct * Len(sample)
       /\ \A less \in ToSet(sample) : less < v => AtMost(less) * 100 < pct * Len(sample)

\* The percentiles run() returns are nearest ranks of the sample, in order.
PercentilesRight ==
    summary # Unset /\ metrics.latencies # <<>> =>
        /\ NearestRank(50, summary.p50)
        /\ NearestRank(95, summary.p95)
        /\ NearestRank(99, summary.p99)
        /\ summary.p50 <= summary.p95 /\ summary.p95 <= summary.p99

\* The export has a line for every record, with each field, and each metadata
\* value that does not share its name with a field, under its column.
ExportKeepsAll ==
    csv # Unset =>
        /\ Len(csv.rows) = Len(out)
        /\ \A k \in DOMAIN out :
              /\ \A c \in DOMAIN BaseFields : csv.rows[k][c] = out[k][csv.columns[c]]
              /\ \A key \in DOMAIN out[k].meta \ ToSet(BaseFields) :
                    \E c \in DOMAIN csv.columns :
                        csv.columns[c] = key /\ csv.rows[k][c] = out[k].meta[key]

\* The campaign comes to an end, whatever its rows and the servers are like.
CampaignEnds == <>(phase \in {"returned", "raised"})
=============================================================================
