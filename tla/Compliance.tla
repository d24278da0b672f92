----------------------------- MODULE Compliance -----------------------------
(***************************************************************************)
(* ComplianceFilter (compliance/filter.py) and what the engine makes of    *)
(* each request before it is batched (engine/core.py, _prepare).           *)
(***************************************************************************)
EXTENDS Sources

CONSTANT HostOf   \* of each URL: the labels of its host, in small letters

\* An entry of a list is a host and stands for its subdomains too.
HostMatches(host, entry) == IsSuffix(entry, host)

Listed(host, entries) == \E k \in DOMAIN entries : HostMatches(host, entries[k])

IsAllowed_Mutant(config, url) ==
    IF config.allowlist # <<>> THEN Listed(HostOf[url], config.allowlist)
    ELSE ~Listed(HostOf[url], config.denylist)

IsAllowed(config, url) ==
    /\ ~Listed(HostOf[url], config.denylist)
    /\ config.allowlist # <<>> => Listed(HostOf[url], config.allowlist)

HasHeader_Mutant(headers, name) == headers # <<>>

HasHeader(headers, name) == \E h \in DOMAIN headers : Lower(h) = Lower(name)

\* identity_header is [name, value] or Unset.
AppliedHeaders(config, headers) ==
    IF config.identity_header = Unset THEN headers
    ELSE IF HasHeader(headers, config.identity_header.name) THEN headers
    ELSE Updated(headers, config.identity_header.name, config.identity_header.value)

AnnotatedMeta_Mutant(config, meta) ==
    IF config.authorization = Unset THEN meta
    ELSE meta @@ ("authorization" :> config.authorization)

AnnotatedMeta(config, meta) ==
    IF config.authorization = Unset THEN meta
    ELSE Updated(meta, "authorization", config.authorization)

\* A needle given to run() is looked for in every response.
Prepared(config, needle, request) ==
    [request EXCEPT !.needles = IF needle = "" THEN @ ELSE Append(@, needle),
                    !.headers = AppliedHeaders(config, @),
                    !.meta    = AnnotatedMeta(config, @)]
=============================================================================
