-------------------------- MODULE DataPath_proofs --------------------------
(***************************************************************************)
(* Theorems about the data of a campaign: which requests may leave, what   *)
(* they carry, and in which order and with what their results are written. *)
(***************************************************************************)
EXTENDS DataPath, SequenceTheorems, TLAPS

-----------------------------------------------------------------------------
(* Sequences of anything *)

LEMMA SequenceIs ==
  ASSUME NEW s, IsSequence(s)
  PROVE  Len(s) \in Nat /\ DOMAIN s = 1..Len(s)
  BY DEF IsSequence

LEMMA EmptySequence == IsSequence(<<>>) /\ Len(<<>>) = 0 /\ DOMAIN <<>> = {}
  BY DEF IsSequence

LEMMA FunctionIsSequence ==
  ASSUME NEW n \in Nat, NEW s, s = [k \in 1..n |-> s[k]]
  PROVE  IsSequence(s) /\ Len(s) = n
<1>1. s \in [1..n -> ToSet(s)]
  BY DEF ToSet
<1> QED  BY <1>1 DEF IsSequence

LEMMA SequenceIsFunction ==
  ASSUME NEW s, IsSequence(s)
  PROVE  s = [k \in 1..Len(s) |-> s[k]]
<1>1. s \in [1..Len(s) -> ToSet(s)]
  BY LenProperties DEF IsSequence
<1> QED  BY <1>1

LEMMA SubSequence ==
  ASSUME NEW s, IsSequence(s), NEW m \in 1..Len(s) + 1, NEW n \in m - 1..Len(s)
  PROVE  /\ SubSeq(s, m, n) = [k \in 1..n - m + 1 |-> s[m + k - 1]]
         /\ Len(SubSeq(s, m, n)) = n - m + 1
  BY DEF IsSequence

LEMMA SequenceOfAny ==
  ASSUME NEW S, NEW s \in Seq(S)
  PROVE  IsSequence(s)
<1>1. PICK n \in Nat : s \in [1..n -> S]
  BY LenProperties
<1>2. s \in [1..n -> ToSet(s)]
  BY <1>1 DEF ToSet
<1> QED  BY <1>2 DEF IsSequence

LEMMA Appended ==
  ASSUME NEW s, IsSequence(s), NEW x
  PROVE  /\ IsSequence(Append(s, x))
         /\ Len(Append(s, x)) = Len(s) + 1
         /\ DOMAIN Append(s, x) = 1..Len(s) + 1
         /\ \A k \in 1..Len(s) : Append(s, x)[k] = s[k]
         /\ Append(s, x)[Len(s) + 1] = x
<1> DEFINE S == ToSet(s) \cup {x}
<1>1. s \in Seq(S) /\ x \in S
  BY DEF IsSequence
<1>2. /\ Append(s, x) \in Seq(S)
      /\ Len(Append(s, x)) = Len(s) + 1
      /\ \A k \in 1..Len(s) : Append(s, x)[k] = s[k]
      /\ Append(s, x)[Len(s) + 1] = x
  <2> HIDE DEF S
  <2> QED  BY <1>1, AppendProperties
<1>3. IsSequence(Append(s, x))
  BY <1>2, SequenceOfAny
<1> QED  BY <1>2, <1>3, SequenceIs

LEMMA Joined ==
  ASSUME NEW s, IsSequence(s), NEW t, IsSequence(t)
  PROVE  /\ IsSequence(s \o t)
         /\ Len(s \o t) = Len(s) + Len(t)
         /\ DOMAIN (s \o t) = 1..Len(s) + Len(t)
         /\ \A k \in 1..Len(s) : (s \o t)[k] = s[k]
         /\ \A k \in 1..Len(t) : (s \o t)[Len(s) + k] = t[k]
<1> DEFINE S == ToSet(s) \cup ToSet(t)
<1>1. s \in Seq(S) /\ t \in Seq(S)
  BY DEF IsSequence
<1>2. /\ s \o t \in Seq(S)
      /\ Len(s \o t) = Len(s) + Len(t)
      /\ \A k \in 1..Len(s) : (s \o t)[k] = s[k]
      /\ \A k \in 1..Len(t) : (s \o t)[Len(s) + k] = t[k]
  <2> HIDE DEF S
  <2> QED  BY <1>1
<1>3. IsSequence(s \o t)
  BY <1>2, SequenceOfAny
<1> QED  BY <1>2, <1>3, SequenceIs

-----------------------------------------------------------------------------
(* The requests rows yield *)

RequestFields ==
    {"url", "method", "headers", "cookies", "body", "needles", "expected", "meta", "overrides"}

IsRequest(r) ==
    /\ DOMAIN r = RequestFields
    /\ DOMAIN r.overrides = Overrides
    /\ r.overrides["stream_cut"] \in Int \cup {Unset}

\* A request has these fields, whatever the fields of the row it is built from.
Shaped(r) == r = Invalid \/ IsRequest(r)

Fields == INSTANCE FoldLeftFacts WITH Op <- WithField, Good <- Shaped

LEMMA FieldsFolded ==
  ASSUME NEW r, NEW fields
  PROVE  FoldLeft(WithField, r, fields) = Fields!Fold(r, fields)
  BY DEF Fields!Fold, Fields!FoldLeft, Fields!MapThenFoldSet, Fields!Max, FoldLeft, MapThenFoldSet,
         Max

LEMMA NumberIsInt ==
  ASSUME NEW value
  PROVE  Number(value) = Invalid \/ Number(value) \in Int
  BY NumeralAssumption DEF Number

LEMMA FieldKeepsShape ==
  ASSUME NEW r, Shaped(r), NEW field
  PROVE  Shaped(WithField(r, field))
<1> DEFINE new == WithField(r, field)
           key == field.key
<1> USE DEF Overrides, StrFields, IntFields, FloatFields, BoolFields, DictFields
<1>1. CASE r = Invalid
  BY <1>1 DEF WithField, Shaped
<1>2. CASE r # Invalid /\ key \in Overrides
  <2>1. new = Invalid \/ new = [r EXCEPT !.overrides = [r.overrides EXCEPT ![key] = Coerced(key, field.value)]]
    BY <1>2 DEF WithField
  <2>2. new = Invalid \/ Coerced(key, field.value) # Invalid
    BY <1>2 DEF WithField
  <2>3. key = "stream_cut" => Coerced(key, field.value) = Number(field.value)
    BY DEF Coerced
  <2>4. IsRequest(r)
    BY <1>2 DEF Shaped
  <2>5. key = "stream_cut" /\ new # Invalid => Coerced(key, field.value) \in Int
    BY <2>2, <2>3, NumberIsInt
  <2>6. new = Invalid \/ IsRequest(new)
    <3> DEFINE c == Coerced(key, field.value)
               o == [r.overrides EXCEPT ![key] = c]
    <3>1. DOMAIN o = DOMAIN r.overrides
      OBVIOUS
    <3>2. key \in DOMAIN r.overrides
      BY <1>2, <2>4 DEF IsRequest
    <3> HIDE DEF new, c, key
    <3>3. new # Invalid => o["stream_cut"] \in Int \cup {Unset}
      BY <2>4, <2>5, <3>2 DEF IsRequest, c
    <3>4. "overrides" \in DOMAIN r
      BY <2>4 DEF IsRequest, RequestFields
    <3>5. new = Invalid \/ (DOMAIN new = DOMAIN r /\ new.overrides = o)
      BY <2>1, <3>4 DEF c
    <3> QED  BY <2>4, <3>1, <3>3, <3>5 DEF IsRequest
  <2> QED  BY <2>6 DEF Shaped
<1>3. CASE r # Invalid /\ key \notin Overrides
  <2>1. IsRequest(r)
    BY <1>3 DEF Shaped
  <2> SUFFICES new = Invalid \/ (DOMAIN new = DOMAIN r /\ new.overrides = r.overrides)
    BY <2>1 DEF Shaped, IsRequest
  <2>2. CASE key \in {"url", "method", "body", "expected_status"}
    BY <1>3, <2>1, <2>2 DEF WithField, IsRequest, RequestFields
  <2>3. CASE key \in DictFields
    BY <1>3, <2>1, <2>3 DEF WithField, IsRequest, RequestFields
  <2>4. CASE key \in {"needle", "needles"}
    BY <1>3, <2>1, <2>4 DEF WithField, IsRequest, RequestFields
  <2>5. CASE key = "meta"
    BY <1>3, <2>1, <2>5 DEF WithField, IsRequest, RequestFields
  <2>6. CASE key \notin {"url", "method", "body", "expected_status", "needle", "needles", "meta"}
                       \cup DictFields
    BY <1>3, <2>1, <2>6 DEF WithField, IsRequest, RequestFields
  <2> QED  BY <2>2, <2>3, <2>4, <2>5, <2>6
<1> QED  BY <1>1, <1>2, <1>3

LEMMA BuiltIsRequest ==
  ASSUME NEW fields, IsSequence(fields), NEW meta, BuildRequest(fields, meta) # Invalid
  PROVE  IsRequest(BuildRequest(fields, meta)) /\ ValidRequest(BuildRequest(fields, meta))
<1> DEFINE base  == [NoRequest EXCEPT !.meta = meta]
           built_ == FoldLeft(WithField, base, fields)
<1>1. Shaped(base)
  BY DEF NoRequest, Shaped, IsRequest, RequestFields, Overrides, IntFields
<1>2. Shaped(Fields!Fold(base, fields))
  <2> HIDE DEF base
  <2>1. Len(fields) \in Nat /\ DOMAIN fields = 1..Len(fields)
    BY SequenceIs
  <2>2. \A value : \A k \in 1..Len(fields) : Shaped(value) => Shaped(WithField(value, fields[k]))
    BY FieldKeepsShape
  <2> QED  BY <1>1, <2>1, <2>2, Fields!FoldKeeps
<1>3. Shaped(built_)
  <2> HIDE DEF base
  <2> QED  BY <1>2, FieldsFolded
<1>4. BuildRequest(fields, meta) = IF built_ = Invalid THEN Invalid
                                   ELSE IF ValidRequest(built_) THEN built_ ELSE Invalid
  BY DEF BuildRequest
<1> HIDE DEF built_
<1> QED  BY <1>3, <1>4 DEF Shaped

\* Whatever a row yields that is not skipped and not an exception is a request
\* __post_init__ accepts.
LEMMA YieldedIsRequest ==
  ASSUME NEW n \in DOMAIN Campaigns, NEW r \in RequestsOf(n)
  PROVE  IsRequest(r) /\ ValidRequest(r)
<1> DEFINE source == Source(n)
<1>1. WellFormed(source)
  BY CampaignAssumption
<1> HIDE DEF source
<1>2. PICK k \in FirstRow(source)..Len(source.rows) : r = RequestFrom(source, source.rows[k])
  BY DEF RequestsOf, source
<1>3. r # Skipped /\ r # Invalid
  BY DEF RequestsOf
<1>4. IsSequence(source.rows) /\ FirstRow(source) \in {1, 2}
  BY <1>1 DEF WellFormed, FirstRow
<1>5. k \in DOMAIN source.rows
  BY <1>4, SequenceIs
<1> DEFINE row == source.rows[k]
<1>6. row \in ToSet(source.rows)
  BY <1>5 DEF ToSet
<1> HIDE DEF row
<1>7. r = RequestFrom(source, row)
  BY <1>2 DEF row
<1>8. \A url : IsSequence(<<[key |-> "url", value |-> Text(url)]>>)
  BY DEF IsSequence, ToSet
<1>9. CASE source.kind = "csv"
  <2>1. r = BuildRequest(CsvFields(source, row), CsvMeta(source, row))
    BY <1>3, <1>7, <1>9 DEF RequestFrom, CsvRequest
  <2>2. IsSequence(CsvFields(source, row))
    <3>1. Len(source.mapping) \in Nat /\ DOMAIN source.mapping = 1..Len(source.mapping)
      BY <1>1, <1>9, SequenceIs DEF WellFormed
    <3>2. CsvFields(source, row) = [a \in 1..Len(source.mapping) |-> CsvFields(source, row)[a]]
      BY <3>1 DEF CsvFields
    <3> QED  BY <3>1, <3>2, FunctionIsSequence
  <2> QED  BY <1>3, <2>1, <2>2, BuiltIsRequest
<1>10. CASE source.kind = "jsonl"
  <2>1. row.kind = "object" /\ r = BuildRequest(row.fields, <<>>)
    BY <1>3, <1>7, <1>10 DEF RequestFrom, JsonRequest
  <2>2. IsSequence(row.fields)
    BY <1>1, <1>6, <1>10, <2>1 DEF WellFormed
  <2> QED  BY <1>3, <2>1, <2>2, BuiltIsRequest
<1>11. CASE source.kind \in {"text", "memory"}
  <2>1. r = UrlRequest(row)
    BY <1>3, <1>7, <1>11 DEF RequestFrom, TextRequest
  <2> QED  BY <1>3, <1>8, <2>1, BuiltIsRequest DEF UrlRequest
<1> QED  BY <1>1, <1>9, <1>10, <1>11 DEF WellFormed

-----------------------------------------------------------------------------
(* What the engine makes of a request *)

\* A denied host is the host of the request, or one of its parent domains.
LEMMA SuffixIsParent ==
  ASSUME NEW host, IsHost(host), NEW entry, IsHost(entry)
  PROVE  HostMatches(host, entry) <=> entry \in ParentDomains(host)
<1> DEFINE h == Len(host)
           e == Len(entry)
<1>1. h \in Nat /\ e \in Nat /\ DOMAIN host = 1..h /\ DOMAIN entry = 1..e /\ e # 0
  <2>1. entry \in Seq(ToSet(entry)) /\ entry # <<>>
    BY DEF IsHost, IsSequence
  <2>2. e # 0
    BY <2>1
  <2> QED  BY <2>2, SequenceIs DEF IsHost
<1> DEFINE Ends == e <= h /\ \A k \in 1..e : entry[k] = host[h - e + k]
<1>2. HostMatches(host, entry) <=> Ends
  <2> DEFINE re == Reverse(entry)
             rh == Reverse(host)
  <2>1. /\ IsSequence(re) /\ Len(re) = e
        /\ IsSequence(rh) /\ Len(rh) = h
    BY <1>1, FunctionIsSequence DEF Reverse
  <2>2. /\ \A i \in 1..e : re[i] = entry[e - i + 1]
        /\ \A i \in 1..h : rh[i] = host[h - i + 1]
    BY DEF Reverse
  <2> HIDE DEF re, rh
  <2>3. e <= h => (SubSeq(re, 1, e) = SubSeq(rh, 1, e) <=> \A i \in 1..e : re[i] = rh[i])
    <3> SUFFICES ASSUME e <= h
                 PROVE  SubSeq(re, 1, e) = SubSeq(rh, 1, e) <=> \A i \in 1..e : re[i] = rh[i]
      OBVIOUS
    <3>1. SubSeq(re, 1, e) = [i \in 1..e |-> re[i]]
      BY <1>1, <2>1, SubSequence
    <3>2. SubSeq(rh, 1, e) = [i \in 1..e |-> rh[i]]
      BY <1>1, <2>1, SubSequence
    <3> QED  BY <3>1, <3>2
  <2>4. HostMatches(host, entry) <=> e <= h /\ \A i \in 1..e : re[i] = rh[i]
    BY <2>1, <2>3 DEF HostMatches, IsSuffix, IsPrefix, re, rh
  <2>5. ASSUME e <= h PROVE (\A i \in 1..e : re[i] = rh[i]) <=> \A k \in 1..e : entry[k] = host[h - e + k]
    <3>1. ASSUME \A i \in 1..e : re[i] = rh[i], NEW k \in 1..e PROVE entry[k] = host[h - e + k]
      <4>1. e - k + 1 \in 1..e /\ e - k + 1 \in 1..h /\ e - (e - k + 1) + 1 = k
            /\ h - (e - k + 1) + 1 = h - e + k
        BY <1>1, <2>5
      <4>2. re[e - k + 1] = rh[e - k + 1]
        BY <3>1, <4>1
      <4>3. re[e - k + 1] = entry[e - (e - k + 1) + 1] /\ rh[e - k + 1] = host[h - (e - k + 1) + 1]
        BY <2>2, <4>1
      <4> QED  BY <4>1, <4>2, <4>3
    <3>2. ASSUME \A k \in 1..e : entry[k] = host[h - e + k], NEW i \in 1..e PROVE re[i] = rh[i]
      <4>1. e - i + 1 \in 1..e /\ i \in 1..h /\ h - e + (e - i + 1) = h - i + 1
        BY <1>1, <2>5
      <4> QED  BY <2>2, <3>2, <4>1
    <3> QED  BY <3>1, <3>2
  <2> QED  BY <2>4, <2>5
<1>3. ASSUME NEW n \in 1..h PROVE entry = SubSeq(host, n, h) <=> Ends /\ n = h - e + 1
  <2>1. SubSeq(host, n, h) = [i \in 1..h - n + 1 |-> host[n + i - 1]]
    BY <1>1, SubSequence DEF IsHost
  <2>2. entry = [i \in 1..e |-> entry[i]]
    BY <1>1, SequenceIsFunction DEF IsHost
  <2>3. ASSUME entry = SubSeq(host, n, h) PROVE Ends /\ n = h - e + 1
    <3>1. e = h - n + 1
      <4>1. Len(SubSeq(host, n, h)) = h - n + 1
        BY <1>1, SubSequence DEF IsHost
      <4> QED  BY <2>3, <4>1
    <3>2. \A k \in 1..e : entry[k] = host[n + k - 1]
      BY <2>1, <2>3, <3>1
    <3>3. n = h - e + 1 /\ e <= h /\ \A k \in 1..e : n + k - 1 = h - e + k
      BY <1>1, <3>1
    <3> QED  BY <3>2, <3>3
  <2>4. ASSUME Ends, n = h - e + 1 PROVE entry = SubSeq(host, n, h)
    <3>1. h - n + 1 = e /\ \A i \in 1..e : n + i - 1 = h - e + i
      BY <1>1, <2>4
    <3>2. SubSeq(host, n, h) = [i \in 1..e |-> host[h - e + i]]
      BY <2>1, <3>1
    <3>3. [i \in 1..e |-> host[h - e + i]] = [i \in 1..e |-> entry[i]]
      BY <2>4
    <3> QED  BY <2>2, <3>2, <3>3
  <2> QED  BY <2>3, <2>4
<1>4. Ends => h - e + 1 \in 1..h
  BY <1>1
<1>5. entry \in ParentDomains(host) <=> \E n \in 1..h : entry = SubSeq(host, n, h)
  BY <1>1 DEF ParentDomains
<1> HIDE DEF Ends
<1> QED  BY <1>2, <1>3, <1>4, <1>5

\* What _prepare makes of the requests that may be sent.
PreparedOf(n) ==
    {Prepared(Config(n), Campaigns[n].needle, r) :
         r \in {q \in RequestsOf(n) : IsAllowed(Config(n), q.url)}}

LEMMA PreparedIs ==
  ASSUME NEW c, NEW needle, NEW r, IsRequest(r)
  PROVE  /\ IsRequest(Prepared(c, needle, r))
         /\ Prepared(c, needle, r).url = r.url
         /\ Prepared(c, needle, r).method = r.method
         /\ Prepared(c, needle, r).headers = AppliedHeaders(c, r.headers)
         /\ Prepared(c, needle, r).meta = AnnotatedMeta(c, r.meta)
         /\ Prepared(c, needle, r).overrides = r.overrides
  BY DEF Prepared, IsRequest, RequestFields

\* The settings are all effective() changes.
LEMMA EffectiveIs ==
  ASSUME NEW c, NEW r, IsRequest(r)
  PROVE  /\ \A f \in RequestFields \ {"overrides"} : Effective(c, r)[f] = r[f]
         /\ Effective(c, r).url = r.url
         /\ Effective(c, r).headers = r.headers
         /\ Effective(c, r).meta = r.meta
         /\ \A o \in Overrides : Effective(c, r).overrides[o] =
                IF o \in Inherited /\ r.overrides[o] = Unset THEN c.defaults[o] ELSE r.overrides[o]
<1>1. Effective(c, r) =
        [r EXCEPT !.overrides =
            [o \in Overrides |-> IF o \in Inherited /\ r.overrides[o] = Unset THEN c.defaults[o]
                                                                            ELSE r.overrides[o]]]
  BY DEF Effective
<1> QED  BY <1>1 DEF IsRequest, RequestFields

Domains(c, url) ==
    LET domains == ParentDomains(HostOf[url])
    IN /\ domains \cap ToSet(c.denylist) = {}
       /\ c.allowlist # <<>> => domains \cap ToSet(c.allowlist) # {}

LEMMA AllowedDomains ==
  ASSUME NEW n \in DOMAIN Campaigns, NEW r \in RequestsOf(n), IsAllowed(Config(n), r.url)
  PROVE  Domains(Config(n), r.url)
<1> DEFINE c == Config(n)
           host == HostOf[r.url]
<1>1. IsHost(host) /\ \A entry \in ToSet(c.denylist) \cup ToSet(c.allowlist) : IsHost(entry)
  BY HostAssumption
<1>2. IsAllowed(c, r.url)
  OBVIOUS
<1>3. \A entries : Listed(host, entries) <=> \E entry \in ToSet(entries) : HostMatches(host, entry)
  BY DEF Listed, ToSet
<1> HIDE DEF c
<1>4. \A entry \in ToSet(c.denylist) \cup ToSet(c.allowlist) :
         HostMatches(host, entry) <=> entry \in ParentDomains(host)
  <2> HIDE DEF host
  <2> QED  BY <1>1, SuffixIsParent
<1>5. Domains(c, r.url)
  BY <1>2, <1>3, <1>4 DEF IsAllowed, Domains
<1> QED  BY <1>5 DEF c

Identified(c, own, headers) ==
    c.identity_header # Unset =>
        IF Spellings(own, c.identity_header.name) # {} THEN headers = own
        ELSE /\ Spellings(headers, c.identity_header.name) = {c.identity_header.name}
             /\ headers[c.identity_header.name] = c.identity_header.value

Authorized(c, meta) ==
    c.authorization # Unset =>
        "authorization" \in DOMAIN meta /\ meta["authorization"] = c.authorization

LEMMA AppliedIdentified ==
  ASSUME NEW c, NEW own
  PROVE  Identified(c, own, AppliedHeaders(c, own))
  BY DEF Identified, AppliedHeaders, HasHeader, Spellings, Updated

LEMMA AnnotatedAuthorized ==
  ASSUME NEW c, NEW meta
  PROVE  Authorized(c, AnnotatedMeta(c, meta))
  BY DEF Authorized, AnnotatedMeta, Updated

-----------------------------------------------------------------------------
(* The rows of a batch *)

\* rows are those of the first n results that match, "at" says where each stands.
Selects(rows, results, n, at) ==
    /\ IsSequence(rows)
    /\ at \in [1..Len(rows) -> 1..n]
    /\ \A i, j \in 1..Len(rows) : i < j => at[i] < at[j]
    /\ \A i \in 1..Len(rows) : rows[i] = results[at[i]] /\ results[at[i]].matched
    /\ \A k \in 1..n : results[k].matched => \E i \in 1..Len(rows) : at[i] = k

Selected(n) ==
    \A results : DOMAIN results = 1..n => \E at : Selects(Matching(results), results, n, at)

Rows_ == INSTANCE FoldLeftFacts WITH Op <- WithMatch, Good <- Selected

LEMMA MatchingFolded ==
  ASSUME NEW results
  PROVE  Matching(results) = Rows_!Fold(<<>>, results)
  BY DEF Matching, Rows_!Fold, Rows_!FoldLeft, Rows_!MapThenFoldSet, Rows_!Max, FoldLeft,
         MapThenFoldSet, Max

LEMMA SelectsNext ==
  ASSUME NEW n \in Nat, NEW results, NEW front, \A k \in 1..n : front[k] = results[k],
         NEW rows, NEW at, Selects(rows, front, n, at)
  PROVE  \E next : Selects(WithMatch(rows, results[n + 1]), results, n + 1, next)
<1>1. CASE ~results[n + 1].matched
  <2>1. WithMatch(rows, results[n + 1]) = rows
    BY <1>1 DEF WithMatch
  <2>2. Selects(rows, results, n + 1, at)
    BY <1>1 DEF Selects
  <2> QED  BY <2>1, <2>2
<1>2. CASE results[n + 1].matched
  <2> DEFINE m    == Len(rows)
             new  == Append(rows, results[n + 1])
             next == [i \in 1..m + 1 |-> IF i = m + 1 THEN n + 1 ELSE at[i]]
  <2>1. m \in Nat /\ at \in [1..m -> 1..n]
    BY SequenceIs DEF Selects
  <2>2. /\ IsSequence(new) /\ Len(new) = m + 1
        /\ \A i \in 1..m : new[i] = rows[i]
        /\ new[m + 1] = results[n + 1]
    BY Appended DEF Selects
  <2>3. /\ next \in [1..m + 1 -> 1..n + 1]
        /\ next[m + 1] = n + 1
        /\ \A i \in 1..m : next[i] = at[i]
    BY <2>1
  <2> HIDE DEF m, new, next
  <2>4. ASSUME NEW i \in 1..m + 1, NEW j \in 1..m + 1, i < j PROVE next[i] < next[j]
    <3>1. i \in 1..m
      BY <2>1, <2>4
    <3>2. CASE j = m + 1
      BY <2>1, <2>3, <3>1, <3>2
    <3>3. CASE j \in 1..m
      BY <2>3, <2>4, <3>1, <3>3 DEF Selects, m
    <3> QED  BY <2>1, <3>2, <3>3
  <2>5. ASSUME NEW i \in 1..m + 1 PROVE new[i] = results[next[i]] /\ results[next[i]].matched
    <3>1. CASE i = m + 1
      BY <1>2, <2>2, <2>3, <3>1
    <3>2. CASE i \in 1..m
      <4>1. new[i] = front[at[i]] /\ front[at[i]].matched /\ at[i] \in 1..n
        BY <2>1, <2>2, <3>2 DEF Selects, m
      <4> QED  BY <2>3, <3>2, <4>1
    <3> QED  BY <2>1, <3>1, <3>2
  <2>6. ASSUME NEW k \in 1..n + 1, results[k].matched PROVE \E i \in 1..m + 1 : next[i] = k
    <3>1. CASE k = n + 1
      BY <2>1, <2>3, <3>1
    <3>2. CASE k \in 1..n
      <4>1. PICK i \in 1..m : at[i] = k
        BY <2>6, <3>2 DEF Selects, m
      <4> QED  BY <2>1, <2>3, <4>1
    <3> QED  BY <3>1, <3>2
  <2>7. Selects(new, results, n + 1, next)
    BY <2>2, <2>3, <2>4, <2>5, <2>6 DEF Selects
  <2>8. WithMatch(rows, results[n + 1]) = new
    BY <1>2 DEF WithMatch, new
  <2> QED  BY <2>7, <2>8
<1> QED  BY <1>1, <1>2

\* The results that match keep their order.
LEMMA MatchingSelects == \A n \in Nat : Selected(n)
<1>1. Selected(0)
  <2> SUFFICES ASSUME NEW results, DOMAIN results = 1..0
               PROVE  \E at : Selects(Matching(results), results, 0, at)
    BY DEF Selected
  <2>1. Matching(results) = <<>>
    BY MatchingFolded, Rows_!FoldEmpty
  <2>2. Selects(<<>>, results, 0, <<>>)
    BY EmptySequence DEF Selects
  <2> QED  BY <2>1, <2>2
<1>2. ASSUME NEW n \in Nat, Selected(n) PROVE Selected(n + 1)
  <2> SUFFICES ASSUME NEW results, DOMAIN results = 1..n + 1
               PROVE  \E at : Selects(Matching(results), results, n + 1, at)
    BY DEF Selected
  <2> DEFINE front == [k \in 1..n |-> results[k]]
  <2>1. DOMAIN front = 1..n /\ \A k \in 1..n : front[k] = results[k]
    OBVIOUS
  <2> HIDE DEF front
  <2>2. PICK at : Selects(Matching(front), front, n, at)
    BY <1>2, <2>1 DEF Selected
  <2>3. Matching(results) = WithMatch(Matching(front), results[n + 1])
    BY <2>1, MatchingFolded, Rows_!FoldNext
  <2> QED  BY <2>1, <2>2, <2>3, SelectsNext
<1> QED  BY <1>1, <1>2, Rows_!Induction

-----------------------------------------------------------------------------
(* The collector *)

\* A collector: the sample is full as soon as it can be.
IsCollector(m) ==
    /\ DOMAIN m = {"total", "matched", "by_status", "errors", "latencies", "seen"}
    /\ {m.total, m.matched, m.seen} \subseteq Nat
    /\ IsSequence(m.latencies)
    /\ Len(m.latencies) = IF m.seen < ReservoirSize THEN m.seen ELSE ReservoirSize

AreCollectors(ms) == \A m \in ms : IsCollector(m)

Merges == INSTANCE FoldLeftFacts WITH Op <- SampledWith, Good <- AreCollectors

LEMMA MergedFolded ==
  ASSUME NEW ms, NEW latencies
  PROVE  FoldLeft(SampledWith, ms, latencies) = Merges!Fold(ms, latencies)
  BY DEF Merges!Fold, Merges!FoldLeft, Merges!MapThenFoldSet, Merges!Max, FoldLeft,
         MapThenFoldSet, Max

Samples == INSTANCE FoldLeftFacts WITH Op <- WithElapsed, Good <- IsSequence

LEMMA SampleFolded ==
  ASSUME NEW sample, NEW results
  PROVE  FoldLeft(WithElapsed, sample, results) = Samples!Fold(sample, results)
  BY DEF Samples!Fold, Samples!FoldLeft, Samples!MapThenFoldSet, Samples!Max, FoldLeft,
         MapThenFoldSet, Max

LEMMA SampleIsSequence ==
  ASSUME NEW results, IsSequence(results)
  PROVE  IsSequence(FoldLeft(WithElapsed, <<>>, results))
<1>1. Len(results) \in Nat /\ DOMAIN results = 1..Len(results)
  BY SequenceIs
<1>2. \A sample : \A k \in 1..Len(results) :
         IsSequence(sample) => IsSequence(WithElapsed(sample, results[k]))
  BY Appended DEF WithElapsed
<1>3. IsSequence(Samples!Fold(<<>>, results))
  BY <1>1, <1>2, EmptySequence, Samples!FoldKeeps
<1> QED  BY <1>3, SampleFolded

LEMMA SampledCollectors ==
  ASSUME NEW ms, AreCollectors(ms), NEW value
  PROVE  AreCollectors(SampledWith(ms, value))
<1> SUFFICES ASSUME NEW m \in ms, NEW new \in WithLatency(m, value)
             PROVE  IsCollector(new)
  BY DEF SampledWith, AreCollectors
<1>1. IsCollector(m)
  BY DEF AreCollectors
<1>2. Len(m.latencies) \in Nat /\ DOMAIN m.latencies = 1..Len(m.latencies)
  BY <1>1, SequenceIs DEF IsCollector
<1>3. ReservoirSize \in Nat /\ m.seen \in Nat
  BY <1>1, SampleAssumption DEF IsCollector
<1>4. CASE new = [m EXCEPT !.seen = @ + 1, !.latencies = Append(@, value)]
           /\ Len(m.latencies) < ReservoirSize
  BY <1>1, <1>2, <1>3, <1>4, Appended DEF IsCollector
<1>5. CASE new = [m EXCEPT !.seen = @ + 1] /\ ~ Len(m.latencies) < ReservoirSize
  BY <1>1, <1>2, <1>3, <1>5 DEF IsCollector
<1>6. ASSUME NEW k \in 1..ReservoirSize, new = [m EXCEPT !.seen = @ + 1, !.latencies[k] = value],
             ~ Len(m.latencies) < ReservoirSize
      PROVE  IsCollector(new)
  <2>1. IsSequence([m.latencies EXCEPT ![k] = value])
        /\ Len([m.latencies EXCEPT ![k] = value]) = Len(m.latencies)
    <3> DEFINE s == [m.latencies EXCEPT ![k] = value]
    <3>1. s = [i \in 1..Len(m.latencies) |-> s[i]]
      BY <1>2
    <3> QED  BY <1>2, <3>1, FunctionIsSequence
  <2> QED  BY <1>1, <1>2, <1>3, <1>6, <2>1 DEF IsCollector
<1> QED  BY <1>4, <1>5, <1>6 DEF WithLatency

LEMMA MergedCollectors ==
  ASSUME NEW m, IsCollector(m), NEW stats, {stats.total, stats.matched} \subseteq Nat,
         IsSequence(stats.latencies)
  PROVE  AreCollectors(Merged(m, stats))
<1> DEFINE base == {[m EXCEPT !.total     = @ + stats.total,
                              !.matched   = @ + stats.matched,
                              !.by_status = @ (+) stats.by_status,
                              !.errors    = @ (+) stats.errors]}
<1>1. AreCollectors(base)
  <2> SUFFICES ASSUME NEW new \in base PROVE IsCollector(new)
    BY DEF AreCollectors
  <2>1. /\ DOMAIN new = DOMAIN m
        /\ new.total = m.total + stats.total /\ new.matched = m.matched + stats.matched
        /\ new.seen = m.seen /\ new.latencies = m.latencies
    BY DEF IsCollector
  <2>2. {m.total, m.matched, m.seen} \subseteq Nat
    BY DEF IsCollector
  <2>3. {new.total, new.matched, new.seen} \subseteq Nat
    BY <2>1, <2>2
  <2> QED  BY <2>1, <2>3 DEF IsCollector
<1>2. Merged(m, stats) = FoldLeft(SampledWith, base, stats.latencies)
  BY DEF Merged
<1> HIDE DEF base
<1>3. Len(stats.latencies) \in Nat /\ DOMAIN stats.latencies = 1..Len(stats.latencies)
  BY SequenceIs
<1>4. \A ms : \A k \in 1..Len(stats.latencies) :
         AreCollectors(ms) => AreCollectors(SampledWith(ms, stats.latencies[k]))
  BY SampledCollectors
<1>5. AreCollectors(Merges!Fold(base, stats.latencies))
  BY <1>1, <1>3, <1>4, Merges!FoldKeeps
<1> QED  BY <1>2, <1>5, MergedFolded

-----------------------------------------------------------------------------
(* The invariant *)

TasksOf(n) == [id : Nat, request : PreparedOf(n)]

JobFields == {"at", "reply", "got", "result"}

\* Where the campaign stands: the batch holds requests that may be sent, and every
\* transfer belongs to one of them.
ControlInv ==
    /\ campaign \in DOMAIN Campaigns
    /\ phase \in {"reading", "sending", "returned", "raised"}
    /\ line \in FirstRow(Source(campaign))..Len(Rows) + 1
    /\ built \in 0..line - 1 /\ skipped \in 0..built
    /\ batch \in Seq(TasksOf(campaign)) /\ Len(batch) <= config.chunk_size
    /\ phase = "reading" => job = <<>>
    /\ phase = "sending" => DOMAIN job = DOMAIN batch
    /\ \A k \in DOMAIN job : DOMAIN job[k] = JobFields /\ job[k].at \in {"waiting", "open", "done"}

\* The ids of a batch grow, and none has been given yet.
BatchInv ==
    /\ \A i, j \in DOMAIN batch : i < j => batch[i].id < batch[j].id
    /\ \A k \in DOMAIN batch : batch[k].id < built

\* A result is that of the task of the batch at its place.
ResultInv ==
    \A k \in DOMAIN job : phase = "sending" /\ job[k].at = "done" =>
        /\ job[k].result.source_id = batch[k].id
        /\ job[k].result.meta = batch[k].request.meta

\* The rows written are those of tasks that come before the batch.
OutInv ==
    /\ IsSequence(out)
    /\ IdsInOrder
    /\ AuthorizationNoted
    /\ \A i \in DOMAIN out :
          /\ out[i].source_id \in Nat /\ out[i].source_id < built
          /\ \A k \in DOMAIN batch : out[i].source_id < batch[k].id

AskedInv ==
    \A a \in asked : \E p \in PreparedOf(campaign) : a.url = p.url /\ a.headers = p.headers

CountInv == matched \in Nat /\ IsCollector(metrics)

DataInv == ControlInv /\ BatchInv /\ ResultInv /\ OutInv /\ AskedInv /\ CountInv

LEMMA FirstRowIs ==
  ASSUME NEW n \in DOMAIN Campaigns
  PROVE  /\ Len(Source(n).rows) \in Nat
         /\ FirstRow(Source(n)) \in {1, 2}
         /\ FirstRow(Source(n)) <= Len(Source(n).rows) + 1
<1> DEFINE source == Source(n)
<1>1. IsSequence(source.rows)
  BY CampaignAssumption DEF WellFormed
<1> HIDE DEF source
<1>2. Len(source.rows) \in Nat
  BY <1>1, SequenceIs
<1>3. FirstRow(source) = 2 => source.rows # <<>>
  BY DEF FirstRow, Header
<1>4. source.rows # <<>> => Len(source.rows) # 0
  BY <1>1 DEF IsSequence
<1>5. FirstRow(source) \in {1, 2}
  BY DEF FirstRow
<1> QED  BY <1>2, <1>3, <1>4, <1>5 DEF source

LEMMA ConfigIs ==
  ASSUME NEW n \in DOMAIN Campaigns
  PROVE  Config(n).chunk_size \in Nat \ {0}
<1>1. ValidConfig(Config(n))
  BY CampaignAssumption
<1> QED  BY <1>1 DEF ValidConfig

LEMMA BatchTasks ==
  ASSUME ControlInv
  PROVE  /\ Len(batch) \in Nat /\ DOMAIN batch = 1..Len(batch)
         /\ \A k \in DOMAIN batch :
               batch[k].id \in Nat /\ batch[k].request \in PreparedOf(campaign)
<1> DEFINE T == TasksOf(campaign)
<1>1. batch \in Seq(T)
  BY DEF ControlInv
<1>2. \A t \in T : t.id \in Nat /\ t.request \in PreparedOf(campaign)
  BY DEF TasksOf
<1> HIDE DEF T
<1> QED  BY <1>1, <1>2

LEMMA InitData == Init => DataInv
<1> SUFFICES ASSUME Init PROVE DataInv
  OBVIOUS
<1> USE DEF Init
<1>1. ControlInv
  BY FirstRowIs, ConfigIs DEF ControlInv, Rows, config
<1>2. BatchInv /\ ResultInv
  BY DEF BatchInv, ResultInv
<1>3. OutInv
  BY EmptySequence DEF OutInv, IdsInOrder, AuthorizationNoted
<1>4. AskedInv
  BY DEF AskedInv
<1>5. CountInv
  BY EmptySequence, SampleAssumption DEF CountInv, NoMetrics, IsCollector
<1> QED  BY <1>1, <1>2, <1>3, <1>4, <1>5 DEF DataInv

\* A row that is read takes a number, and a place in the batch when it may be sent.
LEMMA ReadRowData ==
  ASSUME DataInv, ReadRow
  PROVE  DataInv'
<1> DEFINE source  == Source(campaign)
           request == RequestFrom(source, Rows[line])
           task    == Numbered(Prepared(config, Campaigns[campaign].needle, request))
<1>0. ControlInv /\ campaign \in DOMAIN Campaigns
  BY DEF DataInv, ControlInv
<1>1. /\ phase = "reading" /\ Len(batch) # config.chunk_size /\ line <= Len(Rows)
      /\ line' = line + 1
      /\ UNCHANGED <<campaign, job, metrics, matched, out, summary, csv, asked, log>>
  BY DEF ReadRow, Full
<1>2. \/ UNCHANGED <<built, skipped, batch>>
      \/ /\ request \notin {Skipped, Invalid}
         /\ built' = built + 1
         /\ \/ IsAllowed(config, request.url) /\ batch' = Append(batch, task) /\ UNCHANGED skipped
            \/ skipped' = skipped + 1 /\ UNCHANGED batch
  BY DEF ReadRow, Admit
<1>3. phase' \in {"reading", "raised"}
  BY <1>1 DEF ReadRow
<1>4. /\ Len(Rows) \in Nat /\ config.chunk_size \in Nat
      /\ FirstRow(source) \in Nat /\ line \in FirstRow(source)..Len(Rows) + 1 /\ line \in Nat
  BY <1>0, FirstRowIs, ConfigIs DEF Rows, config, ControlInv
<1>5. Rows' = Rows /\ config' = config /\ Source(campaign)' = source
  BY <1>1 DEF Rows, config
<1>6. built \in Nat /\ batch \in Seq(TasksOf(campaign)) /\ Len(batch) <= config.chunk_size
      /\ built <= line - 1 /\ skipped \in 0..built
  BY <1>0, <1>4 DEF ControlInv
<1>7. CASE UNCHANGED <<built, skipped, batch>>
  BY <1>0, <1>1, <1>3, <1>4, <1>5, <1>6, <1>7
     DEF DataInv, ControlInv, BatchInv, ResultInv, OutInv, IdsInOrder, AuthorizationNoted, AskedInv,
         CountInv
<1>8. CASE built' = built + 1 /\ skipped' = skipped + 1 /\ UNCHANGED batch
  <2>1. built' \in 0..line' - 1 /\ skipped' \in 0..built' /\ built < built'
    BY <1>1, <1>4, <1>6, <1>8
  <2>2. line' \in FirstRow(source)..Len(Rows) + 1
    BY <1>1, <1>4
  <2> HIDE DEF request
  <2>3. ControlInv'
    BY <1>0, <1>1, <1>3, <1>5, <1>6, <1>8, <2>1, <2>2 DEF ControlInv
  <2>4. BatchInv' /\ OutInv'
    <3>1. \A id \in Nat : id < built => id < built'
      BY <1>6, <1>8
    <3>2. \A k \in DOMAIN batch : batch[k].id \in Nat
      BY <1>0, BatchTasks
    <3>3. BatchInv'
      BY <1>8, <3>1, <3>2 DEF DataInv, BatchInv
    <3>4. IdsInOrder' /\ AuthorizationNoted'
      BY <1>1, <1>5 DEF DataInv, OutInv, IdsInOrder, AuthorizationNoted
    <3>5. OutInv'
      BY <1>1, <1>8, <3>1, <3>4 DEF DataInv, OutInv
    <3> QED  BY <3>3, <3>5
  <2>5. ResultInv' /\ AskedInv' /\ CountInv'
    BY <1>1, <1>3, <1>5, <1>8 DEF DataInv, ResultInv, AskedInv, CountInv
  <2> QED  BY <2>3, <2>4, <2>5 DEF DataInv
<1>9. CASE /\ request \notin {Skipped, Invalid} /\ built' = built + 1
           /\ IsAllowed(config, request.url) /\ batch' = Append(batch, task) /\ UNCHANGED skipped
  <2>1. task \in TasksOf(campaign) /\ task.id = built
    <3>1. request \in RequestsOf(campaign)
      <4>1. line \in FirstRow(source)..Len(source.rows)
        BY <1>1, <1>4 DEF Rows
      <4>2. request \notin {Skipped, Invalid} /\ request = RequestFrom(source, source.rows[line])
        BY <1>9 DEF Rows
      <4> HIDE DEF request
      <4> QED  BY <4>1, <4>2 DEF RequestsOf
    <3>2. task.request \in PreparedOf(campaign)
      BY <1>9, <3>1 DEF PreparedOf, Numbered, config
    <3> QED  BY <1>6, <3>2 DEF Numbered, TasksOf
  <2> HIDE DEF task, request
  <2>2. /\ batch' \in Seq(TasksOf(campaign)) /\ Len(batch') = Len(batch) + 1
        /\ \A k \in 1..Len(batch) : batch'[k] = batch[k]
        /\ batch'[Len(batch) + 1] = task
    BY <1>6, <1>9, <2>1
  <2>3. Len(batch) \in Nat /\ DOMAIN batch = 1..Len(batch) /\ DOMAIN batch' = 1..Len(batch) + 1
    BY <1>6, <2>2
  <2>4. ControlInv'
    BY <1>0, <1>1, <1>3, <1>4, <1>5, <1>6, <1>9, <2>2, <2>3 DEF ControlInv
  <2>5. BatchInv'
    <3>1. \A k \in 1..Len(batch) : batch[k].id \in Nat /\ batch[k].id < built
      BY <1>0, <2>3, BatchTasks DEF DataInv, BatchInv
    <3>2. ASSUME NEW k \in 1..Len(batch) + 1 PROVE batch'[k].id < built'
      <4>1. CASE k = Len(batch) + 1
        BY <1>6, <1>9, <2>1, <2>2, <4>1
      <4>2. CASE k \in 1..Len(batch)
        <5>1. batch'[k].id = batch[k].id
          BY <2>2, <4>2
        <5> QED  BY <1>6, <1>9, <3>1, <4>2, <5>1
      <4> QED  BY <2>3, <4>1, <4>2
    <3>3. ASSUME NEW i \in 1..Len(batch) + 1, NEW j \in 1..Len(batch) + 1, i < j
          PROVE  batch'[i].id < batch'[j].id
      <4>1. i \in 1..Len(batch)
        BY <2>3, <3>3
      <4>2. CASE j = Len(batch) + 1
        BY <2>1, <2>2, <3>1, <4>1, <4>2
      <4>3. CASE j \in 1..Len(batch)
        BY <2>2, <2>3, <3>3, <4>1, <4>3 DEF DataInv, BatchInv
      <4> QED  BY <2>3, <4>2, <4>3
    <3> QED  BY <2>3, <3>2, <3>3 DEF BatchInv
  <2>6. OutInv'
    BY <1>1, <1>5, <1>6, <1>9, <2>1, <2>2, <2>3
       DEF DataInv, OutInv, IdsInOrder, AuthorizationNoted
  <2>7. ResultInv' /\ AskedInv' /\ CountInv'
    BY <1>1, <1>3, <1>5 DEF DataInv, ResultInv, AskedInv, CountInv
  <2> QED  BY <2>4, <2>5, <2>6, <2>7 DEF DataInv
<1> QED  BY <1>2, <1>7, <1>8, <1>9

LEMMA RunBatchData ==
  ASSUME DataInv, RunBatch
  PROVE  DataInv'
<1>1. /\ phase' = "sending" /\ job' = [k \in DOMAIN batch |-> Waiting]
      /\ UNCHANGED <<campaign, line, built, skipped, batch, metrics, matched, out, asked>>
  BY DEF RunBatch
<1>2. Rows' = Rows /\ config' = config /\ Source(campaign)' = Source(campaign)
  BY <1>1 DEF Rows, config
<1>3. ControlInv' /\ ResultInv'
  BY <1>1, <1>2 DEF DataInv, ControlInv, ResultInv, Waiting, JobFields
<1> QED  BY <1>1, <1>2, <1>3
         DEF DataInv, BatchInv, OutInv, IdsInOrder, AuthorizationNoted, AskedInv, CountInv

\* What every request that may be sent is like.
LEMMA PreparedRequest ==
  ASSUME NEW n \in DOMAIN Campaigns, NEW p \in PreparedOf(n)
  PROVE  /\ IsRequest(p) /\ ValidRequest(p)
         /\ Domains(Config(n), p.url)
         /\ Authorized(Config(n), p.meta)
         /\ \E r \in RequestsOf(n) : p.url = r.url /\ Identified(Config(n), r.headers, p.headers)
<1>1. PICK r \in RequestsOf(n) : /\ p = Prepared(Config(n), Campaigns[n].needle, r)
                                /\ IsAllowed(Config(n), r.url)
  BY DEF PreparedOf
<1>2. IsRequest(r) /\ ValidRequest(r)
  BY YieldedIsRequest
<1>3. /\ IsRequest(p) /\ p.url = r.url /\ p.method = r.method /\ p.overrides = r.overrides
      /\ p.headers = AppliedHeaders(Config(n), r.headers)
      /\ p.meta = AnnotatedMeta(Config(n), r.meta)
  BY <1>1, <1>2, PreparedIs
<1>4. ValidRequest(p)
  BY <1>2, <1>3 DEF ValidRequest
<1> QED  BY <1>1, <1>3, <1>4, AllowedDomains, AppliedIdentified, AnnotatedAuthorized

\* The record of a transfer whose result, once there is one, is its own task's.
Carries(k, j) ==
    /\ DOMAIN j = JobFields /\ j.at \in {"waiting", "open", "done"}
    /\ j.at = "done" => /\ j.result.source_id = batch[k].id
                       /\ j.result.meta = batch[k].request.meta

\* A step of one transfer that may raise.
Transfers(k) ==
    /\ phase' \in {"sending", "raised"}
    /\ UNCHANGED job \/ \E j : Carries(k, j) /\ job' = [job EXCEPT ![k] = j]

LEMMA ResolvedIs ==
  ASSUME DataInv, phase = "sending", NEW k \in DOMAIN job
  PROVE  /\ k \in DOMAIN batch
         /\ batch[k].request \in PreparedOf(campaign)
         /\ IsRequest(batch[k].request)
         /\ Resolved(k).url = batch[k].request.url
         /\ Resolved(k).headers = batch[k].request.headers
         /\ Resolved(k).meta = batch[k].request.meta
<1>1. ControlInv
  BY DEF DataInv
<1>2. k \in DOMAIN batch /\ campaign \in DOMAIN Campaigns
  BY <1>1 DEF ControlInv
<1>3. batch[k].request \in PreparedOf(campaign)
  BY <1>1, <1>2, BatchTasks
<1>4. IsRequest(batch[k].request)
  BY <1>2, <1>3, PreparedRequest
<1> QED  BY <1>2, <1>3, <1>4, EffectiveIs DEF Resolved

LEMMA CompleteTransfers ==
  ASSUME DataInv, phase = "sending", NEW k \in DOMAIN job,
         NEW reply, NEW got, NEW response, NEW elapsed, Complete(k, reply, got, response, elapsed)
  PROVE  Transfers(k)
<1> DEFINE verdict == Evaluated(Resolved(k), Campaigns[campaign].predicate, response)
           result  == Result(k, response, verdict, elapsed)
           j       == [at |-> "done", reply |-> reply, got |-> got, result |-> result]
<1>1. result.source_id = batch[k].id /\ result.meta = batch[k].request.meta
  BY ResolvedIs DEF Result
<1>2. \/ phase' = "raised" /\ UNCHANGED job
      \/ phase' = phase /\ job' = [job EXCEPT ![k] = j]
  BY DEF Complete
<1> HIDE DEF result
<1>3. Carries(k, j)
  BY <1>1 DEF Carries, JobFields
<1> HIDE DEF j
<1> QED  BY <1>2, <1>3 DEF Transfers

LEMMA AnswerTransfers ==
  ASSUME DataInv, phase = "sending", NEW k \in DOMAIN job, NEW reply, Answer(k, reply)
  PROVE  Transfers(k)
<1> DEFINE j == [job[k] EXCEPT !.at = "open", !.reply = reply]
<1>1. \/ UNCHANGED phase /\ job' = [job EXCEPT ![k].at = "open", ![k].reply = reply]
      \/ \E got, response, elapsed : Complete(k, reply, got, response, elapsed)
  BY DEF Answer
<1>2. ASSUME UNCHANGED phase, job' = [job EXCEPT ![k].at = "open", ![k].reply = reply]
      PROVE  Transfers(k)
  <2>1. DOMAIN job[k] = JobFields
    BY DEF DataInv, ControlInv
  <2>2. job' = [job EXCEPT ![k] = j]
    BY <1>2
  <2>3. Carries(k, j)
    BY <2>1 DEF Carries, JobFields
  <2> HIDE DEF j
  <2> QED  BY <1>2, <2>2, <2>3 DEF Transfers
<1> QED  BY <1>1, <1>2, CompleteTransfers

LEMMA TransfersData ==
  ASSUME DataInv, phase = "sending", NEW k \in DOMAIN job, Transfers(k),
         asked' \in {asked, asked \cup {Sent(k)}},
         UNCHANGED <<campaign, line, built, skipped, batch, metrics, matched, out>>
  PROVE  DataInv'
<1>1. Rows' = Rows /\ config' = config /\ Source(campaign)' = Source(campaign)
  BY DEF Rows, config
<1>2. DOMAIN job' = DOMAIN job
  BY DEF Transfers
<1>3. ASSUME NEW i \in DOMAIN job
      PROVE  Carries(i, job'[i])
  <2>1. Carries(i, job[i])
    BY DEF DataInv, ControlInv, ResultInv, Carries
  <2>2. CASE UNCHANGED job
    BY <2>1, <2>2
  <2>3. ASSUME NEW j, Carries(k, j), job' = [job EXCEPT ![k] = j]
        PROVE  Carries(i, job'[i])
    BY <2>1, <2>3
  <2> QED  BY <2>2, <2>3 DEF Transfers
<1>4. ControlInv'
  BY <1>1, <1>2, <1>3 DEF DataInv, ControlInv, Carries, Transfers
<1>5. ResultInv'
  BY <1>2, <1>3 DEF ResultInv, Carries
<1>6. AskedInv'
  <2>1. \E p \in PreparedOf(campaign) : Sent(k).url = p.url /\ Sent(k).headers = p.headers
    BY ResolvedIs DEF Sent
  <2> QED  BY <2>1 DEF DataInv, AskedInv
<1>7. BatchInv' /\ OutInv' /\ CountInv'
  BY <1>1 DEF DataInv, BatchInv, OutInv, IdsInOrder, AuthorizationNoted, CountInv
<1> QED  BY <1>4, <1>5, <1>6, <1>7 DEF DataInv

LEMMA SendData ==
  ASSUME DataInv, NEW k \in DOMAIN job, Send(k)
  PROVE  DataInv'
<1>1. phase = "sending" /\ UNCHANGED <<campaign, line, built, skipped, batch, metrics, matched, out>>
  BY DEF Send
<1>2. Transfers(k) /\ asked' \in {asked, asked \cup {Sent(k)}}
  <2>1. \/ Complete(k, NoReply, 0, Failure("http3_unavailable"), 0) /\ UNCHANGED asked
        \/ \E reply \in Replies : Answer(k, reply) /\ asked' = asked \cup {Sent(k)}
    BY DEF Send
  <2> QED  BY <1>1, <2>1, CompleteTransfers, AnswerTransfers
<1> QED  BY <1>1, <1>2, TransfersData

LEMMA ReceiveData ==
  ASSUME DataInv, NEW k \in DOMAIN job, Receive(k)
  PROVE  DataInv'
<1>1. /\ phase = "sending" /\ job[k].at = "open"
      /\ UNCHANGED <<campaign, line, built, skipped, batch, metrics, matched, out, asked>>
  BY DEF Receive
<1>2. \/ \E reply, got, response, elapsed : Complete(k, reply, got, response, elapsed)
      \/ phase' = "raised" /\ UNCHANGED job
      \/ UNCHANGED phase /\ job' = [job EXCEPT ![k].got = job[k].got + 1]
  BY DEF Receive
<1>3. ASSUME UNCHANGED phase, job' = [job EXCEPT ![k].got = job[k].got + 1]
      PROVE  Transfers(k)
  <2> DEFINE j == [job[k] EXCEPT !.got = job[k].got + 1]
  <2>1. Carries(k, job[k])
    BY <1>1 DEF DataInv, ControlInv, ResultInv, Carries
  <2>2. Carries(k, j)
    BY <1>1, <2>1 DEF Carries, JobFields
  <2>3. job' = [job EXCEPT ![k] = j]
    BY <1>3
  <2> HIDE DEF j
  <2> QED  BY <1>1, <1>3, <2>2, <2>3 DEF Transfers
<1>4. Transfers(k)
  BY <1>1, <1>2, <1>3, CompleteTransfers DEF Transfers
<1> QED  BY <1>1, <1>4, TransfersData

\* The rows of a finished batch: their ids are among those of the batch, in order.
LEMMA BatchRows ==
  ASSUME DataInv, phase = "sending", \A k \in DOMAIN batch : job[k].at = "done"
  PROVE  LET rows == Matching(Results)
         IN /\ IsSequence(rows)
            /\ \A i, j \in 1..Len(rows) : i < j => rows[i].source_id < rows[j].source_id
            /\ \A i \in 1..Len(rows) : \E k \in DOMAIN batch :
                  rows[i].source_id = batch[k].id /\ rows[i].meta = batch[k].request.meta
<1> DEFINE rows == Matching(Results)
<1>1. /\ Len(batch) \in Nat /\ DOMAIN batch = 1..Len(batch) /\ DOMAIN job = DOMAIN batch
      /\ \A k \in DOMAIN batch : batch[k].id \in Nat
  BY BatchTasks DEF DataInv, ControlInv
<1>2. DOMAIN Results = 1..Len(batch)
  BY <1>1 DEF Results
<1>3. PICK at : Selects(rows, Results, Len(batch), at)
  BY <1>1, <1>2, MatchingSelects DEF Selected
<1>4. \A k \in DOMAIN batch : /\ Results[k].source_id = batch[k].id
                            /\ Results[k].meta = batch[k].request.meta
  BY <1>1 DEF DataInv, ResultInv, Results
<1> HIDE DEF rows
<1>5. /\ IsSequence(rows) /\ at \in [1..Len(rows) -> 1..Len(batch)]
      /\ \A i, j \in 1..Len(rows) : i < j => at[i] < at[j]
      /\ \A i \in 1..Len(rows) : rows[i] = Results[at[i]]
  BY <1>3 DEF Selects
<1>6. \A i \in 1..Len(rows) : /\ at[i] \in DOMAIN batch
                             /\ rows[i].source_id = batch[at[i]].id
                             /\ rows[i].meta = batch[at[i]].request.meta
  BY <1>1, <1>4, <1>5
<1>7. ASSUME NEW i \in 1..Len(rows), NEW j \in 1..Len(rows), i < j
      PROVE  rows[i].source_id < rows[j].source_id
  <2>1. at[i] < at[j] /\ at[i] \in DOMAIN batch /\ at[j] \in DOMAIN batch
    BY <1>5, <1>6, <1>7
  <2>2. batch[at[i]].id < batch[at[j]].id
    BY <2>1 DEF DataInv, BatchInv
  <2> QED  BY <1>6, <2>2
<1>8. \A i \in 1..Len(rows) : \E k \in DOMAIN batch :
          rows[i].source_id = batch[k].id /\ rows[i].meta = batch[k].request.meta
  BY <1>6
<1> QED  BY <1>5, <1>7, <1>8 DEF rows

LEMMA FinishBatchData ==
  ASSUME DataInv, FinishBatch
  PROVE  DataInv'
<1> DEFINE rows == Matching(Results)
<1>1. /\ phase = "sending" /\ (\A k \in DOMAIN batch : job[k].at = "done")
      /\ out' = out \o rows /\ matched' = matched + Len(rows)
      /\ metrics' \in Merged(metrics, BatchStats(Results))
      /\ batch' = <<>> /\ job' = <<>> /\ phase' = "reading"
      /\ UNCHANGED <<campaign, line, built, skipped, asked>>
  BY DEF FinishBatch
<1>2. Rows' = Rows /\ config' = config /\ Source(campaign)' = Source(campaign)
  BY <1>1 DEF Rows, config
<1>3. ControlInv /\ campaign \in DOMAIN Campaigns
  BY DEF DataInv, ControlInv
<1>4. /\ IsSequence(rows)
      /\ \A i, j \in 1..Len(rows) : i < j => rows[i].source_id < rows[j].source_id
      /\ \A i \in 1..Len(rows) : \E k \in DOMAIN batch :
             rows[i].source_id = batch[k].id /\ rows[i].meta = batch[k].request.meta
  BY <1>1, BatchRows
<1>5. /\ Len(batch) \in Nat /\ DOMAIN batch = 1..Len(batch) /\ DOMAIN Results = 1..Len(batch)
      /\ \A k \in DOMAIN batch : batch[k].id \in Nat /\ batch[k].request \in PreparedOf(campaign)
  BY <1>3, BatchTasks DEF Results
<1>6. CountInv'
  <2>1. IsSequence(Results) /\ Len(Results) = Len(batch)
    BY <1>5, FunctionIsSequence DEF Results
  <2>2. Len(rows) \in Nat
    BY <1>4, SequenceIs
  <2>3. /\ BatchStats(Results).total = Len(Results) /\ BatchStats(Results).matched = Len(rows)
        /\ IsSequence(BatchStats(Results).latencies)
    BY <2>1, SampleIsSequence DEF BatchStats
  <2>4. AreCollectors(Merged(metrics, BatchStats(Results)))
    <3>1. IsCollector(metrics)
      BY DEF DataInv, CountInv
    <3> DEFINE stats == BatchStats(Results)
    <3>2. {stats.total, stats.matched} \subseteq Nat /\ IsSequence(stats.latencies)
      BY <1>5, <2>1, <2>2, <2>3
    <3> HIDE DEF stats
    <3>3. AreCollectors(Merged(metrics, stats))
      BY <3>1, <3>2, MergedCollectors
    <3> QED  BY <3>3 DEF stats
  <2>5. IsCollector(metrics')
    BY <1>1, <2>4 DEF AreCollectors
  <2>6. matched \in Nat
    BY DEF DataInv, CountInv
  <2> QED  BY <1>1, <2>2, <2>5, <2>6 DEF CountInv
<1> HIDE DEF rows
<1>7. ControlInv'
  BY <1>1, <1>2, <1>3, EmptySequence, ConfigIs DEF ControlInv, config
<1>8. BatchInv' /\ ResultInv' /\ AskedInv'
  BY <1>1 DEF DataInv, BatchInv, ResultInv, AskedInv
<1>9. OutInv'
  <2> DEFINE n == Len(out)
             m == Len(rows)
  <2>1. /\ n \in Nat /\ m \in Nat /\ DOMAIN out = 1..n /\ built \in Nat
    BY <1>3, <1>4, SequenceIs, FirstRowIs DEF DataInv, OutInv, ControlInv, Rows
  <2>2. /\ IsSequence(out') /\ DOMAIN out' = 1..n + m
        /\ \A i \in 1..n : out'[i] = out[i]
        /\ \A i \in 1..m : out'[n + i] = rows[i]
    BY <1>1, <1>4, Joined DEF DataInv, OutInv
  <2>3. ASSUME NEW i \in 1..n
        PROVE  /\ out[i].source_id \in Nat /\ out[i].source_id < built
               /\ \A k \in DOMAIN batch : out[i].source_id < batch[k].id
    BY <2>1 DEF DataInv, OutInv
  <2>4. ASSUME NEW i \in 1..m
        PROVE  /\ rows[i].source_id \in Nat /\ rows[i].source_id < built
               /\ \A l \in 1..n : out[l].source_id < rows[i].source_id
               /\ Authorized(config, rows[i].meta)
    <3>1. PICK k \in DOMAIN batch : rows[i].source_id = batch[k].id
                                   /\ rows[i].meta = batch[k].request.meta
      BY <1>4
    <3>2. batch[k].id < built
      BY DEF DataInv, BatchInv
    <3>3. Authorized(config, batch[k].request.meta)
      BY <1>3, <1>5, PreparedRequest DEF config
    <3> QED  BY <1>5, <2>3, <3>1, <3>2, <3>3
  <2> HIDE DEF n, m
  <2>5. \A i \in 1..n + m : i \in 1..n \/ \E l \in 1..m : i = n + l
    <3> SUFFICES ASSUME NEW i \in 1..n + m, i \notin 1..n PROVE i - n \in 1..m /\ i = n + (i - n)
      OBVIOUS
    <3> QED  BY <2>1
  <2>6. \A i \in 1..n + m : out'[i].source_id \in Nat /\ out'[i].source_id < built
    BY <2>2, <2>3, <2>4, <2>5
  <2>7. ASSUME NEW i \in 1..n + m, NEW j \in 1..n + m, i < j
        PROVE  out'[i].source_id < out'[j].source_id
    <3>1. CASE j \in 1..n
      <4>1. i \in 1..n
        BY <2>1, <2>7, <3>1
      <4> QED  BY <2>1, <2>2, <2>7, <3>1, <4>1 DEF DataInv, OutInv, IdsInOrder
    <3>2. ASSUME NEW l \in 1..m, j = n + l, i \in 1..n PROVE out'[i].source_id < out'[j].source_id
      BY <2>2, <2>4, <3>2
    <3>3. ASSUME NEW l \in 1..m, j = n + l, NEW h \in 1..m, i = n + h
          PROVE  out'[i].source_id < out'[j].source_id
      <4>1. h < l
        BY <2>1, <2>7, <3>3
      <4>2. rows[h].source_id < rows[l].source_id
        BY <1>4, <4>1 DEF m
      <4> QED  BY <2>2, <3>3, <4>2
    <3> QED  BY <2>5, <3>1, <3>2, <3>3
  <2>8. IdsInOrder'
    BY <2>2, <2>7 DEF IdsInOrder
  <2>9. AuthorizationNoted'
    <3>1. \A i \in 1..n : Authorized(config, out[i].meta)
      BY <2>1 DEF DataInv, OutInv, AuthorizationNoted, Authorized
    <3>2. \A i \in 1..n + m : Authorized(config, out'[i].meta)
      BY <2>2, <2>4, <2>5, <3>1
    <3> QED  BY <1>2, <2>2, <3>2 DEF AuthorizationNoted, Authorized
  <2> QED  BY <1>1, <2>2, <2>6, <2>8, <2>9, EmptySequence DEF OutInv
<1> QED  BY <1>6, <1>7, <1>8, <1>9 DEF DataInv

LEMMA ReturnExportData ==
  ASSUME DataInv, Return \/ Export
  PROVE  DataInv'
<1>1. /\ phase' \in {phase, "returned"}
      /\ UNCHANGED <<campaign, line, built, skipped, batch, job, metrics, matched, out, asked>>
  BY DEF Return, Export
<1>2. Rows' = Rows /\ config' = config /\ Source(campaign)' = Source(campaign)
  BY <1>1 DEF Rows, config
<1>3. ControlInv' /\ ResultInv'
  BY <1>1, <1>2 DEF DataInv, ControlInv, ResultInv
<1> QED  BY <1>1, <1>2, <1>3
         DEF DataInv, BatchInv, OutInv, IdsInOrder, AuthorizationNoted, AskedInv, CountInv

LEMMA StutterData ==
  ASSUME DataInv, UNCHANGED vars
  PROVE  DataInv'
<1>1. UNCHANGED <<campaign, phase, line, built, skipped, batch, job, metrics, matched, out, asked>>
  BY DEF vars
<1>2. Rows' = Rows /\ config' = config /\ Source(campaign)' = Source(campaign)
  BY <1>1 DEF Rows, config
<1> QED  BY <1>1, <1>2
         DEF DataInv, ControlInv, ResultInv, BatchInv, OutInv, IdsInOrder, AuthorizationNoted, AskedInv,
             CountInv

LEMMA DataInvariant == Spec => []DataInv
<1>1. Init => DataInv
  BY InitData
<1>2. DataInv /\ [Next]_vars => DataInv'
  BY ReadRowData, RunBatchData, SendData, ReceiveData, FinishBatchData, ReturnExportData,
     StutterData DEF Next
<1> QED  BY <1>1, <1>2, PTL DEF Spec

-----------------------------------------------------------------------------
(* The theorems *)

\* The state is of its type whatever the campaign and the servers.
THEOREM TypeCorrect == Spec => []TypeOK
<1>1. DataInv => TypeOK
  <2> SUFFICES ASSUME DataInv PROVE TypeOK
    OBVIOUS
  <2>1. ControlInv /\ campaign \in DOMAIN Campaigns
    BY DEF DataInv, ControlInv
  <2>2. Len(Rows) \in Nat /\ FirstRow(Source(campaign)) \in {1, 2}
    BY <2>1, FirstRowIs DEF Rows
  <2>3. built \in 0..Len(Rows)
    BY <2>1, <2>2 DEF ControlInv
  <2>4. \A k \in DOMAIN batch : batch[k].id < built /\ ValidRequest(batch[k].request)
    BY <2>1, BatchTasks, PreparedRequest DEF DataInv, BatchInv
  <2>5. {matched, metrics.total, metrics.seen} \subseteq Nat /\ Len(metrics.latencies) <= ReservoirSize
    BY SampleAssumption DEF DataInv, CountInv, IsCollector
  <2> QED  BY <2>1, <2>3, <2>4, <2>5 DEF TypeOK, ControlInv
<1> QED  BY <1>1, DataInvariant, PTL

\* Ids grow along the output (IdsInOrder): the transfers of a batch end in any
\* order, and run_batch returns their results in the order of the tasks.
THEOREM OutputInOrder == Spec => []IdsInOrder
<1>1. DataInv => IdsInOrder
  BY DEF DataInv, OutInv
<1> QED  BY <1>1, DataInvariant, PTL

\* Every row written bears the authorization (AuthorizationNoted), and not a value
\* of that name that came with a row.
THEOREM AuthorizationKept == Spec => []AuthorizationNoted
<1>1. DataInv => AuthorizationNoted
  BY DEF DataInv, OutInv
<1> QED  BY <1>1, DataInvariant, PTL

\* No row makes a request of a host that ComplianceFilter denies (OnlyAllowedAsked).
THEOREM DeniedNeverAsked == Spec => []OnlyAllowedAsked
<1>1. DataInv => OnlyAllowedAsked
  <2> SUFFICES ASSUME DataInv, NEW a \in asked PROVE Domains(config, a.url)
    BY DEF OnlyAllowedAsked, Domains
  <2>1. campaign \in DOMAIN Campaigns
    BY DEF DataInv, ControlInv
  <2>2. PICK p \in PreparedOf(campaign) : a.url = p.url
    BY DEF DataInv, AskedInv
  <2> QED  BY <2>1, <2>2, PreparedRequest DEF config
<1> QED  BY <1>1, DataInvariant, PTL

\* Every request made of a row identifies itself (IdentitySent).
THEOREM AlwaysIdentified == Spec => []IdentitySent
<1>1. DataInv => IdentitySent
  <2> SUFFICES ASSUME DataInv, NEW a \in asked
               PROVE  \E r \in RequestsOf(campaign) : a.url = r.url /\ Identified(config, r.headers, a.headers)
    BY DEF IdentitySent, Identified
  <2>1. campaign \in DOMAIN Campaigns
    BY DEF DataInv, ControlInv
  <2>2. PICK p \in PreparedOf(campaign) : a.url = p.url /\ a.headers = p.headers
    BY DEF DataInv, AskedInv
  <2> QED  BY <2>1, <2>2, PreparedRequest DEF config
<1> QED  BY <1>1, DataInvariant, PTL
=============================================================================
