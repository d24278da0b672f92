----------------------------- MODULE MCDataPath -----------------------------
(***************************************************************************)
(* Small campaigns and replies for TLC.                                    *)
(***************************************************************************)
EXTENDS DataPath

MCNumeral == ("0" :> 0) @@ ("1" :> 1) @@ ("2" :> 2) @@ ("200" :> 200) @@ ("404" :> 404)
MCLowerCase == ("X-Contact" :> "x-contact") @@ ("True" :> "true") @@ ("GET" :> "get")

MCHostOf ==
    ("http://a.org/" :> <<"a", "org">>) @@ ("http://b.a.org/" :> <<"b", "a", "org">>) @@
    ("http://ba.org/" :> <<"ba", "org">>) @@ ("http://c.net/" :> <<"c", "net">>)

MCSpelling == ("login" :> <<1, 2>>) @@ ("admin" :> <<3>>) @@ ("" :> <<>>)

\* The bytes: 1 to 3 are text, 4 and 5 compressed text, 6 the start of a raw deflate
\* stream, 7 a trailer, 8 damaged, and brotli decodes 9 to such a deflate stream.
MCYields ==
    <<<<>>, <<>>, <<>>, <<1>>, <<2, 3>>, <<1>>, <<>>, <<>>, <<6, 5>>>>

MCFailing ==
    [d \in Decoders |-> {1, 2, 3, 8} \cup (IF d = "zlib" THEN {6} ELSE {})
                                    \cup (IF d = "br" THEN {} ELSE {9})]

MCJsonTexts == {<<1, 2, 3, 1>>}

Pair(key, value)    == [key |-> key, value |-> value]
Column(key, column) == [key |-> key, column |-> column]
Line(fields)        == [kind |-> "object", fields |-> fields]

\* A file with a header, a row that is too short, one without a URL and one of a
\* denied subdomain.
CsvRows ==
    [kind |-> "csv", has_header |-> TRUE, keep |-> <<2>>,
     mapping |-> <<Column("url", 0), Column("needle", 1)>>,
     rows |-> << <<"url", "needle", "authorization">>,
                 <<"http://ba.org/", "login", "x">>,
                 <<"http://b.a.org/", "login", "x">>,
                 <<"http://a.org/", "login">>,
                 <<"", "login", "x">>,
                 <<"http://c.net/", "admin", "y">> >>]

\* A row that switches an option on, and one whose option is not a Boolean.
BadRow ==
    [kind |-> "csv", has_header |-> FALSE, keep |-> <<>>,
     mapping |-> <<Column("url", 0), Column("fast_status", 1), Column("needle", 2)>>,
     rows |-> << <<"http://a.org/", "True", "">>, <<>>, <<"http://c.net/", "maybe", "admin">> >>]

JsonRows ==
    [kind |-> "jsonl",
     rows |-> << Line(<<Pair("url", Text("http://a.org/")), Pair("method", Text("GET")),
                        Pair("headers", Object("contacts", ("x-contact" :> "me") @@ ("X-Contact" :> "you"))),
                        Pair("expected_status", List("[200]", <<"200">>)),
                        Pair("status", Text("new"))>>),
                 [kind |-> "blank"],
                 Line(<<Pair("needles", List("words", <<"admin", "login">>)), Pair("stream_cut", Text("1")),
                        Pair("cut_on", Text("wire")), Pair("url", Text("http://c.net/")),
                        Pair("headers", Object("accepted", "Accept" :> "any")),
                        Pair("meta", Object("tags", "tag" :> "t"))>>),
                 Line(<<Pair("url", Text("http://a.org/")), Pair("http_version", Text("h3"))>>) >>]

OtherJson == [kind |-> "jsonl",
              rows |-> << Line(<<Pair("url", Text("http://a.org/"))>>), [kind |-> "other"] >>]

TextRows == [kind |-> "text", rows |-> << "http://b.a.org/", "", "http://ba.org/", "http://a.org/" >>]

Memory == [kind |-> "memory", rows |-> << "http://a.org/", "http://c.net/", "http://a.org/" >>]

Chunked(n) == [DefaultConfig EXCEPT !.chunk_size = n]
Cut(config_, threshold, on) ==
    [config_ EXCEPT !.defaults["stream_cut"] = threshold, !.defaults["cut_on"] = on]

Run(source, config_, needle, predicate) ==
    [source |-> source, config |-> config_, needle |-> needle, predicate |-> predicate,
     http3 |-> FALSE]

MCCampaigns ==
    << Run(CsvRows, [Cut(Chunked(2), 2, "decoded") EXCEPT
                         !.denylist = << <<"a", "org">> >>, !.authorization = "scope"], "", "none"),
       Run(JsonRows, [Chunked(2) EXCEPT
                         !.identity_header = [name |-> "X-Contact", value |-> "us"]], "", "none"),
       Run(TextRows, [Cut(Chunked(2), 2, "wire") EXCEPT
                         !.allowlist = << <<"a", "org">> >>,
                         !.denylist = << <<"b", "a", "org">>, <<"d", "net">> >>], "login", "none"),
       Run(Memory, Cut(Chunked(2), 3, "decoded"), "login", "none"),
       Run(Memory, Chunked(3), "", "data"),
       Run(Memory, Chunked(2), "admin", "none"),
       Run(BadRow, Chunked(1), "", "none"),
       Run(OtherJson, Chunked(1), "", "raises") >>

Reply(status, encoding, mime, chunks, elapsed) ==
    [refused |-> FALSE, breaks |-> FALSE, status |-> status, encoding |-> encoding, mime |-> mime,
     chunks |-> chunks, elapsed |-> elapsed]

MCReplies ==
    LET json == Reply(200, <<"gzip">>, "json", << <<4>>, <<5>>, <<4, 7>> >>, 1)
        text == Reply(404, <<"identity">>, "text", << <<3, 1>>, <<2>> >>, 2)
    IN {json, text,
        [json EXCEPT !.refused = TRUE, !.elapsed = 3],
        [text EXCEPT !.breaks = TRUE, !.elapsed = 3],
        [json EXCEPT !.encoding = <<"gzip", "compress">>],
        [json EXCEPT !.encoding = <<"deflate", "br">>, !.chunks = << <<9>>, <<7>> >>],
        [json EXCEPT !.chunks[3] = <<4, 8>>],
        [json EXCEPT !.encoding = <<"br", "identity">>, !.chunks[3] = <<4, 8>>, !.elapsed = 2]}
=============================================================================
