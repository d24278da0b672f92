----------------------------- MODULE Evaluation -----------------------------
(***************************************************************************)
(* What is received of a body (net/curl.py), what can be decoded of it     *)
(* (decompress.py) and whether it matches (evaluate/).                     *)
(*                                                                         *)
(* A body arrives in chunks of bytes.  A byte of a compressed body stands  *)
(* for what the decoders come to with it, the bytes they yield: bytes of   *)
(* the text, or of a body with one coding less.  A decoder fails at some   *)
(* bytes: damaged ones, a wrong checksum, a stream of another format.      *)
(***************************************************************************)
EXTENDS Requests

CONSTANTS
    Spelling,    \* the bytes a needle consists of
    Yields,      \* of each byte, the bytes it decodes to
    Failing,     \* of each decoder, the bytes it fails at
    Piece,       \* _CHUNK: brotli and zstd are fed so many bytes at a time
    JsonTexts    \* the texts that orjson.loads accepts

Decoders     == {"gzip", "zlib", "raw", "br", "zstd"}
NoCoding     == {"", "identity"}
KnownCodings == {"gzip", "x-gzip", "deflate", "br", "zstd"} \cup NoCoding

WithChunk(bytes, chunk) == bytes \o chunk

BytesOf(chunks)    == FoldLeft(WithChunk, <<>>, chunks)
WireLength(chunks) == Len(BytesOf(chunks))

\* All that decoding bytes yields.
Yielded(bytes) == BytesOf([k \in DOMAIN bytes |-> Yields[bytes[k]]])

FirstFailure(decoder, bytes) == SelectInSeq(bytes, LAMBDA byte : byte \in Failing[decoder])

\* _inflate: all bytes in one call, and an error leaves nothing of it.
Inflated(decoder, bytes) ==
    IF FirstFailure(decoder, bytes) = 0 THEN Yielded(bytes) ELSE <<>>

\* _deflate: zlib-wrapped, or else raw.
Deflated(bytes) ==
    IF Inflated("zlib", bytes) # <<>> THEN Inflated("zlib", bytes) ELSE Inflated("raw", bytes)

\* _brotli, _zstd: an error loses the piece it is in, and what follows.
Pieced(decoder, bytes) ==
    LET failure == FirstFailure(decoder, bytes)
        intact  == IF failure = 0 THEN Len(bytes) ELSE ((failure - 1) \div Piece) * Piece
    IN Yielded(SubSeq(bytes, 1, intact))

Undone(bytes, coding) ==
    CASE coding \in NoCoding             -> bytes
      [] coding \in {"gzip", "x-gzip"}   -> Inflated("gzip", bytes)
      [] coding = "deflate"              -> Deflated(bytes)
      [] coding \in {"br", "zstd"}       -> Pieced(coding, bytes)

\* decompress_fragment: the codings are undone in reverse order, an unknown one
\* raises ValueError.
Decoded(encoding, chunks) ==
    IF ToSet(encoding) \subseteq KnownCodings
    THEN FoldLeft(Undone, BytesOf(chunks), Reverse(encoding))
    ELSE Invalid

-----------------------------------------------------------------------------
(* CurlTransport *)

\* _headers_for
AdvertisedCodings(resolved) ==
    IF \E h \in DOMAIN resolved.headers : Lower(h) = "accept-encoding" THEN "as given"
    ELSE IF resolved.overrides["accept_encoding"] = "identity" THEN "identity"
    ELSE "gzip, deflate, br, zstd"

\* Has Stream-Cut seen enough?  Decoding may raise an exception.
Reached_Mutant(resolved, encoding, chunks) ==
    IF resolved.overrides["cut_on"] = "decoded"
    THEN IF Decoded(encoding, chunks) = Invalid THEN Invalid
         ELSE Len(Decoded(encoding, chunks)) > resolved.overrides["stream_cut"]
    ELSE WireLength(chunks) > resolved.overrides["stream_cut"]

Reached(resolved, encoding, chunks) ==
    IF resolved.overrides["cut_on"] = "decoded"
    THEN IF Decoded(encoding, chunks) = Invalid THEN Invalid
         ELSE Len(Decoded(encoding, chunks)) >= resolved.overrides["stream_cut"]
    ELSE WireLength(chunks) >= resolved.overrides["stream_cut"]

\* A RawResponse.
Response_Mutant(reply, fragment) ==
    [status |-> reply.status, error |-> Unset, encoding |-> reply.encoding, mime |-> reply.mime,
     fragment |-> IF fragment = <<>> THEN fragment ELSE Front(fragment)]

Response(reply, fragment) ==
    [status |-> reply.status, error |-> Unset, encoding |-> reply.encoding, mime |-> reply.mime,
     fragment |-> fragment]

Failure(error) ==
    [status |-> Unset, error |-> error, encoding |-> <<>>, mime |-> "text", fragment |-> <<>>]

-----------------------------------------------------------------------------
(* evaluate *)

StatusMatches_Mutant(status, expected) == expected # Unset => status # Unset

StatusMatches(status, expected) ==
    expected # Unset => status # Unset /\ status \in expected

Occurs(needle, text) == Spelling[needle] \in SubSeqs(text)

\* The automaton of no needle but empty ones cannot be searched with.
NoAutomaton(needles) == \A k \in DOMAIN needles : Spelling[needles[k]] = <<>>

Search(needles, text) ==
    \E k \in DOMAIN needles : Spelling[needles[k]] # <<>> /\ Occurs(needles[k], text)

\* build_context: the type decides which payload there is, and a text that is no
\* JSON, being cut or damaged, has none.
Context(response, text) ==
    [type |-> response.mime, data |-> response.mime = "json" /\ text \in JsonTexts]

\* The predicates considered: none, one that wants the JSON, one that fails.
Predicates == {"none", "data", "raises"}

Judged(predicate, response, text) ==
    CASE predicate = "none"   -> TRUE
      [] predicate = "data"   -> Context(response, text).data
      [] predicate = "raises" -> Invalid

\* The conditions in their order, the first that fails ends it: TRUE, FALSE or an
\* exception.
Evaluated(resolved, predicate, response) ==
    LET text    == Decoded(response.encoding, response.fragment)
        needles == resolved.needles
    IN IF response.error # Unset THEN FALSE
       ELSE IF ~StatusMatches(response.status, resolved.expected) THEN FALSE
       ELSE IF text = Invalid THEN Invalid
       ELSE IF needles = <<>> THEN Judged(predicate, response, text)
       ELSE IF NoAutomaton(needles) THEN Invalid
       ELSE IF ~Search(needles, text) THEN FALSE
       ELSE Judged(predicate, response, text)
=============================================================================
