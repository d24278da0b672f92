------------------------------ MODULE Sources ------------------------------
(***************************************************************************)
(* What the sources make of their rows (sources/csv.py, json.py, text.py,  *)
(* memory.py): a request, nothing, or an exception.  BaseSource numbers    *)
(* the requests, not the rows.                                             *)
(***************************************************************************)
EXTENDS Requests, FiniteSets

CONSTANT Skipped   \* no request comes of the row

IsSequence(s) == s \in Seq(ToSet(s))

WellFormed(source) ==
    /\ source.kind \in {"csv", "jsonl", "text", "memory"}
    /\ IsSequence(source.rows)
    /\ source.kind = "csv" => IsSequence(source.mapping) /\ IsSequence(source.keep)
    /\ source.kind = "jsonl" =>
           \A line \in ToSet(source.rows) : line.kind = "object" =>
               /\ IsSequence(line.fields)
               /\ \A field \in ToSet(line.fields) : IsFiniteSet(DOMAIN field.value.entries)

\* The header row of a delimited file is read before the first row.
Header(source) ==
    IF source.kind = "csv" /\ source.has_header /\ source.rows # <<>> THEN Head(source.rows) ELSE Unset

FirstRow(source) == IF Header(source) = Unset THEN 1 ELSE 2

ColumnName(source, idx) ==
    IF Header(source) = Unset THEN <<"col0", "col1", "col2", "col3">>[idx + 1]
    ELSE Header(source)[idx + 1]

\* row[idx] or header[idx] raises IndexError.
TooShort(source, row) ==
    \/ \E a \in DOMAIN source.mapping : source.mapping[a].column >= Len(row)
    \/ \E idx \in ToSet(source.keep) :
          idx >= Len(row) \/ (Header(source) # Unset /\ idx >= Len(Header(source)))

CsvFields(source, row) ==
    [a \in DOMAIN source.mapping |->
        [key |-> source.mapping[a].key, value |-> Text(row[source.mapping[a].column + 1])]]

WithColumn(meta, kept) == Updated(meta, kept.name, kept.value)

CsvMeta(source, row) ==
    FoldLeft(WithColumn, <<>>,
             [a \in DOMAIN source.keep |-> [name  |-> ColumnName(source, source.keep[a]),
                                            value |-> row[source.keep[a] + 1]]])

HasUrl(fields) == \E a \in DOMAIN fields : fields[a].key = "url" /\ fields[a].value # Text("")

CsvRequest(source, row) ==
    IF row = <<>> \/ TooShort(source, row) THEN Skipped
    ELSE IF ~HasUrl(CsvFields(source, row)) THEN Skipped
    ELSE BuildRequest(CsvFields(source, row), CsvMeta(source, row))

\* A line is blank, an object, or JSON of another kind, or none at all.
JsonRequest(line) ==
    IF line.kind = "blank" THEN Skipped
    ELSE IF line.kind = "object" THEN BuildRequest(line.fields, <<>>)
    ELSE Invalid

UrlRequest(url) == BuildRequest(<<[key |-> "url", value |-> Text(url)]>>, <<>>)

\* A stripped line; of the items in memory the ones that are URLs.
TextRequest(line) == IF line = "" THEN Skipped ELSE UrlRequest(line)

RequestFrom(source, row) ==
    CASE source.kind = "csv"    -> CsvRequest(source, row)
      [] source.kind = "jsonl"  -> JsonRequest(row)
      [] source.kind = "text"   -> TextRequest(row)
      [] source.kind = "memory" -> UrlRequest(row)
=============================================================================
