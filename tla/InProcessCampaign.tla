------------------------- MODULE InProcessCampaign -------------------------
(***************************************************************************)
(* A campaign run by Engine.run with the in-process executor, started      *)
(* again after every crash: engine/core.py (run, _resume),                 *)
(* engine/executor.py, sinks/ndjson.py and the checkpoint store.           *)
(*                                                                         *)
(* Chunks are numbered from 0 in source order, as enumerate() numbers the  *)
(* batches.  Running a batch is one step here: its result is the number of *)
(* matched rows, which may differ when a chunk is replayed.                *)
(***************************************************************************)
EXTENDS CheckpointManifest, FiniteSets

CONSTANTS
    NumChunks,         \* batches the (filtered) source yields
    MaxMatched,        \* bound: matched results of one batch
    FlushRows,         \* the sink's flush_bytes, in rows
    MaxRuns,           \* bound: times the campaign is started
    PartialWrites,     \* how a crash may cut a manifest append
    ManifestInOutDir,  \* the checkpoint file lies inside out_dir
    OutputFile,        \* "worker-inproc.ndjson"
    Torn               \* a result line cut short by a crash

ASSUME NumChunksAssumption  == NumChunks \in Nat
ASSUME MaxMatchedAssumption == MaxMatched \in Nat
ASSUME FlushRowsAssumption  == FlushRows \in Nat \ {0}
ASSUME MaxRunsAssumption    == MaxRuns \in Nat
ASSUME PartialAssumption    == PartialWrites \subseteq {"torn", "unterminated"}
ASSUME ManifestAssumption   == ManifestInOutDir \in BOOLEAN

Chunk == 0 .. NumChunks - 1

Row(c, r) == [chunk |-> c, row |-> r]
RowCell   == [chunk : Nat, row : Nat]
Cell      == RowCell \cup {Torn, Hole}

ASSUME CellAssumption == Torn \notin RowCell /\ Hole \notin RowCell

VARIABLES
    manifest,   \* the checkpoint file
    file,       \* the output file's content, as the operating system sees it
    synced,     \* how much of the output file has reached the disk
    pc,         \* what the engine is doing
    committed,  \* Engine.run's set of chunks to skip
    next,       \* the chunk enumerate() yields next
    chunk,      \* the batch being run
    matched,    \* its number of matched results
    written,    \* how many of them were handed to the sink
    buffer,     \* the sink's buffer
    offset,     \* the offset the sink's last commit returned
    counter,    \* Engine.run's counter
    runs,       \* times the campaign was started
    leftover    \* history: cells found in the file by a run that, finding
                \* nothing committed, did not truncate it

engineVars == <<committed, next, chunk, matched, written, buffer, offset, counter>>
vars == <<manifest, file, synced, pc, engineVars, runs, leftover>>

Running == {"pull", "run", "write", "control"}

-----------------------------------------------------------------------------
(* Starting and resuming *)

Init ==
    /\ manifest = EmptyManifest
    /\ file = <<>>
    /\ synced = 0
    /\ pc = "down"
    /\ committed = {}
    /\ next = 0
    /\ chunk = 0
    /\ matched = 0
    /\ written = 0
    /\ buffer = <<>>
    /\ offset = 0
    /\ counter = [matched |-> 0, chunks |-> 0]
    /\ runs = 0
    /\ leftover = 0

\* (An operator named "..._Mutant" is a plausible mistake in the definition that
\* follows it; no specification uses it.)
FreshCounter_Mutant == counter
FreshCounter == [matched |-> 0, chunks |-> 0]

ResumeOffset_Mutant == Len(file)
ResumeOffset == CommittedOffset(manifest, OutputFile)

ManifestAfterResume_Mutant == EmptyManifest
ManifestAfterResume == IF ManifestInOutDir THEN EmptyManifest ELSE manifest

\* Engine._resume when the manifest has no committed chunk: it returns before
\* it would truncate anything.
KeepOutput ==
    /\ CommittedIds(manifest) = {}
    /\ leftover' = Len(file)
    /\ UNCHANGED <<manifest, file, synced>>

\* Engine._resume otherwise: every file of out_dir is cut to its committed
\* offset, to 0 for a file no committed line names.
TruncateOutput ==
    /\ CommittedIds(manifest) # {}
    /\ file' = TruncateTo(file, ResumeOffset)
    /\ synced' = IF synced < Len(file') THEN synced ELSE Len(file')
    /\ manifest' = ManifestAfterResume
    /\ UNCHANGED leftover

Start ==
    /\ pc \in {"down", "done"}
    /\ runs < MaxRuns
    /\ KeepOutput \/ TruncateOutput
    /\ pc' = "pull"
    /\ committed' = CommittedIds(manifest)
    /\ next' = 0
    /\ buffer' = <<>>
    /\ counter' = FreshCounter
    /\ runs' = runs + 1
    /\ UNCHANGED <<chunk, matched, written, offset>>

-----------------------------------------------------------------------------
(* One run: pull a batch, run it, write its rows, commit, checkpoint *)

SourceYields_Mutant(c) == c \in 0..NumChunks
SourceYields(c) == c \in Chunk

ToSkip_Mutant(c) == FALSE
ToSkip(c) == c \in committed

AfterSkipped_Mutant(c) == c
AfterSkipped(c) == c + 1

Skip ==
    /\ pc = "pull"
    /\ SourceYields(next)
    /\ ToSkip(next)
    /\ next' = AfterSkipped(next)
    /\ UNCHANGED <<manifest, file, synced, pc, committed, chunk, matched, written,
                   buffer, offset, counter, runs, leftover>>

Distribute ==
    /\ pc = "pull"
    /\ SourceYields(next)
    /\ ~ToSkip(next)
    /\ manifest' = AppendEntry(manifest, Distributed(next))
    /\ chunk' = next
    /\ next' = next + 1
    /\ pc' = "run"
    /\ UNCHANGED <<file, synced, committed, matched, written, buffer, offset, counter,
                   runs, leftover>>

RunBatch ==
    /\ pc = "run"
    /\ matched' \in 0..MaxMatched
    /\ written' = 0
    /\ pc' = "write"
    /\ UNCHANGED <<manifest, file, synced, committed, next, chunk, buffer, offset,
                   counter, runs, leftover>>

\* NdjsonWorkerSink.write: buffered, and flushed once the buffer is full.
WriteRow ==
    /\ pc = "write"
    /\ written < matched
    /\ written' = written + 1
    /\ LET rows == Append(buffer, Row(chunk, written + 1))
       IN IF Len(rows) >= FlushRows
          THEN file' = file \o rows /\ buffer' = <<>>
          ELSE file' = file /\ buffer' = rows
    /\ UNCHANGED <<manifest, synced, pc, committed, next, chunk, matched, offset,
                   counter, runs, leftover>>

\* NdjsonWorkerSink.commit: flush, fsync, tell.
SyncedBy_Mutant(cells) == synced
SyncedBy(cells) == Len(cells)

Tell_Mutant(cells) == Len(file)
Tell(cells) == Len(cells)

CommitSink ==
    /\ pc = "write"
    /\ written = matched
    /\ file' = file \o buffer
    /\ buffer' = <<>>
    /\ synced' = SyncedBy(file')
    /\ offset' = Tell(file')
    /\ pc' = "control"
    /\ UNCHANGED <<manifest, committed, next, chunk, matched, written, counter, runs,
                   leftover>>

\* on_control, with the entry CheckpointStore.commit_chunk appends.
OnControl ==
    /\ pc = "control"
    /\ counter' = [matched |-> counter.matched + matched, chunks |-> counter.chunks + 1]
    /\ manifest' = AppendEntry(manifest, Committed(chunk, OutputFile, offset, matched))
    /\ pc' = "pull"
    /\ UNCHANGED <<file, synced, committed, next, chunk, matched, written, buffer,
                   offset, runs, leftover>>

\* The batches are exhausted: the sink and the store are closed.
Finish ==
    /\ pc = "pull"
    /\ next = NumChunks
    /\ file' = file \o buffer
    /\ buffer' = <<>>
    /\ pc' = "done"
    /\ UNCHANGED <<manifest, synced, committed, next, chunk, matched, written, offset,
                   counter, runs, leftover>>

-----------------------------------------------------------------------------
(* Interruptions.  None comes in the last run, so that it may finish. *)

\* An exception (or Ctrl-C): the finally blocks close the sink, which writes
\* its buffer out, and the store.
Fail ==
    /\ pc \in Running
    /\ runs < MaxRuns
    /\ file' = file \o buffer
    /\ buffer' = <<>>
    /\ pc' = "down"
    /\ UNCHANGED <<manifest, synced, committed, next, chunk, matched, written, offset,
                   counter, runs, leftover>>

\* Any prefix of what was written survives that contains what was synced,
\* possibly with a result line cut short after it.
SurvivingOutputs(cells) ==
    LET Prefix(n) == SubSeq(cells, 1, n)
    IN {Prefix(n) : n \in synced..Len(cells)}
       \cup {Append(Prefix(n), Torn) : n \in synced..(Len(cells) - 1)}

\* The entry the next append to the manifest writes, if an append is next.
EntryUnderway ==
    {e \in {Distributed(next)} : pc = "pull" /\ SourceYields(next) /\ ~ToSkip(next)}
    \cup {e \in {Committed(chunk, OutputFile, offset, matched)} : pc = "control"}

\* A crash between two appends leaves the manifest alone; one inside an append
\* may leave a part of the line.
SurvivingManifests ==
    {manifest} \cup {PartialAppend(manifest, e, cut) : e \in EntryUnderway,
                                                      cut \in PartialWrites}

\* The process is killed or the machine stops; also while no run is active.
Crash ==
    /\ runs \in 1..(MaxRuns - 1)
    /\ file' \in SurvivingOutputs(file \o buffer)
    /\ manifest' \in SurvivingManifests
    /\ buffer' = <<>>
    /\ pc' = "down"
    /\ UNCHANGED <<synced, committed, next, chunk, matched, written, offset, counter,
                   runs, leftover>>

-----------------------------------------------------------------------------
Step == Skip \/ Distribute \/ RunBatch \/ WriteRow \/ CommitSink \/ OnControl \/ Finish

Next == Start \/ Step \/ Fail \/ Crash

\* The process runs as long as it is alive, and is started again as long as
\* starts are left.
Spec == Init /\ [][Next]_vars /\ WF_vars(Start) /\ WF_vars(Step)

-----------------------------------------------------------------------------
(* Properties *)

Entry == Entries(Chunk, {OutputFile}, 0..MaxMatched)

TypeOK ==
    /\ manifest \in Manifests(Entry)
    /\ file \in Seq(Cell)
    /\ synced \in 0..Len(file)
    /\ pc \in {"down", "done"} \cup Running
    /\ committed \subseteq Chunk
    /\ next \in 0..NumChunks
    /\ chunk \in Nat /\ (pc \in Running \ {"pull"} => chunk \in Chunk)
    /\ matched \in 0..MaxMatched
    /\ written \in 0..MaxMatched
    /\ buffer \in Seq(RowCell)
    /\ offset \in Nat
    /\ counter \in [matched : Nat, chunks : Nat]
    /\ runs \in 0..MaxRuns
    /\ leftover \in Nat

\* Where the output a later run relies on ends.
DurableEnd == CommittedOffset(manifest, OutputFile)

\* A checkpoint never runs ahead of the output it speaks for: whatever a crash
\* takes away, every committed offset lies in the part of the file that was
\* synced (CheckpointStore: "output is made durable before the checkpoint
\* advances").
CommittedDurable == \A e \in Commits(manifest) : e.offset <= synced

\* Each committed line is followed back to its rows: the count cells before its
\* offset are the rows of its chunk, in order, however often the campaign was
\* cut down and truncated since (TUTORIAL section 12, "exactly-once at the batch
\* grain").
CommittedIntact ==
    \A e \in Commits(manifest) :
        /\ e.count <= e.offset /\ e.offset <= Len(file)
        /\ \A r \in 1..e.count : file[e.offset - e.count + r] = Row(e.chunk, r)

\* A campaign that ends has every chunk committed and, beyond the cells that
\* runs with nothing committed left in the file, holds complete rows only, none
\* of them twice.
ExactlyOnce ==
    pc = "done" =>
        /\ CommittedIds(manifest) = Chunk
        /\ \A p \in leftover + 1..Len(file) :
              /\ file[p] \in RowCell
              /\ \A q \in 1..p - 1 : q > leftover => file[q] # file[p]

\* The same of the whole file: what README says ("a crash never loses committed
\* data or double-counts it").
NoRowTwice ==
    pc = "done" =>
        \A p \in 1..Len(file) : \A q \in 1..p - 1 : file[q] # file[p]

\* RunSummary counts what this run added to the manifest, neither what earlier
\* runs committed nor a batch twice.
SummaryExact ==
    pc \in Running \cup {"done"} =>
        LET added == {e \in Commits(manifest) : e.chunk \notin committed}
        IN /\ counter.chunks = Cardinality(added)
           /\ counter.matched = Cardinality(UNION {{e.chunk} \X (1..e.count) : e \in added})

\* A committed chunk is never forgotten, run again, or given other rows: no
\* step, a crash or a resume included, changes what the manifest says of it
\* (CheckpointStore: "Append-only manifest").
CommittedForever == [][Commits(manifest) \subseteq Commits(manifest)']_vars

\* The output as its reader sees it: what lies beyond the leftovers, up to the last
\* committed offset, and to the end of the file once a run is done; a row counts
\* as often as it is there.
VisibleCells == leftover + 1..(IF pc = "done" THEN Len(file) ELSE DurableEnd)
VisibleRows ==
    [row \in {file[i] : i \in VisibleCells} |->
        Cardinality({i \in VisibleCells : file[i] = row})]

Promised == INSTANCE ExactlyOnceOutput WITH
    committed <- CommittedIds(manifest),
    output    <- VisibleRows,
    finished  <- pc = "done"

\* Every behaviour of the engine, with its crashes, failures and resumes, is
\* one the reader of the output was promised: the rows of a chunk appear all at
\* once when its manifest line is written, and neither a truncation nor the end
\* of a run adds, drops or repeats a row.
KeepsPromise == Promised!Spec

\* If some run is left alone, every chunk is committed in the end.
EventuallyAllCommitted == <>[](CommittedIds(manifest) = Chunk)

-----------------------------------------------------------------------------
(* Why they hold: the inductive invariant of a deployment that keeps its   *)
(* manifest out of out_dir and whose manifest lines are never cut exactly  *)
(* before their newline.                                                   *)

Deployment == ~ManifestInOutDir /\ PartialWrites \subseteq {"torn"}

\* Every committed line stands for a block of synced rows beyond the leftover
\* cells, the last one ends where a resume cuts, no chunk has two, and together
\* they leave no cell out.
Blocks ==
    LET line == manifest.lines
    IN /\ \A i \in CommitLines(manifest) :
             /\ leftover + line[i].count <= line[i].offset
             /\ line[i].offset <= DurableEnd
             /\ line[i].offset <= synced
             /\ \A r \in 1..line[i].count :
                   file[line[i].offset - line[i].count + r] = Row(line[i].chunk, r)
       /\ \A i, j \in CommitLines(manifest) : i # j => line[i].chunk # line[j].chunk
       /\ CommitLines(manifest) # {} =>
             \A p \in leftover + 1..DurableEnd :
                \E i \in CommitLines(manifest) :
                   p \in line[i].offset - line[i].count + 1..line[i].offset

\* Only a fragment can be an unterminated last line, and appending terminates it.
WholeTail ==
    /\ WholeLines(manifest)
    /\ pc \in {"run", "write", "control"} => manifest.terminated

\* What the engine skips or has been given so far is what the manifest says.
Progress ==
    /\ pc \in {"pull", "done"} =>
          CommittedIds(manifest) = committed \cup {c \in Chunk : c < next}
    /\ pc \in {"run", "write", "control"} =>
          /\ next = chunk + 1
          /\ chunk \notin committed
          /\ CommittedIds(manifest) = committed \cup {c \in Chunk : c < chunk}
    /\ pc = "done" => next = NumChunks

\* The file and the sink's buffer hold, after the committed part, the rows of the
\* current batch that were written, and nothing else.
Base == IF CommitLines(manifest) = {} THEN leftover ELSE DurableEnd

Batch ==
    /\ pc \in {"pull", "run", "done"} => Len(file) = Base /\ buffer = <<>>
    /\ pc = "write" =>
          /\ written <= matched
          /\ Len(file) + Len(buffer) = Base + written
          /\ \A r \in 1..written : (file \o buffer)[Base + r] = Row(chunk, r)
    /\ pc = "control" =>
          /\ buffer = <<>>
          /\ offset = Len(file) /\ synced = Len(file)
          /\ Len(file) = Base + matched
          /\ \A r \in 1..matched : file[Base + r] = Row(chunk, r)

IInv == TypeOK /\ Blocks /\ WholeTail /\ Progress /\ Batch
=============================================================================
