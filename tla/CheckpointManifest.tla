------------------------- MODULE CheckpointManifest -------------------------
(***************************************************************************)
(* The checkpoint manifest (checkpoint/store.py) and the resume plan       *)
(* (checkpoint/resume.py), as operators.  The manifest is a text file of   *)
(* one JSON entry per line; it is modelled as the sequence of its lines    *)
(* together with whether the last line already ends in a newline, because  *)
(* that is what an append after a crash depends on.                        *)
(*                                                                         *)
(* Output files are sequences of cells, one per result line: an offset     *)
(* counts cells where the code counts bytes.                               *)
(***************************************************************************)
EXTENDS Naturals, Sequences

CONSTANT Hole   \* what a file reads as in a gap that truncate() extended over

-----------------------------------------------------------------------------
(* Lines *)

Distributed(c) == [type |-> "distributed", chunk |-> c]

Committed(c, f, offset, count) ==
    [type |-> "committed", chunk |-> c, file |-> f, offset |-> offset, count |-> count]

\* A line no JSON parser accepts: a fragment, or two entries run together.
Junk == [type |-> "junk"]

\* Every line a manifest of these chunks, files and counts can have.
Entries(chunks, files, counts) ==
    {Distributed(c) : c \in chunks}
    \cup [type : {"committed"}, chunk : chunks, file : files, offset : Nat, count : counts]
    \cup {Junk}

Manifests(entries) == [lines : Seq(entries), terminated : BOOLEAN]

EmptyManifest == [lines |-> <<>>, terminated |-> TRUE]

\* The file is opened in append mode, so the bytes of an entry that follow an
\* unterminated last line become part of that line.
GlueTo(lines) == [lines EXCEPT ![Len(lines)] = Junk]

AppendEntry(m, e) ==
    [lines      |-> IF m.terminated THEN Append(m.lines, e) ELSE GlueTo(m.lines),
     terminated |-> TRUE]

\* What a crash in the middle of an append leaves: a fragment ("torn"), or the
\* whole entry without its newline ("unterminated").
PartialAppend(m, e, cut) ==
    [lines      |-> IF m.terminated
                    THEN Append(m.lines, IF cut = "torn" THEN Junk ELSE e)
                    ELSE GlueTo(m.lines),
     terminated |-> FALSE]

\* An unterminated last line, if there is one, is a fragment.
WholeLines(m) == ~m.terminated => m.lines # <<>> /\ m.lines[Len(m.lines)] = Junk

-----------------------------------------------------------------------------
(* CheckpointStore.load: lines that do not parse are skipped, and for each *)
(* worker file the last committed line wins.                               *)

CommitLines(m) == {i \in DOMAIN m.lines : m.lines[i].type = "committed"}

Commits(m) == {m.lines[i] : i \in CommitLines(m)}

CommittedIds(m) == {m.lines[i].chunk : i \in CommitLines(m)}

CommitLinesOf(m, f) == {i \in CommitLines(m) : m.lines[i].file = f}

LastCommitLine(m, f) ==
    CHOOSE i \in CommitLinesOf(m, f) : \A j \in CommitLinesOf(m, f) : j <= i

\* ResumePlan.truncations.get(file, 0)
CommittedOffset(m, f) ==
    IF CommitLinesOf(m, f) = {} THEN 0 ELSE m.lines[LastCommitLine(m, f)].offset

\* truncate_worker_files on one file: truncate() also extends a shorter file.
TruncateTo(cells, offset) ==
    [p \in 1..offset |-> IF p <= Len(cells) THEN cells[p] ELSE Hole]
=============================================================================
