---------------------- MODULE InProcessCampaign_proofs ----------------------
(***************************************************************************)
(* Proofs about the in-process campaign, for any number of chunks, matched *)
(* rows, buffer size and restarts.                                         *)
(***************************************************************************)
EXTENDS InProcessCampaign, CheckpointManifest_proofs, FiniteSetTheorems

USE NumChunksAssumption, MaxMatchedAssumption, FlushRowsAssumption, MaxRunsAssumption

-----------------------------------------------------------------------------
(* Types *)

\* A committed line of a well-typed manifest has the fields of one.
LEMMA CommitLineType ==
  ASSUME NEW m \in Manifests(Entry), NEW i \in CommitLines(m)
  PROVE  /\ m.lines[i].chunk \in Chunk
         /\ m.lines[i].file = OutputFile
         /\ m.lines[i].offset \in Nat
         /\ m.lines[i].count \in 0..MaxMatched
<1>1. m.lines[i] \in Entry /\ m.lines[i].type = "committed"
  BY DEF CommitLines, Manifests
<1>2. m.lines[i] \in [type : {"committed"}, chunk : Chunk, file : {OutputFile},
                      offset : Nat, count : 0..MaxMatched]
  BY <1>1 DEF Entry, Entries, Distributed, Junk
<1> QED  BY <1>2

\* The offset a resume truncates to is that of a committed line, or 0.
LEMMA CommittedOffsetType ==
  ASSUME NEW m \in Manifests(Entry)
  PROVE  /\ CommitLinesOf(m, OutputFile) = CommitLines(m)
         /\ CommittedOffset(m, OutputFile) \in Nat
         /\ CommittedIds(m) \subseteq Chunk
         /\ CommitLines(m) # {} =>
               \E i \in CommitLines(m) : CommittedOffset(m, OutputFile) = m.lines[i].offset
<1>1. CommitLinesOf(m, OutputFile) = CommitLines(m)
  BY CommitLineType DEF CommitLinesOf
<1>2. CommittedIds(m) \subseteq Chunk
  BY CommitLineType DEF CommittedIds
<1>3. CASE CommitLines(m) = {}
  BY <1>1, <1>2, <1>3 DEF CommittedOffset
<1>4. CASE CommitLines(m) # {}
  <2>1. LastCommitLine(m, OutputFile) \in CommitLines(m)
    BY <1>1, <1>4, LastCommitIsLast
  <2> QED  BY <1>1, <1>2, <1>4, <2>1, CommitLineType DEF CommittedOffset
<1> QED  BY <1>3, <1>4

\* A truncated file has the length it was truncated to, and keeps its cells.
LEMMA TruncateToType ==
  ASSUME NEW s \in Seq(Cell), NEW n \in Nat
  PROVE  /\ TruncateTo(s, n) \in Seq(Cell)
         /\ Len(TruncateTo(s, n)) = n
         /\ \A p \in 1..n : p <= Len(s) => TruncateTo(s, n)[p] = s[p]
<1>1. TruncateTo(s, n) \in [1..n -> Cell]
  BY DEF TruncateTo, Cell
<1>2. TruncateTo(s, n) \in Seq(Cell) /\ Len(TruncateTo(s, n)) = n
  BY <1>1
<1> QED  BY <1>2 DEF TruncateTo

\* An entry, whole or cut, keeps a manifest well typed.
LEMMA AppendType ==
  ASSUME NEW m \in Manifests(Entry), NEW e \in Entry
  PROVE  /\ AppendEntry(m, e) \in Manifests(Entry)
         /\ \A cut \in {"torn", "unterminated"} :
               PartialAppend(m, e, cut) \in Manifests(Entry)
  BY AppendTyped DEF Entry, Entries

\* The entries the engine appends.
LEMMA EntryTypes ==
  /\ EmptyManifest \in Manifests(Entry)
  /\ \A c \in Chunk : Distributed(c) \in Entry
  /\ \A c \in Chunk, o \in Nat, n \in 0..MaxMatched : Committed(c, OutputFile, o, n) \in Entry
  BY DEF EmptyManifest, Manifests, Entry, Entries, Distributed, Committed

\* The first state is well typed.
LEMMA InitTypeOK == Init => TypeOK
<1> SUFFICES ASSUME Init PROVE TypeOK
  OBVIOUS
<1>1. manifest \in Manifests(Entry)
  BY EntryTypes DEF Init
<1> QED  BY <1>1 DEF Init, TypeOK, Running

\* A crash takes away no synced cell.
LEMMA SurvivorsKeepSynced ==
  ASSUME TypeOK, NEW s \in SurvivingOutputs(file \o buffer)
  PROVE  /\ s \in Seq(Cell)
         /\ synced \in 0..Len(s)
         /\ \A p \in 1..synced : s[p] = file[p]
<1> DEFINE cells == file \o buffer
<1>1. /\ cells \in Seq(Cell) /\ Len(cells) \in Nat
      /\ synced \in 0..Len(cells)
      /\ \A p \in 1..synced : cells[p] = file[p]
  BY ConcatProperties DEF TypeOK, Cell
<1> HIDE DEF cells
<1>2. PICK n \in synced..Len(cells) :
         s = SubSeq(cells, 1, n) \/ s = Append(SubSeq(cells, 1, n), Torn)
  <2>1. CASE s \in {SubSeq(cells, 1, n) : n \in synced..Len(cells)}
    BY <2>1
  <2>2. CASE s \in {Append(SubSeq(cells, 1, n), Torn) : n \in synced..(Len(cells) - 1)}
    <3>1. PICK k \in synced..(Len(cells) - 1) : s = Append(SubSeq(cells, 1, k), Torn)
      BY <2>2
    <3>2. k \in synced..Len(cells)
      BY <1>1
    <3> QED  BY <3>1, <3>2
  <2> QED  BY <2>1, <2>2 DEF SurvivingOutputs, cells
<1>3. /\ SubSeq(cells, 1, n) \in Seq(Cell)
      /\ Len(SubSeq(cells, 1, n)) = n
      /\ \A p \in 1..n : SubSeq(cells, 1, n)[p] = cells[p]
  <2>1. n \in Nat /\ \A i \in 1..n : cells[i] \in Cell
    BY <1>1, ElementOfSeq
  <2> QED  BY <2>1, SubSeqProperties
<1>4. CASE s = SubSeq(cells, 1, n)
  BY <1>1, <1>3, <1>4
<1>5. CASE s = Append(SubSeq(cells, 1, n), Torn)
  <2>1. Torn \in Cell
    BY DEF Cell
  <2> HIDE DEF Cell
  <2>2. /\ s \in Seq(Cell) /\ Len(s) = n + 1
        /\ \A p \in 1..n : s[p] = cells[p]
    BY <1>3, <1>5, <2>1, AppendProperties
  <2> QED  BY <1>1, <2>2
<1> QED  BY <1>2, <1>4, <1>5

\* Every step keeps the state well typed,
LEMMA NextTypeOK ==
  ASSUME TypeOK, Next
  PROVE  TypeOK'
<1> USE DEF TypeOK, Running
<1>1. CASE Start
  <2>1. ASSUME KeepOutput PROVE TypeOK'
    BY <1>1, <2>1, CommittedOffsetType DEF Start, KeepOutput, FreshCounter, Chunk
  <2>2. ASSUME TruncateOutput PROVE TypeOK'
    <3>1. file' \in Seq(Cell) /\ Len(file') \in Nat
      BY <2>2, CommittedOffsetType, TruncateToType DEF TruncateOutput, ResumeOffset
    <3>2. manifest' \in Manifests(Entry)
      BY <2>2, EntryTypes DEF TruncateOutput, ManifestAfterResume
    <3>3. synced' \in 0..Len(file')
      BY <2>2, <3>1 DEF TruncateOutput
    <3> QED
      BY <1>1, <2>2, <3>1, <3>2, <3>3, CommittedOffsetType
      DEF Start, TruncateOutput, FreshCounter, Chunk
  <2> QED  BY <1>1, <2>1, <2>2 DEF Start
<1>2. CASE Skip
  BY <1>2 DEF Skip, SourceYields, ToSkip, AfterSkipped, Chunk
<1>3. CASE Distribute
  <2>1. manifest' \in Manifests(Entry)
    BY <1>3, AppendType, EntryTypes DEF Distribute, SourceYields
  <2> QED  BY <1>3, <2>1 DEF Distribute, SourceYields, ToSkip, Chunk
<1>4. CASE RunBatch
  BY <1>4 DEF RunBatch
<1>5. CASE WriteRow
  <2>1. Append(buffer, Row(chunk, written + 1)) \in Seq(RowCell)
    BY <1>5 DEF WriteRow, Row, RowCell
  <2> DEFINE rows == Append(buffer, Row(chunk, written + 1))
  <2>2. /\ file \o rows \in Seq(Cell) /\ Len(file \o rows) = Len(file) + Len(rows)
        /\ Len(rows) \in Nat /\ Len(file) \in Nat
    BY <2>1, ConcatProperties DEF Cell
  <2>3. CASE Len(rows) >= FlushRows
    <3>1. file' = file \o rows /\ buffer' = <<>>
      BY <1>5, <2>3 DEF WriteRow
    <3> QED  BY <1>5, <2>2, <3>1 DEF WriteRow
  <2>4. CASE ~(Len(rows) >= FlushRows)
    <3>1. file' = file /\ buffer' = rows
      BY <1>5, <2>4 DEF WriteRow
    <3> QED  BY <1>5, <2>1, <3>1 DEF WriteRow
  <2> QED  BY <2>3, <2>4
<1>6. CASE CommitSink
  <2>1. file' \in Seq(Cell) /\ Len(file') \in Nat
    BY <1>6 DEF CommitSink, Cell
  <2> QED  BY <1>6, <2>1 DEF CommitSink, SyncedBy, Tell
<1>7. CASE OnControl
  <2>1. manifest' \in Manifests(Entry)
    BY <1>7, AppendType, EntryTypes DEF OnControl
  <2> QED  BY <1>7, <2>1 DEF OnControl
<1>8. CASE Finish
  BY <1>8 DEF Finish, Cell
<1>9. CASE Fail
  BY <1>9 DEF Fail, Cell
<1>10. CASE Crash
  <2>1. file' \in Seq(Cell) /\ synced \in 0..Len(file')
    BY <1>10, SurvivorsKeepSynced DEF Crash
  <2>2. manifest' \in Manifests(Entry)
    <3>1. EntryUnderway \subseteq Entry
      BY EntryTypes DEF EntryUnderway, SourceYields
    <3>2. manifest' \in SurvivingManifests /\ manifest \in Manifests(Entry)
      BY <1>10 DEF Crash
    <3> HIDE DEF TypeOK, Running
    <3>3. CASE manifest' = manifest
      BY <3>2, <3>3
    <3>4. ASSUME NEW e \in EntryUnderway, NEW cut \in PartialWrites,
                 manifest' = PartialAppend(manifest, e, cut)
          PROVE  manifest' \in Manifests(Entry)
      <4>1. e \in Entry /\ cut \in {"torn", "unterminated"}
        BY <3>1, PartialAssumption
      <4> QED  BY <3>2, <3>4, <4>1, AppendType
    <3> QED  BY <3>2, <3>3, <3>4 DEF SurvivingManifests
  <2> QED  BY <1>10, <2>1, <2>2 DEF Crash
<1> HIDE DEF TypeOK, Running
<1>11. CASE Step
  BY <1>2, <1>3, <1>4, <1>5, <1>6, <1>7, <1>8, <1>11 DEF Step
<1> QED  BY <1>1, <1>9, <1>10, <1>11 DEF Next

\* and so does standing still.
LEMMA TypeOKStutters == TypeOK /\ UNCHANGED vars => TypeOK'
  BY DEF TypeOK, vars, engineVars

\* TypeOK holds of every instance of the specification, whatever crashes do to
\* the manifest and wherever it lies.
THEOREM TypeCorrect == Spec => []TypeOK
<1>1. TypeOK /\ [Next]_vars => TypeOK'
  BY NextTypeOK, TypeOKStutters
<1> QED  BY InitTypeOK, <1>1, PTL DEF Spec

-----------------------------------------------------------------------------
(* The committed blocks *)

\* Some committed line ends where a resume cuts.
LEMMA LastBlock ==
  ASSUME TypeOK, Blocks, CommitLines(manifest) # {}
  PROVE  DurableEnd \in Nat /\ DurableEnd <= synced /\ DurableEnd <= Len(file)
         /\ leftover <= DurableEnd
<1>1. PICK i \in CommitLines(manifest) : DurableEnd = manifest.lines[i].offset
  BY CommittedOffsetType DEF TypeOK, DurableEnd
<1>2. /\ manifest.lines[i].offset \in Nat
      /\ manifest.lines[i].count \in Nat
  BY CommitLineType DEF TypeOK
<1>3. /\ leftover + manifest.lines[i].count <= manifest.lines[i].offset
      /\ manifest.lines[i].offset <= synced
  BY DEF Blocks
<1>4. leftover \in Nat /\ synced \in Nat /\ Len(file) \in Nat /\ synced <= Len(file)
  BY DEF TypeOK
<1> QED  BY <1>1, <1>2, <1>3, <1>4

\* The blocks stay as they are when the committed lines do, and the cells up to
\* the last committed offset stay in place and synced.
LEMMA BlocksKept ==
  ASSUME TypeOK, TypeOK', Blocks,
         SameCommits(manifest, manifest'), leftover' = leftover,
         CommitLines(manifest) # {} =>
            DurableEnd <= synced' /\ \A p \in 1..DurableEnd : file'[p] = file[p]
  PROVE  /\ Blocks'
         /\ CommitLines(manifest)' = CommitLines(manifest)
         /\ CommittedIds(manifest)' = CommittedIds(manifest)
         /\ DurableEnd' = DurableEnd
         /\ Base' = Base
<1> DEFINE CL == CommitLines(manifest)
           line(i) == manifest.lines[i]
<1>1. /\ CommitLines(manifest') = CL
      /\ \A i \in CL : manifest'.lines[i] = line(i)
      /\ CommittedIds(manifest') = CommittedIds(manifest)
      /\ DurableEnd' = DurableEnd
      /\ Base' = Base
  <2>1. manifest \in Manifests(Entry)
    BY DEF TypeOK
  <2>2. DurableEnd' = DurableEnd /\ CommittedIds(manifest') = CommittedIds(manifest)
    BY <2>1, SameCommitsLoad DEF DurableEnd
  <2> QED  BY <2>2 DEF SameCommits, Base
<1>2. ASSUME NEW i \in CL
      PROVE  /\ line(i).offset \in Nat /\ line(i).count \in Nat
             /\ leftover + line(i).count <= line(i).offset
             /\ line(i).offset <= DurableEnd /\ DurableEnd \in Nat
             /\ line(i).offset <= synced'
             /\ \A r \in 1..line(i).count :
                   file'[line(i).offset - line(i).count + r] = Row(line(i).chunk, r)
  <2>1. line(i).offset \in Nat /\ line(i).count \in Nat
    <3>1. manifest \in Manifests(Entry)
      BY DEF TypeOK
    <3> QED  BY <3>1, CommitLineType
  <2>2. /\ leftover + line(i).count <= line(i).offset
        /\ line(i).offset <= DurableEnd
        /\ \A r \in 1..line(i).count :
              file[line(i).offset - line(i).count + r] = Row(line(i).chunk, r)
    BY DEF Blocks
  <2>3. DurableEnd \in Nat /\ leftover \in Nat
    BY LastBlock DEF TypeOK
  <2>4. \A r \in 1..line(i).count : line(i).offset - line(i).count + r \in 1..DurableEnd
    BY <2>1, <2>2, <2>3
  <2>5. line(i).offset <= synced'
    <3>1. synced' \in Nat /\ DurableEnd <= synced'
      BY DEF TypeOK
    <3> QED  BY <2>1, <2>2, <2>3, <3>1
  <2> QED  BY <2>1, <2>2, <2>3, <2>4, <2>5
<1>3. Blocks'
  BY <1>1, <1>2 DEF Blocks
<1> QED  BY <1>1, <1>3

\* The step that adds a block: the rows of the current batch are all in the file,
\* synced, and start where the last block ends.
LEMMA BlockAdded ==
  ASSUME IInv, OnControl, TypeOK'
  PROVE  /\ Blocks'
         /\ CommittedIds(manifest)' = CommittedIds(manifest) \cup {chunk}
         /\ Base' = Len(file)
<1> DEFINE CL == CommitLines(manifest)
           line(i) == manifest.lines[i]
           new == Len(manifest.lines) + 1
           e == Committed(chunk, OutputFile, offset, matched)
<1>1. /\ manifest \in Manifests(Entry)
      /\ manifest.terminated
      /\ chunk \in Chunk /\ offset \in Nat /\ matched \in 0..MaxMatched
      /\ leftover \in Nat
      /\ manifest' = AppendEntry(manifest, e)
      /\ UNCHANGED <<file, synced, leftover>>
  BY DEF IInv, TypeOK, WholeTail, OnControl, Running
<1>2. e \in Entry /\ e.type = "committed"
  BY <1>1, EntryTypes DEF Committed
<1>3. /\ CommitLines(manifest') = CL \cup {new}
      /\ new \notin CL
      /\ \A i \in CL : manifest'.lines[i] = line(i)
      /\ manifest'.lines[new] = e
      /\ DurableEnd' = offset
  BY <1>1, <1>2, CommitAppended DEF DurableEnd, Committed
<1>4. /\ offset = Len(file) /\ synced = Len(file)
      /\ Len(file) = Base + matched
      /\ \A r \in 1..matched : file[Base + r] = Row(chunk, r)
  BY DEF IInv, Batch, OnControl
<1>5. Base \in Nat /\ leftover <= Base
  BY <1>1, LastBlock DEF IInv, Base
<1>6. \A i \in CL : /\ line(i).offset \in Nat /\ line(i).count \in Nat
                    /\ line(i).chunk # chunk
                    /\ leftover + line(i).count <= line(i).offset
                    /\ line(i).offset <= Base
                    /\ line(i).offset <= synced
                    /\ \A r \in 1..line(i).count :
                          file[line(i).offset - line(i).count + r] = Row(line(i).chunk, r)
  <2> SUFFICES ASSUME NEW i \in CL
               PROVE  /\ line(i).offset \in Nat /\ line(i).count \in Nat
                      /\ line(i).chunk # chunk
                      /\ line(i).offset <= Base
    BY DEF IInv, Blocks
  <2>1. line(i).chunk \in CommittedIds(manifest)
    BY DEF CommittedIds
  <2>2. line(i).chunk # chunk
    BY <1>1, <2>1 DEF IInv, Progress, OnControl, Chunk
  <2> QED  BY <1>1, <2>2, CommitLineType DEF IInv, Blocks, Base
<1>7. CommittedIds(manifest)' = CommittedIds(manifest) \cup {chunk}
  BY <1>3 DEF CommittedIds, Committed
<1>8. Base' = Len(file)
  BY <1>1, <1>3, <1>4 DEF Base
<1>9. \A i \in CommitLines(manifest') :
        /\ leftover + manifest'.lines[i].count <= manifest'.lines[i].offset
        /\ manifest'.lines[i].offset <= DurableEnd'
        /\ manifest'.lines[i].offset <= synced
        /\ \A r \in 1..manifest'.lines[i].count :
              file[manifest'.lines[i].offset - manifest'.lines[i].count + r]
                 = Row(manifest'.lines[i].chunk, r)
  <2> SUFFICES ASSUME NEW i \in CL \cup {new}
               PROVE  /\ leftover + manifest'.lines[i].count <= manifest'.lines[i].offset
                      /\ manifest'.lines[i].offset <= DurableEnd'
                      /\ manifest'.lines[i].offset <= synced
                      /\ \A r \in 1..manifest'.lines[i].count :
                            file[manifest'.lines[i].offset - manifest'.lines[i].count + r]
                               = Row(manifest'.lines[i].chunk, r)
    BY <1>3
  <2>1. CASE i \in CL
    <3>1. manifest'.lines[i] = line(i)
      BY <1>3, <2>1
    <3>2. Base <= DurableEnd'
      BY <1>1, <1>3, <1>4, <1>5
    <3>3. DurableEnd' \in Nat
      BY <1>1, <1>3
    <3> QED  BY <1>5, <1>6, <2>1, <3>1, <3>2, <3>3
  <2>2. CASE i = new
    <3>1. /\ manifest'.lines[i].count = matched
          /\ manifest'.lines[i].offset = Base + matched
          /\ manifest'.lines[i].chunk = chunk
      BY <1>3, <1>4, <2>2 DEF Committed
    <3> QED  BY <1>1, <1>3, <1>4, <1>5, <3>1, SMTT(30)
  <2> QED  BY <2>1, <2>2
<1>10. \A i, j \in CommitLines(manifest') :
          i # j => manifest'.lines[i].chunk # manifest'.lines[j].chunk
  <2>1. \A i, j \in CL : i # j => line(i).chunk # line(j).chunk
    BY DEF IInv, Blocks
  <2>2. manifest'.lines[new].chunk = chunk
    BY <1>3 DEF Committed
  <2> QED  BY <1>3, <1>6, <2>1, <2>2
<1>11. \A p \in leftover + 1..DurableEnd' :
          \E i \in CommitLines(manifest') :
             p \in manifest'.lines[i].offset - manifest'.lines[i].count + 1
                  ..manifest'.lines[i].offset
  <2> SUFFICES ASSUME NEW p \in leftover + 1..Base + matched
               PROVE  \E i \in CommitLines(manifest') :
                         p \in manifest'.lines[i].offset - manifest'.lines[i].count + 1
                              ..manifest'.lines[i].offset
    BY <1>3, <1>4
  <2>1. CASE p <= Base
    <3>1. CL # {} /\ Base = DurableEnd
      BY <1>1, <1>5, <2>1 DEF Base
    <3>2. PICK i \in CL : p \in line(i).offset - line(i).count + 1..line(i).offset
      BY <1>1, <1>5, <2>1, <3>1 DEF IInv, Blocks
    <3> QED  BY <1>3, <3>2
  <2>2. CASE p > Base
    <3>1. p \in Base + 1..Base + matched
      BY <1>1, <1>5, <2>2
    <3>2. /\ manifest'.lines[new].count = matched
          /\ manifest'.lines[new].offset = Base + matched
      BY <1>3, <1>4 DEF Committed
    <3>3. (Base + matched) - matched + 1 = Base + 1
      BY <1>1, <1>5
    <3>4. p \in manifest'.lines[new].offset - manifest'.lines[new].count + 1
                 ..manifest'.lines[new].offset
      BY <3>1, <3>2, <3>3
    <3> QED  BY <1>3, <3>4
  <2> QED  BY <1>1, <1>5, <2>1, <2>2
<1>12. Blocks'
  BY <1>1, <1>9, <1>10, <1>11 DEF Blocks
<1> QED  BY <1>7, <1>8, <1>12

-----------------------------------------------------------------------------
(* The inductive invariant *)

\* A manifest that does not change keeps its committed lines.
LEMMA SameManifest == manifest' = manifest => SameCommits(manifest, manifest')
  BY DEF SameCommits

\* What the file holds up to the last committed offset is not touched by adding
\* to its end.
LEMMA PrefixKept ==
  ASSUME TypeOK, Blocks, NEW t \in Seq(Cell), file' = file \o t
  PROVE  CommitLines(manifest) # {} => \A p \in 1..DurableEnd : file'[p] = file[p]
<1> SUFFICES ASSUME CommitLines(manifest) # {}, NEW p \in 1..DurableEnd
             PROVE  file'[p] = file[p]
  OBVIOUS
<1>1. p \in 1..Len(file) /\ file \in Seq(Cell)
  BY LastBlock DEF TypeOK
<1> QED  BY <1>1, ConcatProperties

\* The empty manifest and file satisfy the invariant.
LEMMA InitInv == Init => IInv
<1> SUFFICES ASSUME Init PROVE IInv
  OBVIOUS
<1>1. CommitLines(manifest) = {} /\ CommittedIds(manifest) = {}
  BY DEF Init, EmptyManifest, CommitLines, CommittedIds
<1>2. TypeOK
  BY InitTypeOK
<1>3. Blocks
  BY <1>1 DEF Blocks
<1> QED  BY <1>2, <1>3 DEF Init, IInv, WholeTail, WholeLines, EmptyManifest, Progress, Batch

\* Starting keeps the invariant: the file is left as it is with nothing committed,
\* and otherwise cut to the end of the last block.
LEMMA StartInv ==
  ASSUME Deployment, IInv, Start, TypeOK'
  PROVE  IInv'
<1>1. /\ TypeOK /\ Blocks /\ WholeTail
      /\ manifest \in Manifests(Entry) /\ file \in Seq(Cell)
      /\ leftover \in Nat /\ synced \in 0..Len(file)
  BY DEF IInv, TypeOK
<1>2. manifest' = manifest
  BY DEF Start, KeepOutput, TruncateOutput, ManifestAfterResume, Deployment
<1>3. WholeTail'
  BY <1>1, <1>2 DEF WholeTail, Start
<1>4. Progress'
  <2>1. pc' = "pull" /\ next' = 0 /\ committed' = CommittedIds(manifest')
    BY <1>2 DEF Start
  <2>2. {c \in Chunk : c < 0} = {}
    BY DEF Chunk
  <2> QED  BY <2>1, <2>2 DEF Progress
<1>5. CASE KeepOutput
  <2>1. CommitLines(manifest) = {}
    BY <1>5 DEF KeepOutput, CommittedIds
  <2>2. Blocks'
    BY <1>2, <2>1 DEF Blocks
  <2>3. Batch'
    BY <1>2, <1>5, <2>1 DEF Batch, Base, KeepOutput, Start
  <2> QED  BY <1>3, <1>4, <2>2, <2>3 DEF IInv
<1>6. CASE TruncateOutput
  <2>1. CommitLines(manifest) # {}
    BY <1>6 DEF TruncateOutput, CommittedIds
  <2>2. DurableEnd \in Nat /\ DurableEnd <= synced /\ DurableEnd <= Len(file)
    BY <1>1, <2>1, LastBlock
  <2>3. /\ file' = TruncateTo(file, DurableEnd)
        /\ Len(file') = DurableEnd
        /\ \A p \in 1..DurableEnd : file'[p] = file[p]
    <3>1. file' = TruncateTo(file, DurableEnd)
      BY <1>6 DEF TruncateOutput, ResumeOffset, DurableEnd
    <3>2. /\ Len(TruncateTo(file, DurableEnd)) = DurableEnd
          /\ \A p \in 1..DurableEnd :
                p <= Len(file) => TruncateTo(file, DurableEnd)[p] = file[p]
      BY <1>1, <2>2, TruncateToType
    <3>3. \A p \in 1..DurableEnd : p <= Len(file)
      BY <1>1, <2>2
    <3> QED  BY <3>1, <3>2, <3>3
  <2>4. DurableEnd <= synced' /\ leftover' = leftover
    BY <1>6, <2>2, <2>3 DEF TruncateOutput
  <2>5. Blocks' /\ Base' = Base
    BY <1>1, <1>2, <2>3, <2>4, SameManifest, BlocksKept
  <2>6. Batch'
    <3>1. Len(file') = Base'
      BY <2>1, <2>3, <2>5 DEF Base
    <3> QED  BY <3>1 DEF Batch, Start
  <2> QED  BY <1>3, <1>4, <2>5, <2>6 DEF IInv
<1> QED  BY <1>5, <1>6 DEF Start

\* Skipping a committed chunk keeps it: the chunk is one the manifest has.
LEMMA SkipInv ==
  ASSUME IInv, Skip, TypeOK'
  PROVE  IInv'
<1>1. /\ Blocks' /\ Base' = Base
      /\ CommittedIds(manifest)' = CommittedIds(manifest)
  BY SameManifest, BlocksKept, LastBlock DEF IInv, Skip
<1>2. WholeTail'
  BY DEF IInv, WholeTail, Skip
<1>3. Progress'
  <2>1. next \in Nat /\ next \in committed
    BY DEF IInv, TypeOK, Skip, ToSkip
  <2>2. {c \in Chunk : c < next + 1} \subseteq {c \in Chunk : c < next} \cup {next}
    BY <2>1 DEF Chunk
  <2>3. {c \in Chunk : c < next} \subseteq {c \in Chunk : c < next + 1}
    BY <2>1 DEF Chunk
  <2> QED  BY <1>1, <2>1, <2>2, <2>3 DEF IInv, Progress, Skip, AfterSkipped
<1>4. Batch'
  BY <1>1 DEF IInv, Batch, Skip
<1> QED  BY <1>1, <1>2, <1>3, <1>4 DEF IInv

\* Recording a chunk as distributed keeps it: no committed line changes, and the
\* last line is terminated from then on.
LEMMA DistributeInv ==
  ASSUME IInv, Distribute, TypeOK'
  PROVE  IInv'
<1>1. /\ manifest \in Manifests(Entry) /\ WholeLines(manifest)
      /\ Distributed(next) \in Entry
  BY EntryTypes DEF IInv, TypeOK, WholeTail, Distribute, SourceYields
<1>2. SameCommits(manifest, manifest')
  BY <1>1, OtherEntryAppended DEF Distribute, Distributed
<1>3. /\ Blocks' /\ Base' = Base
      /\ CommittedIds(manifest)' = CommittedIds(manifest)
  BY <1>2, BlocksKept, LastBlock DEF IInv, Distribute
<1>4. WholeTail'
  BY <1>1, AppendedLines DEF WholeTail, WholeLines, Distribute
<1>5. Progress'
  BY <1>3 DEF IInv, Progress, Distribute, ToSkip
<1>6. Batch'
  BY <1>3 DEF IInv, Batch, Distribute
<1> QED  BY <1>3, <1>4, <1>5, <1>6 DEF IInv

\* A new batch has no rows yet.
LEMMA RunBatchInv ==
  ASSUME IInv, RunBatch, TypeOK'
  PROVE  IInv'
<1>1. /\ Blocks' /\ Base' = Base
      /\ CommittedIds(manifest)' = CommittedIds(manifest)
  BY SameManifest, BlocksKept, LastBlock DEF IInv, RunBatch
<1>2. WholeTail' /\ Progress'
  BY <1>1 DEF IInv, WholeTail, Progress, RunBatch
<1>3. Batch'
  <2>1. /\ buffer' = <<>> /\ written' = 0 /\ pc' = "write"
        /\ Len(file') = Base' /\ Base' \in Nat /\ matched' \in Nat
    BY <1>1 DEF IInv, TypeOK, Batch, RunBatch
  <2> QED  BY <2>1 DEF Batch
<1> QED  BY <1>1, <1>2, <1>3 DEF IInv

\* One more cell at the end of the buffer is one more at the end of the whole.
LEMMA OneMoreCell ==
  ASSUME NEW f \in Seq(Cell), NEW b \in Seq(Cell), NEW x \in Cell
  PROVE  /\ Append(b, x) \in Seq(Cell)
         /\ f \o Append(b, x) \in Seq(Cell)
         /\ Len(f \o b) = Len(f) + Len(b)
         /\ Len(f \o Append(b, x)) = Len(f) + Len(b) + 1
         /\ \A p \in 1..Len(f) + Len(b) : (f \o Append(b, x))[p] = (f \o b)[p]
         /\ (f \o Append(b, x))[Len(f) + Len(b) + 1] = x
<1>1. /\ Append(b, x) \in Seq(Cell)
      /\ Len(Append(b, x)) = Len(b) + 1
      /\ \A p \in 1..Len(b) : Append(b, x)[p] = b[p]
      /\ Append(b, x)[Len(b) + 1] = x
  BY AppendProperties
<1>2. Len(f) \in Nat /\ Len(b) \in Nat
  BY LenProperties
<1> DEFINE c == Append(b, x)
<1> HIDE DEF c
<1>3. /\ f \o c \in Seq(Cell)
      /\ Len(f \o c) = Len(f) + Len(c)
      /\ \A p \in 1..Len(f) + Len(c) :
            (f \o c)[p] = IF p <= Len(f) THEN f[p] ELSE c[p - Len(f)]
  BY <1>1, ConcatProperties DEF c
<1>4. /\ Len(f \o b) = Len(f) + Len(b)
      /\ \A p \in 1..Len(f) + Len(b) :
            (f \o b)[p] = IF p <= Len(f) THEN f[p] ELSE b[p - Len(f)]
  BY ConcatProperties
<1>5. \A p \in 1..Len(f) + Len(b) : (f \o c)[p] = (f \o b)[p]
  <2> SUFFICES ASSUME NEW p \in 1..Len(f) + Len(b) PROVE (f \o c)[p] = (f \o b)[p]
    OBVIOUS
  <2>1. p \in 1..Len(f) + Len(c)
    BY <1>1, <1>2 DEF c
  <2>2. CASE p <= Len(f)
    BY <1>3, <1>4, <2>1, <2>2
  <2>3. CASE ~(p <= Len(f))
    <3>1. p - Len(f) \in 1..Len(b)
      BY <1>2, <2>3
    <3>2. c[p - Len(f)] = b[p - Len(f)]
      BY <1>1, <3>1 DEF c
    <3> QED  BY <1>3, <1>4, <2>1, <2>3, <3>2
  <2> QED  BY <2>2, <2>3
<1>6. (f \o c)[Len(f) + Len(b) + 1] = x
  <2>1. /\ Len(f) + Len(b) + 1 \in 1..Len(f) + Len(c)
        /\ ~(Len(f) + Len(b) + 1 <= Len(f))
        /\ (Len(f) + Len(b) + 1) - Len(f) = Len(b) + 1
    BY <1>1, <1>2 DEF c
  <2>2. c[Len(b) + 1] = x
    BY <1>1 DEF c
  <2> QED  BY <1>3, <2>1, <2>2
<1>7. Len(f \o c) = Len(f) + Len(b) + 1
  BY <1>1, <1>2, <1>3 DEF c
<1> QED  BY <1>1, <1>3, <1>4, <1>5, <1>6, <1>7 DEF c

\* A row goes to the end of what the file and the buffer hold.
LEMMA WriteRowInv ==
  ASSUME IInv, WriteRow, TypeOK'
  PROVE  IInv'
<1> DEFINE row == Row(chunk, written + 1)
           rows == Append(buffer, row)
           n == Len(file) + Len(buffer)
<1>1. /\ file \in Seq(Cell) /\ buffer \in Seq(Cell) /\ row \in Cell
      /\ written \in Nat /\ matched \in Nat
  <2>1. written \in Nat /\ matched \in Nat /\ chunk \in Nat
    BY MaxMatchedAssumption DEF IInv, TypeOK
  <2>2. row \in RowCell
    BY <2>1 DEF Row, RowCell
  <2>3. RowCell \subseteq Cell
    BY DEF Cell
  <2>4. file \in Seq(Cell) /\ buffer \in Seq(RowCell)
    BY DEF IInv, TypeOK
  <2>5. buffer \in Seq(Cell)
    BY <2>3, <2>4
  <2> QED  BY <2>1, <2>2, <2>3, <2>4, <2>5
<1>2. \/ file' = file \o rows /\ buffer' = <<>>
      \/ file' = file /\ buffer' = rows
  BY DEF WriteRow
<1>3. /\ pc' = "write" /\ written' = written + 1 /\ written < matched
      /\ UNCHANGED <<manifest, synced, committed, next, chunk, matched, leftover>>
      /\ pc = "write"
  BY DEF WriteRow
<1> HIDE DEF row
<1>4. /\ rows \in Seq(Cell) /\ file \o rows \in Seq(Cell)
      /\ Len(file \o rows) = n + 1
      /\ \A p \in 1..n : (file \o rows)[p] = (file \o buffer)[p]
      /\ (file \o rows)[n + 1] = row
      /\ n \in Nat
  BY <1>1, OneMoreCell
<1> HIDE DEF rows
<1>5. file' \o buffer' = file \o rows /\ Len(file') + Len(buffer') = n + 1
  <2>1. CASE file' = file \o rows /\ buffer' = <<>>
    BY <1>4, <2>1, ConcatEmptySeq
  <2>2. CASE file' = file /\ buffer' = rows
    BY <1>1, <1>4, <2>2, ConcatProperties
  <2> QED  BY <1>2, <2>1, <2>2
<1>6. \E t \in Seq(Cell) : file' = file \o t
  <2>1. <<>> \in Seq(Cell) /\ file = file \o <<>>
    BY <1>1, ConcatEmptySeq
  <2> QED  BY <1>2, <1>4, <2>1
<1>7. /\ Blocks' /\ Base' = Base
      /\ CommittedIds(manifest)' = CommittedIds(manifest)
  BY <1>3, <1>6, SameManifest, PrefixKept, BlocksKept, LastBlock DEF IInv
<1>8. WholeTail' /\ Progress'
  BY <1>3, <1>7 DEF IInv, WholeTail, Progress
<1>9. Batch'
  <2>1. /\ n = Base + written
        /\ \A r \in 1..written : (file \o buffer)[Base + r] = Row(chunk, r)
    BY <1>3 DEF IInv, Batch
  <2>2. Base \in Nat
    BY LastBlock DEF IInv, TypeOK, Base
  <2>3. ASSUME NEW r \in 1..written + 1
        PROVE  (file \o rows)[Base + r] = Row(chunk, r)
    <3> HIDE DEF n
    <3>1. CASE r <= written
      <4>1. Base + r \in 1..n /\ r \in 1..written
        BY <1>1, <2>1, <2>2, <3>1
      <4> QED  BY <1>4, <2>1, <4>1
    <3>2. CASE r = written + 1
      <4>1. Base + r = n + 1
        BY <1>1, <2>1, <2>2, <3>2
      <4>2. (file \o rows)[Base + r] = row
        BY <1>4, <4>1
      <4>3. row = Row(chunk, r)
        BY <3>2 DEF row
      <4> QED  BY <4>2, <4>3
    <3>3. r <= written \/ r = written + 1
      BY <1>1
    <3> QED  BY <3>1, <3>2, <3>3
  <2>4. Len(file') + Len(buffer') = Base + (written + 1)
    BY <1>1, <1>5, <2>1, <2>2
  <2>5. written + 1 <= matched
    BY <1>1, <1>3
  <2> QED  BY <1>3, <1>5, <1>7, <2>3, <2>4, <2>5 DEF Batch
<1> QED  BY <1>7, <1>8, <1>9 DEF IInv

\* After the commit the file holds all rows of the batch, synced.
LEMMA CommitSinkInv ==
  ASSUME IInv, CommitSink, TypeOK'
  PROVE  IInv'
<1>1. /\ file \in Seq(Cell) /\ buffer \in Seq(Cell)
      /\ file' = file \o buffer /\ Len(file') = Len(file) + Len(buffer)
  BY ConcatProperties DEF IInv, TypeOK, CommitSink, Cell
<1>2. synced' = Len(file') /\ offset' = Len(file') /\ buffer' = <<>> /\ pc' = "control"
  BY DEF CommitSink, SyncedBy, Tell
<1>3. CommitLines(manifest) # {} =>
         DurableEnd <= synced' /\ \A p \in 1..DurableEnd : file'[p] = file[p]
  <2>1. CommitLines(manifest) # {} => DurableEnd \in Nat /\ DurableEnd <= Len(file)
    BY LastBlock DEF IInv
  <2>2. Len(file) \in Nat /\ Len(buffer) \in Nat
    BY <1>1
  <2>3. CommitLines(manifest) # {} => DurableEnd <= synced'
    BY <1>1, <1>2, <2>1, <2>2
  <2> QED  BY <1>1, <2>3, PrefixKept DEF IInv
<1>4. /\ Blocks' /\ Base' = Base
      /\ CommittedIds(manifest)' = CommittedIds(manifest)
  BY <1>3, SameManifest, BlocksKept DEF IInv, CommitSink
<1>5. WholeTail' /\ Progress'
  BY <1>4 DEF IInv, WholeTail, Progress, CommitSink
<1>6. Batch'
  <2>1. /\ written = matched
        /\ Len(file') = Base + matched
        /\ \A r \in 1..matched : file'[Base + r] = Row(chunk, r)
    BY <1>1 DEF IInv, Batch, CommitSink
  <2> QED  BY <1>2, <1>4, <2>1 DEF Batch, CommitSink
<1> QED  BY <1>4, <1>5, <1>6 DEF IInv

\* The new committed line stands for the block the batch ends.
LEMMA OnControlInv ==
  ASSUME IInv, OnControl, TypeOK'
  PROVE  IInv'
<1>1. /\ Blocks' /\ Base' = Len(file)
      /\ CommittedIds(manifest)' = CommittedIds(manifest) \cup {chunk}
  BY BlockAdded
<1>2. WholeTail'
  BY DEF WholeTail, WholeLines, AppendEntry, OnControl
<1>3. Progress'
  <2>1. chunk \in Chunk /\ next = chunk + 1 /\ UNCHANGED <<committed, next>> /\ pc' = "pull"
    BY DEF IInv, TypeOK, Progress, OnControl, Running
  <2>2. {c \in Chunk : c < chunk + 1} = {c \in Chunk : c < chunk} \cup {chunk}
    BY <2>1 DEF Chunk
  <2> QED  BY <1>1, <2>1, <2>2 DEF IInv, Progress, OnControl
<1>4. Batch'
  BY <1>1 DEF IInv, Batch, OnControl
<1> QED  BY <1>1, <1>2, <1>3, <1>4 DEF IInv

\* At the end of the source the buffer is empty and every chunk is committed.
LEMMA FinishInv ==
  ASSUME IInv, Finish, TypeOK'
  PROVE  IInv'
<1>1. file' = file /\ buffer' = <<>>
  BY ConcatEmptySeq DEF IInv, TypeOK, Batch, Finish
<1>2. /\ Blocks' /\ Base' = Base
      /\ CommittedIds(manifest)' = CommittedIds(manifest)
  BY <1>1, SameManifest, BlocksKept, LastBlock DEF IInv, Finish
<1>3. WholeTail' /\ Progress'
  BY <1>2 DEF IInv, WholeTail, Progress, Finish
<1>4. Batch'
  BY <1>1, <1>2 DEF IInv, Batch, Finish
<1> QED  BY <1>2, <1>3, <1>4 DEF IInv

\* What a failed run leaves lies beyond the last block.
LEMMA FailInv ==
  ASSUME IInv, Fail, TypeOK'
  PROVE  IInv'
<1>1. buffer \in Seq(Cell) /\ file' = file \o buffer
  BY DEF IInv, TypeOK, Fail, Cell
<1>2. Blocks'
  BY <1>1, SameManifest, PrefixKept, BlocksKept, LastBlock DEF IInv, Fail
<1>3. WholeTail' /\ Progress' /\ Batch'
  BY DEF IInv, WholeTail, Progress, Batch, Fail
<1> QED  BY <1>2, <1>3 DEF IInv

\* A crash may add a fragment to the manifest, and nothing else.
LEMMA CrashKeepsCommits ==
  ASSUME Deployment, TypeOK, WholeLines(manifest), Crash
  PROVE  SameCommits(manifest, manifest') /\ WholeLines(manifest')
<1>1. manifest \in Manifests(Entry)
  BY DEF TypeOK
<1>2. CASE manifest' = manifest
  BY <1>2, SameManifest
<1>3. ASSUME NEW e \in EntryUnderway, manifest' = PartialAppend(manifest, e, "torn")
      PROVE  SameCommits(manifest, manifest') /\ WholeLines(manifest')
  <2>1. e \in Entry /\ Junk \in Entry
    BY EntryTypes DEF EntryUnderway, SourceYields, TypeOK, Running, Entry, Entries
  <2> QED  BY <1>1, <1>3, <2>1, TornLines
<1>4. \A cut \in PartialWrites : cut = "torn"
  BY DEF Deployment
<1> QED  BY <1>2, <1>3, <1>4 DEF Crash, SurvivingManifests

\* A crash leaves every block in place, because all of them are synced.
LEMMA CrashInv ==
  ASSUME Deployment, IInv, Crash, TypeOK'
  PROVE  IInv'
<1>1. TypeOK /\ Blocks /\ WholeLines(manifest)
  BY DEF IInv, WholeTail
<1>2. SameCommits(manifest, manifest') /\ WholeLines(manifest')
  BY <1>1, CrashKeepsCommits
<1>3. CommitLines(manifest) # {} =>
         DurableEnd <= synced' /\ \A p \in 1..DurableEnd : file'[p] = file[p]
  <2>1. /\ file' \in SurvivingOutputs(file \o buffer) /\ synced' = synced
        /\ synced \in Nat
    BY <1>1 DEF Crash, TypeOK
  <2>2. \A p \in 1..synced : file'[p] = file[p]
    BY <1>1, <2>1, SurvivorsKeepSynced
  <2> QED  BY <1>1, <2>1, <2>2, LastBlock
<1>4. Blocks'
  BY <1>1, <1>2, <1>3, BlocksKept DEF Crash
<1>5. WholeTail' /\ Progress' /\ Batch'
  BY <1>2 DEF WholeTail, Progress, Batch, Crash
<1> QED  BY <1>4, <1>5 DEF IInv

\* Every step keeps the invariant.
LEMMA NextInv ==
  ASSUME Deployment, IInv, [Next]_vars
  PROVE  IInv'
<1>0. TypeOK /\ TypeOK'
  BY NextTypeOK, TypeOKStutters DEF IInv
<1>1. CASE Start
  BY <1>0, <1>1, StartInv
<1>2. CASE Skip
  BY <1>0, <1>2, SkipInv
<1>3. CASE Distribute
  BY <1>0, <1>3, DistributeInv
<1>4. CASE RunBatch
  BY <1>0, <1>4, RunBatchInv
<1>5. CASE WriteRow
  BY <1>0, <1>5, WriteRowInv
<1>6. CASE CommitSink
  BY <1>0, <1>6, CommitSinkInv
<1>7. CASE OnControl
  BY <1>0, <1>7, OnControlInv
<1>8. CASE Finish
  BY <1>0, <1>8, FinishInv
<1>9. CASE Fail
  BY <1>0, <1>9, FailInv
<1>10. CASE Crash
  BY <1>0, <1>10, CrashInv
<1>11. CASE UNCHANGED vars
  <2>1. /\ UNCHANGED <<manifest, file, synced, pc, committed, next, chunk, matched>>
        /\ UNCHANGED <<written, buffer, offset, leftover>>
    BY <1>11 DEF vars, engineVars
  <2>2. /\ Blocks' /\ Base' = Base
        /\ CommittedIds(manifest)' = CommittedIds(manifest)
    BY <1>0, <2>1, SameManifest, BlocksKept, LastBlock DEF IInv
  <2>3. WholeTail' /\ Progress'
    BY <2>1, <2>2 DEF IInv, WholeTail, Progress
  <2>4. Batch'
    BY <2>1, <2>2 DEF IInv, Batch
  <2> QED  BY <1>0, <2>2, <2>3, <2>4 DEF IInv
<1> QED
  BY <1>1, <1>2, <1>3, <1>4, <1>5, <1>6, <1>7, <1>8, <1>9, <1>10, <1>11
  DEF Next, Step

\* The invariant that explains the others: in a deployment that keeps the manifest
\* out of out_dir, every committed line of the checkpoint stands for its own block
\* of synced rows, the blocks cover the file up to where a resume cuts it, and
\* what follows them are the written rows of the batch being run (Engine.run,
\* Engine._resume, InProcessExecutor.execute, NdjsonWorkerSink, CheckpointStore).
THEOREM Inductive == ASSUME Deployment PROVE Spec => []IInv
<1>1. Init => IInv
  BY InitInv
<1>2. IInv /\ [Next]_vars => IInv'
  BY NextInv
<1> QED  BY <1>1, <1>2, PTL DEF Spec

-----------------------------------------------------------------------------
(* What it gives *)

\* Whatever a crash takes away, each committed offset lies in the part of the
\* output that fsync had put on the disk (ndjson.py commit before store.py
\* commit_chunk).
THEOREM CheckpointBehindOutput == ASSUME Deployment PROVE Spec => []CommittedDurable
<1>1. IInv => CommittedDurable
  BY DEF IInv, Blocks, CommittedDurable, Commits
<1> QED  BY <1>1, Inductive, PTL

\* The cells before each committed offset are the rows of its chunk, in order,
\* after any number of crashes, truncations and resumes (resume.py
\* truncate_worker_files).
THEOREM CommittedRowsIntact == ASSUME Deployment PROVE Spec => []CommittedIntact
<1>1. ASSUME IInv PROVE CommittedIntact
  <2> SUFFICES ASSUME NEW i \in CommitLines(manifest)
               PROVE  LET e == manifest.lines[i]
                      IN /\ e.count <= e.offset /\ e.offset <= Len(file)
                         /\ \A r \in 1..e.count :
                               file[e.offset - e.count + r] = Row(e.chunk, r)
    BY DEF CommittedIntact, Commits
  <2> DEFINE e == manifest.lines[i]
  <2>1. /\ leftover + e.count <= e.offset
        /\ e.offset <= synced
        /\ \A r \in 1..e.count : file[e.offset - e.count + r] = Row(e.chunk, r)
    BY <1>1 DEF IInv, Blocks
  <2>2. /\ leftover \in Nat /\ synced \in Nat /\ synced <= Len(file)
        /\ file \in Seq(Cell)
    BY <1>1 DEF IInv, TypeOK
  <2>3. e.count \in Nat /\ e.offset \in Nat
    BY <1>1, CommitLineType DEF IInv, TypeOK
  <2> HIDE DEF e
  <2>4. e.count <= e.offset /\ e.offset <= Len(file)
    BY <2>1, <2>2, <2>3
  <2> QED  BY <2>1, <2>4 DEF e
<1> QED  BY <1>1, Inductive, PTL

\* The output ends with the last block, at every moment: what a run that is done
\* leaves in the file is its blocks.
LEMMA OutputEnd ==
  ASSUME IInv
  PROVE  /\ VisibleCells # {} => CommitLines(manifest) # {}
         /\ \A p \in VisibleCells : p \in leftover + 1..DurableEnd
         /\ CommitLines(manifest) # {} => leftover + 1..DurableEnd \subseteq VisibleCells
         /\ pc = "done" => VisibleCells = leftover + 1..Len(file)
<1>1. /\ leftover \in Nat /\ Len(file) \in Nat
      /\ pc = "done" => Len(file) = Base
  BY DEF IInv, TypeOK, Batch
<1>2. CASE CommitLines(manifest) = {}
  <2>1. DurableEnd = 0
    BY <1>2 DEF DurableEnd, CommittedOffset, CommitLinesOf
  <2>2. VisibleCells = {}
    BY <1>1, <1>2, <2>1 DEF VisibleCells, Base
  <2> QED  BY <1>2, <2>2 DEF VisibleCells
<1>3. CASE CommitLines(manifest) # {}
  <2>1. VisibleCells = leftover + 1..DurableEnd
    BY <1>1, <1>3 DEF VisibleCells, Base
  <2> QED  BY <1>3, <2>1 DEF VisibleCells
<1> QED  BY <1>2, <1>3

\* Every cell of the output is a row of a committed chunk, at its place in the
\* chunk's block,
LEMMA VisibleInBlock ==
  ASSUME IInv, NEW p \in VisibleCells
  PROVE  \E i \in CommitLines(manifest) : \E r \in 1..manifest.lines[i].count :
            /\ p = manifest.lines[i].offset - manifest.lines[i].count + r
            /\ file[p] = Row(manifest.lines[i].chunk, r)
<1> DEFINE line(i) == manifest.lines[i]
<1>1. CommitLines(manifest) # {} /\ p \in leftover + 1..DurableEnd
  BY OutputEnd
<1>2. PICK i \in CommitLines(manifest) :
         p \in line(i).offset - line(i).count + 1..line(i).offset
  BY <1>1 DEF IInv, Blocks
<1> DEFINE o == line(i).offset
           k == line(i).count
           r == p - (o - k)
<1>3. o \in Nat /\ k \in Nat /\ p \in Int
  BY <1>1, CommitLineType, LastBlock DEF IInv, TypeOK
<1>4. \A x \in 1..k : file[o - k + x] = Row(line(i).chunk, x)
  BY DEF IInv, Blocks
<1>5. p \in o - k + 1..o
  BY <1>2
<1> HIDE DEF o, k
<1>6. r \in 1..k /\ p = o - k + r
  BY <1>3, <1>5
<1> HIDE DEF r
<1>7. \E x \in 1..k : p = o - k + x /\ file[p] = Row(line(i).chunk, x)
  BY <1>4, <1>6
<1> QED  BY <1>7 DEF o, k

\* no two cells of it are the same row,
LEMMA VisibleOnce ==
  ASSUME IInv, NEW p \in VisibleCells, NEW q \in VisibleCells, file[p] = file[q]
  PROVE  p = q
<1> DEFINE line(i) == manifest.lines[i]
<1>1. PICK i \in CommitLines(manifest) : \E r \in 1..line(i).count :
         p = line(i).offset - line(i).count + r /\ file[p] = Row(line(i).chunk, r)
  BY VisibleInBlock
<1>2. PICK r \in 1..line(i).count :
         p = line(i).offset - line(i).count + r /\ file[p] = Row(line(i).chunk, r)
  BY <1>1
<1>3. PICK j \in CommitLines(manifest) : \E s \in 1..line(j).count :
         q = line(j).offset - line(j).count + s /\ file[q] = Row(line(j).chunk, s)
  BY VisibleInBlock
<1>4. PICK s \in 1..line(j).count :
         q = line(j).offset - line(j).count + s /\ file[q] = Row(line(j).chunk, s)
  BY <1>3
<1>5. line(i).chunk = line(j).chunk /\ r = s
  BY <1>2, <1>4 DEF Row
<1>6. i = j
  BY <1>5 DEF IInv, Blocks
<1> QED  BY <1>2, <1>4, <1>5, <1>6

\* and no row of a committed chunk is missing from it.
LEMMA BlockVisible ==
  ASSUME IInv, NEW i \in CommitLines(manifest), NEW r \in 1..manifest.lines[i].count
  PROVE  \E p \in VisibleCells : file[p] = Row(manifest.lines[i].chunk, r)
<1> DEFINE o == manifest.lines[i].offset
           k == manifest.lines[i].count
           p == o - k + r
<1>1. /\ leftover + k <= o /\ o <= DurableEnd
      /\ file[p] = Row(manifest.lines[i].chunk, r)
  BY DEF IInv, Blocks
<1>2. o \in Nat /\ k \in Nat /\ leftover \in Nat /\ DurableEnd \in Nat
  BY CommitLineType, LastBlock DEF IInv, TypeOK
<1>3. r \in 1..k
  OBVIOUS
<1> HIDE DEF o, k
<1>4. p \in leftover + 1..DurableEnd
  BY <1>1, <1>2, <1>3
<1> QED  BY <1>1, <1>4, OutputEnd

\* When a run is done, nothing is left to commit.
LEMMA DoneCommitted ==
  ASSUME IInv, pc = "done"
  PROVE  CommittedIds(manifest) = Chunk
<1>1. committed \subseteq Chunk /\ next = NumChunks
  BY DEF IInv, TypeOK, Progress
<1>2. {c \in Chunk : c < NumChunks} = Chunk
  BY NumChunksAssumption DEF Chunk
<1> QED  BY <1>1, <1>2 DEF IInv, Progress

\* A run that ends leaves every chunk committed and, after the cells it found
\* there with nothing committed, only complete rows, none of them twice.
THEOREM NothingLostNothingTwice == ASSUME Deployment PROVE Spec => []ExactlyOnce
<1>1. ASSUME IInv, pc = "done"
      PROVE  \A p \in leftover + 1..Len(file) :
                /\ file[p] \in RowCell
                /\ \A q \in 1..p - 1 : q > leftover => file[q] # file[p]
  <2>1. VisibleCells = leftover + 1..Len(file)
    BY <1>1, OutputEnd
  <2>2. leftover \in Nat /\ Len(file) \in Nat
    BY <1>1 DEF IInv, TypeOK
  <2>3. ASSUME NEW p \in VisibleCells PROVE file[p] \in RowCell
    <3>1. PICK i \in CommitLines(manifest) : \E r \in 1..manifest.lines[i].count :
             file[p] = Row(manifest.lines[i].chunk, r)
      BY <1>1, VisibleInBlock
    <3>2. manifest.lines[i].chunk \in Nat /\ manifest.lines[i].count \in Nat
      BY <1>1, CommitLineType DEF IInv, TypeOK, Chunk
    <3> QED  BY <3>1, <3>2 DEF Row, RowCell
  <2>4. ASSUME NEW p \in VisibleCells, NEW q \in 1..p - 1, q > leftover
        PROVE  file[q] # file[p]
    <3>1. q \in VisibleCells /\ q # p
      BY <2>1, <2>2, <2>4
    <3> QED  BY <1>1, <3>1, VisibleOnce
  <2> QED  BY <2>1, <2>3, <2>4
<1>2. IInv => ExactlyOnce
  BY <1>1, DoneCommitted DEF ExactlyOnce
<1> QED  BY <1>2, Inductive, PTL

-----------------------------------------------------------------------------
(* The commits *)

\* Only on_control commits.
LEMMA OnlyControlCommits ==
  ASSUME Deployment, IInv, [Next]_vars, ~OnControl
  PROVE  /\ Commits(manifest)' = Commits(manifest)
         /\ CommittedIds(manifest)' = CommittedIds(manifest)
<1>1. manifest \in Manifests(Entry) /\ WholeLines(manifest)
  BY DEF IInv, TypeOK, WholeTail
<1>2. CASE Distribute
  <2>1. Distributed(next) \in Entry
    BY <1>2, EntryTypes DEF IInv, TypeOK, Distribute, SourceYields
  <2>2. SameCommits(manifest, manifest')
    BY <1>1, <1>2, <2>1, OtherEntryAppended DEF Distribute, Distributed
  <2> QED  BY <1>1, <2>2, SameCommitsLoad
<1>3. CASE Crash
  BY <1>1, <1>3, CrashKeepsCommits, SameCommitsLoad DEF IInv
<1>4. CASE Start
  <2>1. manifest' = manifest
    BY <1>4 DEF Start, KeepOutput, TruncateOutput, ManifestAfterResume, Deployment
  <2> QED  BY <1>1, <2>1, SameManifest, SameCommitsLoad
<1>5. CASE Skip \/ RunBatch \/ WriteRow \/ CommitSink \/ Finish \/ Fail \/ UNCHANGED vars
  <2>1. manifest' = manifest
    BY <1>5 DEF Skip, RunBatch, WriteRow, CommitSink, Finish, Fail, vars
  <2> QED  BY <1>1, <2>1, SameManifest, SameCommitsLoad
<1> QED  BY <1>2, <1>3, <1>4, <1>5 DEF Next, Step

\* on_control commits the chunk at hand, which was not committed before.
LEMMA ControlCommits ==
  ASSUME IInv, OnControl
  PROVE  LET e == Committed(chunk, OutputFile, offset, matched)
         IN  /\ Commits(manifest)' = Commits(manifest) \cup {e}
             /\ CommittedIds(manifest)' = CommittedIds(manifest) \cup {chunk}
             /\ chunk \in Chunk /\ chunk \notin CommittedIds(manifest)
             /\ chunk \notin committed /\ matched \in 0..MaxMatched
<1> DEFINE e == Committed(chunk, OutputFile, offset, matched)
<1>1. /\ chunk \in Chunk /\ chunk \notin CommittedIds(manifest) /\ chunk \notin committed
      /\ matched \in 0..MaxMatched /\ offset \in Nat
      /\ manifest.terminated /\ manifest \in Manifests(Entry)
      /\ manifest' = AppendEntry(manifest, e)
  BY DEF IInv, TypeOK, Progress, WholeTail, OnControl, Running, Chunk
<1>2. e \in Entry /\ e.type = "committed" /\ e.chunk = chunk
  BY <1>1, EntryTypes DEF Committed
<1>3. /\ CommitLines(manifest') = CommitLines(manifest) \cup {Len(manifest.lines) + 1}
      /\ \A i \in CommitLines(manifest) : manifest'.lines[i] = manifest.lines[i]
      /\ manifest'.lines[Len(manifest.lines) + 1] = e
  BY <1>1, <1>2, CommitAppended
<1> HIDE DEF e
<1>4. /\ Commits(manifest)' = Commits(manifest) \cup {e}
      /\ CommittedIds(manifest)' = CommittedIds(manifest) \cup {chunk}
  BY <1>2, <1>3 DEF Commits, CommittedIds
<1> QED  BY <1>1, <1>4 DEF e

\* No step, a crash or a resume included, changes or drops what the manifest says
\* of a committed chunk (store.py: appends only; core.py _resume truncates the
\* files of out_dir).
THEOREM NeverForgotten == ASSUME Deployment PROVE Spec => CommittedForever
<1>1. ASSUME IInv, [Next]_vars
      PROVE  Commits(manifest) \subseteq Commits(manifest')
  BY <1>1, ControlCommits, OnlyControlCommits DEF Commits, CommitLines
<1>2. IInv /\ [Next]_vars => [Commits(manifest) \subseteq Commits(manifest)']_vars
  BY <1>1 DEF Commits, CommitLines
<1> QED  BY <1>2, Inductive, PTL DEF Spec, CommittedForever

\* What this run added to the manifest, as lines and as rows.
Added     == {e \in Commits(manifest) : e.chunk \notin committed}
AddedRows == UNION {{e.chunk} \X (1..e.count) : e \in Added}

\* The counter counts them.
Counted ==
    pc \in Running \cup {"done"} =>
        /\ IsFiniteSet(Added) /\ counter.chunks = Cardinality(Added)
        /\ IsFiniteSet(AddedRows) /\ counter.matched = Cardinality(AddedRows)

\* RunSummary is right whatever earlier runs committed, and however they ended: the
\* chunks and rows it reports are those this run added to the manifest, each once
\* (Engine.run's on_control).
LEMMA CountedKept ==
  ASSUME Deployment, IInv, Counted, [Next]_vars
  PROVE  Counted'
<1>1. CASE OnControl
  <2> DEFINE e   == Committed(chunk, OutputFile, offset, matched)
             new == {chunk} \X (1..matched)
  <2>1. /\ Commits(manifest)' = Commits(manifest) \cup {e}
        /\ chunk \notin CommittedIds(manifest) /\ chunk \notin committed
        /\ matched \in 0..MaxMatched
    BY <1>1, ControlCommits
  <2>2. e.chunk = chunk /\ e.count = matched
    BY DEF Committed
  <2>3. UNCHANGED committed /\ pc = "control"
        /\ counter' = [matched |-> counter.matched + matched, chunks |-> counter.chunks + 1]
    BY <1>1 DEF OnControl
  <2> HIDE DEF e
  <2>4. Added' = Added \cup {e}
    BY <2>1, <2>2, <2>3 DEF Added
  <2>5. \A f \in Added : f.chunk # chunk
    BY <2>1 DEF Added, Commits, CommittedIds
  <2>6. e \notin Added
    BY <2>2, <2>5
  <2>7. AddedRows' = AddedRows \cup new /\ AddedRows \cap new = {}
    BY <2>2, <2>4, <2>5 DEF AddedRows
  <2>8. IsFiniteSet(new) /\ Cardinality(new) = matched
    <3>1. IsFiniteSet(1..matched) /\ Cardinality(1..matched) = matched
      BY <2>1, FS_Interval
    <3>2. IsFiniteSet({chunk}) /\ Cardinality({chunk}) = 1
      BY FS_Singleton
    <3>3. IsFiniteSet(new) /\ Cardinality(new) = 1 * matched
      BY <3>1, <3>2, FS_Product, ZenonT(30)
    <3> QED  BY <2>1, <3>3
  <2> HIDE DEF new
  <2>9. /\ IsFiniteSet(Added) /\ counter.chunks = Cardinality(Added)
        /\ IsFiniteSet(AddedRows) /\ counter.matched = Cardinality(AddedRows)
    BY <2>3 DEF Counted, Running
  <2>10. IsFiniteSet(Added') /\ Cardinality(Added') = counter.chunks + 1
    BY <2>4, <2>6, <2>9, FS_AddElement
  <2>11. IsFiniteSet(AddedRows') /\ Cardinality(AddedRows') = counter.matched + matched
    <3>1. Cardinality(AddedRows \cap new) = 0
      BY <2>7, FS_EmptySet
    <3>2. Cardinality(AddedRows) \in Nat
      BY <2>9, FS_CardinalityType
    <3> QED  BY <2>1, <2>7, <2>8, <2>9, <3>1, <3>2, FS_Union
  <2> QED  BY <2>3, <2>10, <2>11 DEF Counted
<1>2. CASE Start
  <2>1. /\ committed' = CommittedIds(manifest) /\ counter' = [matched |-> 0, chunks |-> 0]
        /\ Commits(manifest)' = Commits(manifest)
    BY <1>2, OnlyControlCommits DEF Start, FreshCounter, OnControl
  <2>2. Added' = {} /\ AddedRows' = {}
    BY <2>1 DEF Added, AddedRows, Commits, CommittedIds
  <2> QED  BY <2>1, <2>2, FS_EmptySet DEF Counted
<1>3. CASE ~OnControl /\ ~Start
  <2>1. Commits(manifest)' = Commits(manifest)
    BY <1>3, OnlyControlCommits
  <2>2. \/ UNCHANGED <<committed, counter>>
           /\ (pc' \in Running \cup {"done"} => pc \in Running \cup {"done"})
        \/ pc' = "down"
    BY <1>3
    DEF Next, Step, Skip, Distribute, RunBatch, WriteRow, CommitSink, Finish, Fail, Crash,
        vars, engineVars, Running
  <2> QED  BY <2>1, <2>2 DEF Counted, Added, AddedRows, Running
<1> QED  BY <1>1, <1>2, <1>3

\* So the summary of a run is exact in every state of it.
THEOREM SummaryIsExact == ASSUME Deployment PROVE Spec => []SummaryExact
<1>1. Init => Counted
  BY DEF Init, Counted, Running
<1>2. IInv /\ Counted /\ [Next]_vars => Counted'
  BY CountedKept
<1>3. Counted => SummaryExact
  BY DEF Counted, Added, AddedRows, SummaryExact
<1> QED  BY <1>1, <1>2, <1>3, Inductive, PTL DEF Spec

-----------------------------------------------------------------------------
(* The promise *)

\* The rows of the chunks the manifest says are committed.
CommittedRows ==
    UNION {{Row(e.chunk, r) : r \in 1..e.count} : e \in Commits(manifest)}

\* The output is those rows, each of them once.
OutputCommitted == VisibleRows = [row \in CommittedRows |-> 1]

LEMMA OutputIsCommitted ==
  ASSUME IInv
  PROVE  OutputCommitted
<1> DEFINE At(row) == {p \in VisibleCells : file[p] = row}
<1>1. {file[p] : p \in VisibleCells} = CommittedRows
  <2>1. ASSUME NEW p \in VisibleCells PROVE file[p] \in CommittedRows
    BY VisibleInBlock DEF CommittedRows, Commits
  <2>2. ASSUME NEW row \in CommittedRows PROVE \E p \in VisibleCells : file[p] = row
    <3>1. PICK i \in CommitLines(manifest) :
             row \in {Row(manifest.lines[i].chunk, r) : r \in 1..manifest.lines[i].count}
      BY DEF CommittedRows, Commits
    <3>2. PICK r \in 1..manifest.lines[i].count : row = Row(manifest.lines[i].chunk, r)
      BY <3>1
    <3> QED  BY <3>2, BlockVisible
  <2> QED  BY <2>1, <2>2
<1>2. ASSUME NEW p \in VisibleCells PROVE Cardinality(At(file[p])) = 1
  <2>1. At(file[p]) = {p}
    BY VisibleOnce
  <2> QED  BY <2>1, FS_Singleton
<1> QED  BY <1>1, <1>2 DEF OutputCommitted, VisibleRows

\* A step that commits nothing and neither ends a run nor starts one is not seen.
LEMMA Unseen ==
  ASSUME OutputCommitted, OutputCommitted',
         Commits(manifest)' = Commits(manifest),
         CommittedIds(manifest)' = CommittedIds(manifest)
  PROVE  /\ VisibleRows' = VisibleRows
         /\ (pc = "done")' = (pc = "done") => UNCHANGED Promised!vars
<1>1. VisibleRows' = VisibleRows
  BY DEF OutputCommitted, CommittedRows
<1> QED  BY <1>1 DEF Promised!vars

\* The manifest's new line puts out the rows of its chunk.
LEMMA CommitSeen ==
  ASSUME IInv, IInv', OnControl, OutputCommitted, OutputCommitted'
  PROVE  Promised!Commit(chunk) /\ chunk \in Chunk
<1> DEFINE e   == Committed(chunk, OutputFile, offset, matched)
           new == {Row(chunk, r) : r \in 1..matched}
<1>1. /\ chunk \in Chunk /\ chunk \notin CommittedIds(manifest)
      /\ matched \in 0..MaxMatched /\ pc = "control" /\ pc' = "pull"
  BY ControlCommits DEF OnControl
<1>2. e.chunk = chunk /\ e.count = matched
  BY DEF Committed
<1>3. /\ CommittedIds(manifest)' = CommittedIds(manifest) \cup {chunk}
      /\ Commits(manifest)' = Commits(manifest) \cup {e}
  BY ControlCommits
<1> HIDE DEF e
<1>4. CommittedRows' = CommittedRows \cup new
  BY <1>2, <1>3 DEF CommittedRows
<1>5. CommittedRows \cap new = {}
  <2> SUFFICES ASSUME NEW f \in Commits(manifest), NEW r, NEW s,
                      Row(f.chunk, r) = Row(chunk, s)
               PROVE  FALSE
    BY DEF CommittedRows
  <2>1. f.chunk = chunk
    BY DEF Row
  <2> QED  BY <1>1, <2>1 DEF Commits, CommittedIds
<1>6. new = Promised!RowsOf(chunk, matched)
  BY DEF Promised!RowsOf, Row
<1> HIDE DEF new
<1>7. VisibleRows' = Promised!(+)(VisibleRows, Promised!SetToBag(new))
  BY <1>4, <1>5 DEF OutputCommitted, Promised!(+), Promised!SetToBag
<1> QED  BY <1>1, <1>3, <1>6, <1>7 DEF Promised!Commit

\* Every step is one of the promise, or is not seen.
LEMMA StepSeen ==
  ASSUME Deployment, IInv, IInv', OutputCommitted, OutputCommitted', [Next]_vars
  PROVE  [Promised!Next]_(Promised!vars)
<1>1. CASE OnControl
  BY <1>1, CommitSeen DEF Promised!Next
<1>2. CASE ~OnControl
  <2>2. /\ Commits(manifest)' = Commits(manifest)
        /\ CommittedIds(manifest)' = CommittedIds(manifest)
    BY <1>2, OnlyControlCommits
  <2>3. CASE (pc = "done")' = (pc = "done")
    BY <2>2, <2>3, Unseen
  <2>4. CASE pc # "done" /\ pc' = "done"
    <3>1. CommittedIds(manifest) = Chunk
      <4>1. committed' \subseteq Chunk /\ next' = NumChunks
        BY <2>4 DEF IInv, TypeOK, Progress
      <4>2. {c \in Chunk : c < NumChunks} = Chunk
        BY NumChunksAssumption DEF Chunk
      <4> QED  BY <2>2, <2>4, <4>1, <4>2 DEF IInv, Progress
    <3> QED  BY <2>2, <2>4, <3>1, Unseen DEF Promised!Next, Promised!Finish
  <2>5. CASE pc = "done" /\ pc' # "done"
    BY <2>2, <2>5, Unseen DEF Promised!Next, Promised!Reopen
  <2> QED  BY <2>3, <2>4, <2>5
<1> QED  BY <1>1, <1>2

\* The engine with its crashes, failures, resumes, buffers, truncations and manifest
\* implements the ExactlyOnceOutput its reader was promised: the output is at every
\* moment the rows of the committed chunks, each once, and grows by whole chunks
\* (README: "a crash never loses committed data or double-counts it").
THEOREM PromiseKept == ASSUME Deployment PROVE Spec => KeepsPromise
<1>1. Init => Promised!Init
  <2> SUFFICES ASSUME Init PROVE Promised!Init
    OBVIOUS
  <2>1. Commits(manifest) = {} /\ CommittedIds(manifest) = {}
    BY DEF Init, EmptyManifest, CommitLines, Commits, CommittedIds
  <2>2. VisibleRows = Promised!EmptyBag
    <3>1. CommittedRows = {}
      BY <2>1 DEF CommittedRows
    <3> QED
      BY <3>1, InitInv, OutputIsCommitted
      DEF OutputCommitted, Promised!EmptyBag, Promised!SetToBag
  <2> QED  BY <2>1, <2>2 DEF Init, Promised!Init
<1>2. IInv => OutputCommitted
  BY OutputIsCommitted
<1>3. /\ IInv /\ IInv' /\ OutputCommitted /\ OutputCommitted' /\ [Next]_vars
      => [Promised!Next]_(Promised!vars)
  BY StepSeen
<1> QED  BY <1>1, <1>2, <1>3, Inductive, PTL DEF Spec, KeepsPromise, Promised!Spec
=============================================================================
