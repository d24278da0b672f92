------------------------ MODULE SpawnCampaign_proofs ------------------------
(***************************************************************************)
(* Proofs about the spawn campaign, for any number of chunks, batches in   *)
(* flight, pids, processes, tasks per process, rows and restarts.          *)
(***************************************************************************)
EXTENDS SpawnCampaign, CheckpointManifest_proofs, FiniteSetTheorems

USE SizeAssumption

-----------------------------------------------------------------------------
(* The inductive invariant *)

\* The manifest line of a chunk that a process has committed.
CommitEntry ==
    [type : {"committed"}, chunk : Chunk, file : Pid, offset : Nat, count : 0..MaxMatched]

Busy(p) == proc[p].state \in {"run", "write"}

BusyPids == {p \in Pid : Busy(p)}

\* What TypeOK does not say of the workers' states and of what they return.
Shapes ==
    /\ results \subseteq CommitEntry \cup {Error(c) : c \in Chunk}
    /\ pc = "control" => message \in CommitEntry
    /\ \A p \in BusyPids : p \in pool /\ proc[p].chunk \in Chunk

\* Between two runs, and while files are truncated, nobody works.
Quiet ==
    pc \in {"down", "done", "resume"} =>
        tasks = <<>> /\ results = {} /\ pool = {} /\ pending = <<>>

\* The batches in flight are waited for, and there is room for the next one
\* when the coordinator has taken a result.
InFlightCounted ==
    /\ IsFiniteSet(results)
    /\ Len(tasks) + Cardinality(BusyPids) + Cardinality(results) <= Len(pending)
    /\ Len(pending) <= InFlight
    /\ pc \in {"control", "refill"} => Len(pending) < InFlight

Elements(s)   == {s[i] : i \in DOMAIN s}
Increasing(s) == \A i, j \in DOMAIN s : i < j => s[i] < s[j]

Queued  == Elements(tasks)
Awaited == Elements(pending)

\* A batch is queued, run or answered, one of them at a time, and in the order
\* of the source: what is queued comes after all that is run or answered.
OnePlace ==
    /\ Increasing(tasks)
    /\ \A c \in Queued :
          /\ c < next
          /\ \A p \in BusyPids : proc[p].chunk < c
          /\ \A m \in results : m.chunk < c
    /\ \A p, q \in BusyPids : proc[p].chunk = proc[q].chunk => p = q
    /\ \A p \in BusyPids, m \in results : m.chunk # proc[p].chunk
    /\ \A m, n \in results : m.chunk = n.chunk => m = n

\* The deque holds the batches in the order of the source, and every batch that
\* is queued, run or answered; the result at hand comes before them.
AllAwaited ==
    /\ Increasing(pending)
    /\ Queued \subseteq Awaited
    /\ \A c \in Awaited : c < next
    /\ \A p \in BusyPids : proc[p].chunk \in Awaited
    /\ \A m \in results : m.chunk \in Awaited
    /\ pc = "control" => message.chunk < next /\ \A c \in Awaited : message.chunk < c

AtHand == IF pc = "control" THEN {message.chunk} ELSE {}

\* Every chunk the source has yielded is committed, awaited, or the one whose
\* result is at hand; and the manifest ends in a whole line once it got one.
Accounted ==
    /\ pc \in Running => committed \subseteq CommittedIds(manifest)
    /\ pc \in Running =>
          \A c \in 0 .. next - 1 : c \in CommittedIds(manifest) \cup Awaited \cup AtHand
    /\ WholeLines(manifest)
    /\ pending # <<>> \/ pc = "control" => manifest.terminated

\* A crash never leaves an entry complete but for its newline.
Deployment == PartialWrites \subseteq {"torn"}

\* Along a manifest's lines, the offsets a file was committed at grow.
LinesGrow(m) ==
    \A i, j \in CommitLines(m) :
        i <= j /\ m.lines[i].file = m.lines[j].file => m.lines[i].offset <= m.lines[j].offset

\* No line of the manifest has committed the file of an entry beyond the entry.
Continues(e) == \A x \in Commits(manifest) : x.file = e.file => x.offset <= e.offset

\* The results of a file continue its lines, in the order of their chunks, and
\* its process works on a later chunk.
ResultsGrow ==
    \A m \in results \cap CommitEntry :
       /\ m.offset <= synced[m.file] /\ Continues(m)
       /\ \A n \in results \cap CommitEntry :
             m.file = n.file /\ m.chunk < n.chunk => m.offset <= n.offset
       /\ \A p \in BusyPids : m.file = p => m.chunk < proc[p].chunk

\* The result at hand comes between the two.
MessageBetween ==
    pc = "control" =>
       /\ message.offset <= synced[message.file] /\ Continues(message)
       /\ \A m \in results \cap CommitEntry :
             m.file = message.file => message.offset <= m.offset

OffsetsGrow == LinesGrow(manifest) /\ ResultsGrow /\ MessageBetween

-----------------------------------------------------------------------------
(* Types *)

\* A committed line of a well-typed manifest has the fields of one.
LEMMA CommitLineType ==
  ASSUME NEW m \in Manifests(Entry), NEW i \in CommitLines(m)
  PROVE  m.lines[i] \in CommitEntry
<1>1. m.lines[i] \in Entry /\ m.lines[i].type = "committed"
  BY DEF CommitLines, Manifests
<1> QED  BY <1>1 DEF Entry, Entries, Distributed, Junk, CommitEntry

\* The offset a resume truncates to is that of a committed line of the file, or 0.
LEMMA CommittedOffsetType ==
  ASSUME NEW m \in Manifests(Entry)
  PROVE  /\ CommittedIds(m) \subseteq Chunk
         /\ \A p \in Pid : CommittedOffset(m, p) \in Nat
<1>1. CommittedIds(m) \subseteq Chunk
  BY CommitLineType DEF CommittedIds, CommitEntry
<1>2. ASSUME NEW p \in Pid PROVE CommittedOffset(m, p) \in Nat
  <2>1. CASE CommitLinesOf(m, p) = {}
    BY <2>1 DEF CommittedOffset
  <2>2. CASE CommitLinesOf(m, p) # {}
    <3>1. LastCommitLine(m, p) \in CommitLines(m)
      BY <2>2, LastCommitIsLast DEF CommitLinesOf
    <3> QED  BY <2>2, <3>1, CommitLineType DEF CommittedOffset, CommitEntry
  <2> QED  BY <2>1, <2>2
<1> QED  BY <1>1, <1>2

\* The entries the engine appends.
LEMMA EntryTypes ==
  /\ EmptyManifest \in Manifests(Entry)
  /\ Junk \in Entry
  /\ \A c \in Chunk : Distributed(c) \in Entry
  /\ CommitEntry \subseteq Entry
  /\ \A e \in CommitEntry : e.type = "committed"
  /\ \A c \in Chunk, p \in Pid, o \in Nat, n \in 0..MaxMatched :
        Committed(c, p, o, n) \in CommitEntry
  BY DEF EmptyManifest, Manifests, Entry, Entries, Distributed, Committed, CommitEntry

\* The limits are positive numbers.
LEMMA Limits ==
  /\ FlushRows \in Nat \ {0} /\ Workers \in Nat \ {0} /\ InFlight \in Nat \ {0}
  /\ MaxTasksPerChild \in Nat \ {0}
  OBVIOUS

\* A full buffer is written in whole buffers, never more than there is.
LEMMA FlushedRows ==
  ASSUME NEW n \in Nat, NEW f \in Nat \ {0}
  PROVE  (n \div f) * f \in 0..n
<1>1. n = f * (n \div f) + (n % f)
  OBVIOUS
<1>2. n \div f \in Nat /\ n % f \in 0..f - 1
  OBVIOUS
<1> QED  BY <1>1, <1>2

\* A crash takes away no synced cell.
LEMMA SurvivorsKeepSynced ==
  ASSUME TypeOK, NEW p \in Pid, NEW s \in SurvivingFiles(p)
  PROVE  s \in Seq(Cell) /\ synced[p] \in 0..Len(s)
<1> DEFINE cells == file[p]
           low   == synced[p]
<1>1. cells \in Seq(Cell) /\ Len(cells) \in Nat /\ low \in 0..Len(cells)
  BY DEF TypeOK
<1>2. PICK n \in low..Len(cells) :
         s = SubSeq(cells, 1, n) \/ s = Append(SubSeq(cells, 1, n), Torn)
  <2>1. CASE s \in {SubSeq(cells, 1, n) : n \in low..Len(cells)}
    BY <2>1
  <2>2. CASE s \in {Append(SubSeq(cells, 1, n), Torn) : n \in low..(Len(cells) - 1)}
    <3>1. PICK k \in low..(Len(cells) - 1) : s = Append(SubSeq(cells, 1, k), Torn)
      BY <2>2
    <3>2. k \in low..Len(cells)
      BY <1>1
    <3> QED  BY <3>1, <3>2
  <2> QED  BY <2>1, <2>2 DEF SurvivingFiles
<1> HIDE DEF cells, low
<1>3. SubSeq(cells, 1, n) \in Seq(Cell) /\ Len(SubSeq(cells, 1, n)) = n
  <2>1. n \in Nat /\ \A i \in 1..n : cells[i] \in Cell
    BY <1>1, ElementOfSeq
  <2> QED  BY <2>1, SubSeqProperties
<1>4. Torn \in Cell
  BY DEF Cell
<1> HIDE DEF Cell
<1>5. s \in Seq(Cell) /\ Len(s) \in {n, n + 1}
  <2>1. CASE s = SubSeq(cells, 1, n)
    BY <1>3, <2>1
  <2>2. CASE s = Append(SubSeq(cells, 1, n), Torn)
    BY <1>3, <1>4, <2>2, AppendProperties
  <2> QED  BY <1>2, <2>1, <2>2
<1>6. low \in 0..Len(s)
  BY <1>1, <1>5
<1> QED  BY <1>5, <1>6 DEF low

\* What a crash leaves of the files is well typed.
LEMMA CutFilesType ==
  ASSUME TypeOK, FilesCut
  PROVE  /\ file' \in [Pid -> Seq(Cell)]
         /\ \A p \in Pid : synced[p] \in 0..Len(file'[p])
<1>1. \A p \in Pid : file'[p] \in SurvivingFiles(p)
  BY DEF FilesCut
<1>2. DOMAIN file' = Pid /\ file' = [p \in Pid |-> file'[p]]
  BY DEF FilesCut
<1> HIDE DEF FilesCut
<1>3. \A p \in Pid : file'[p] \in Seq(Cell) /\ synced[p] \in 0..Len(file'[p])
  BY <1>1, SurvivorsKeepSynced
<1> QED  BY <1>2, <1>3

\* The first state.
LEMMA InitTypes == Init => TypeOK /\ Shapes /\ Quiet
<1> SUFFICES ASSUME Init PROVE TypeOK /\ Shapes /\ Quiet
  OBVIOUS
<1>1. manifest \in Manifests(Entry)
  BY EntryTypes DEF Init
<1>2. Cardinality(pool) <= Workers
  BY FS_EmptySet DEF Init
<1>3. proc \in [Pid -> [state : {"none", "idle", "run", "write"}, chunk : Nat,
                        matched : 0..MaxMatched, buffer : Seq(RowCell),
                        served : 0..MaxTasksPerChild - 1]]
  BY DEF Init, NoProcess
<1>4. BusyPids = {}
  BY DEF Init, BusyPids, Busy, NoProcess
<1>5. TypeOK
  BY <1>1, <1>2, <1>3 DEF Init, TypeOK, Running, NoMessage
<1>6. Shapes /\ Quiet
  BY <1>4 DEF Init, Shapes, Quiet
<1> QED  BY <1>5, <1>6

\* The type of a process.
ProcessType ==
    [state : {"none", "idle", "run", "write"}, chunk : Nat, matched : 0..MaxMatched,
     buffer : Seq(RowCell), served : 0..MaxTasksPerChild - 1]

\* A process that has served a task is idle, or gone.
LEMMA ServedType ==
  ASSUME NEW q \in ProcessType
  PROVE  Served(q) \in ProcessType /\ Served(q).state \in {"none", "idle"}
<1>1. NoProcess \in ProcessType /\ NoProcess.state = "none"
  BY Limits DEF NoProcess, ProcessType
<1>2. CASE q.served + 1 = MaxTasksPerChild
  BY <1>1, <1>2 DEF Served
<1>3. CASE q.served + 1 # MaxTasksPerChild
  <2>1. q.served + 1 \in 0..MaxTasksPerChild - 1
    BY <1>3, Limits DEF ProcessType
  <2> QED  BY <1>3, <2>1 DEF Served, ProcessType
<1> QED  BY <1>2, <1>3

\* The pool never outgrows its size.
LEMMA PoolSize ==
  ASSUME TypeOK
  PROVE  /\ IsFiniteSet(pool) /\ Cardinality(pool) \in Nat
         /\ \A p \in Pid : Cardinality(pool \ {p}) <= Workers
         /\ \A p \in Pid : p \in pool \/ Cardinality(pool) < Workers =>
               Cardinality(pool \cup {p}) <= Workers
<1>1. IsFiniteSet(pool) /\ Cardinality(pool) \in Nat
  BY FS_Subset, FS_CardinalityType DEF TypeOK
<1>2. Cardinality(pool) <= Workers
  BY DEF TypeOK
<1>3. ASSUME NEW p \in Pid PROVE Cardinality(pool \ {p}) <= Workers
  <2>1. Cardinality(pool \ {p}) \in {Cardinality(pool), Cardinality(pool) - 1}
    BY <1>1, FS_RemoveElement
  <2> QED  BY <1>1, <1>2, <2>1, Limits
<1>4. ASSUME NEW p \in Pid, p \in pool PROVE Cardinality(pool \cup {p}) <= Workers
  BY <1>1, <1>2, <1>4, FS_AddElement
<1>5. ASSUME NEW p \in Pid, Cardinality(pool) < Workers
      PROVE  Cardinality(pool \cup {p}) <= Workers
  <2>1. Cardinality(pool \cup {p}) \in {Cardinality(pool), Cardinality(pool) + 1}
    BY <1>1, FS_AddElement
  <2> QED  BY <1>1, <1>5, <2>1, Limits
<1> QED  BY <1>1, <1>3, <1>4, <1>5

\* The chunk submitted next is a chunk, beyond all that were submitted before.
LEMMA YieldedType ==
  ASSUME TypeOK, NEW c, Yielded(c)
  PROVE  c \in Chunk /\ next <= c /\ c + 1 \in 0..NumChunks /\ c \in Nat
  BY DEF TypeOK, Yielded, Chunk

\* Submitting it keeps what it changes well typed.
LEMMA SubmitType ==
  ASSUME TypeOK, NEW c, Submit(c)
  PROVE  /\ next' \in 0..NumChunks
         /\ manifest' \in Manifests(Entry)
         /\ pending' \in Seq(Chunk)
         /\ tasks' \in Seq(Chunk)
<1>1. c \in Chunk /\ c + 1 \in 0..NumChunks
  BY YieldedType DEF Submit
<1>2. AppendEntry(manifest, Distributed(c)) \in Manifests(Entry)
  BY <1>1, EntryTypes, AppendTyped DEF TypeOK
<1> QED  BY <1>1, <1>2 DEF Submit, TypeOK

\* Every step of the coordinator keeps the state well typed.
LEMMA CoordinatorTypes ==
  ASSUME TypeOK, Shapes, Coordinate \/ Start
  PROVE  TypeOK'
<1> USE DEF TypeOK, Running
<1>1. CASE Start
  <2>1. committed' \subseteq Chunk
    BY <1>1, CommittedOffsetType DEF Start
  <2>2. runs' \in 0..MaxRuns
    BY <1>1 DEF Start
  <2>3. truncate' \subseteq Pid /\ leftover' \in [Pid -> Nat] /\ pc' \in {"submit", "resume"}
    <3>1. \A p \in Pid : Len(file[p]) \in Nat
      OBVIOUS
    <3>2. leftover \in [Pid -> Nat]
      OBVIOUS
    <3> HIDE DEF TypeOK
    <3>3. \/ leftover' = [p \in Pid |-> Len(file[p])]
          \/ leftover' = [p \in Pid |-> Smaller(leftover[p], Len(file[p]))]
      BY <1>1 DEF Start
    <3>4. truncate' \subseteq Pid /\ pc' \in {"submit", "resume"}
      BY <1>1 DEF Start
    <3> QED  BY <3>1, <3>2, <3>3, <3>4 DEF Smaller
  <2>4. /\ next' \in 0..NumChunks /\ pending' \in Seq(Chunk) /\ message' = NoMessage
        /\ counter' \in [matched : Nat, chunks : Nat]
        /\ UNCHANGED <<disk, workers>>
    BY <1>1 DEF Start
  <2> QED  BY <2>1, <2>2, <2>3, <2>4 DEF disk, workers
<1>2. ASSUME NEW p \in Pid, TruncateFile(p) PROVE TypeOK'
  <2>1. CommittedOffset(manifest, p) \in Nat
    BY CommittedOffsetType
  <2>2. /\ TruncateTo(file[p], ResumeOffset(p)) \in Seq(Cell)
        /\ Len(TruncateTo(file[p], ResumeOffset(p))) = CommittedOffset(manifest, p)
    <3>1. Hole \in Cell /\ file[p] \in Seq(Cell)
      BY DEF Cell
    <3> HIDE DEF TypeOK
    <3> QED  BY <2>1, <3>1, TruncatedType DEF ResumeOffset
  <2>3. /\ file' \in [Pid -> Seq(Cell)] /\ synced' \in [Pid -> Nat]
        /\ \A q \in Pid : synced'[q] \in 0..Len(file'[q])
    <3>1. /\ file' = [file EXCEPT ![p] = TruncateTo(file[p], ResumeOffset(p))]
          /\ synced' = [synced EXCEPT ![p] = Smaller(synced[p], ResumeOffset(p))]
      BY <1>2 DEF TruncateFile
    <3>2. Smaller(synced[p], ResumeOffset(p)) \in 0..CommittedOffset(manifest, p)
      <4>1. synced[p] \in Nat
        OBVIOUS
      <4> HIDE DEF TypeOK
      <4> QED  BY <2>1, <4>1 DEF Smaller, ResumeOffset
    <3>3. file' \in [Pid -> Seq(Cell)] /\ synced' \in [Pid -> Nat]
      <4>1. file' \in [Pid -> Seq(Cell)]
        BY <2>2, <3>1
      <4>2. Smaller(synced[p], ResumeOffset(p)) \in Nat
        BY <2>1, <3>2
      <4> QED  BY <3>1, <4>1, <4>2
    <3>4. ASSUME NEW q \in Pid PROVE synced'[q] \in 0..Len(file'[q])
      <4>1. CASE q = p
        <5>1. /\ synced'[p] = Smaller(synced[p], ResumeOffset(p))
              /\ file'[p] = TruncateTo(file[p], ResumeOffset(p))
          BY <3>1
        <5> HIDE DEF TypeOK
        <5> QED  BY <2>2, <3>2, <4>1, <5>1
      <4>2. CASE q # p
        BY <3>1, <4>2
      <4> QED  BY <4>1, <4>2
    <3> QED  BY <3>3, <3>4
  <2>4. leftover' \in [Pid -> Nat]
    BY <1>2, <2>1 DEF TruncateFile, ResumeOffset, Smaller
  <2> QED  BY <1>2, <2>3, <2>4 DEF TruncateFile, workers
<1>3. CASE Resumed
  BY <1>3 DEF Resumed, disk, workers
<1>4. CASE FirstBatches
  BY <1>4, SubmitType DEF FirstBatches
<1>5. CASE Submitted
  BY <1>5 DEF Submitted, disk, workers
<1>6. CASE Get
  <2>1. message' \in Entry
    BY <1>6 DEF Get, Error
  <2>2. Tail(pending) \in Seq(Chunk)
    BY <1>6, HeadTailProperties DEF Get
  <2> QED  BY <1>6, <2>1, <2>2 DEF Get, disk
<1>7. CASE OnControl
  <2>1. message \in Entry /\ message.count \in Nat
    BY <1>7, EntryTypes DEF OnControl, Shapes, CommitEntry
  <2>2. manifest' \in Manifests(Entry)
    BY <1>7, <2>1, EntryTypes, AppendTyped DEF OnControl
  <2>3. counter' \in [matched : Nat, chunks : Nat]
    <3>1. counter.matched \in Nat /\ counter.chunks \in Nat
      OBVIOUS
    <3> HIDE DEF TypeOK
    <3> QED  BY <1>7, <2>1, <3>1 DEF OnControl
  <2> QED  BY <1>7, <2>2, <2>3 DEF OnControl, workers
<1>8. CASE Refill
  BY <1>8, SubmitType DEF Refill
<1>9. ASSUME PoolTerminated
      PROVE  /\ tasks' \in Seq(Chunk) /\ results' = {}
             /\ proc' \in [Pid -> ProcessType]
             /\ pool' \subseteq Pid /\ Cardinality(pool') <= Workers
  <2>1. NoProcess \in ProcessType
    BY Limits DEF NoProcess, ProcessType
  <2> QED  BY <1>9, <2>1, FS_EmptySet, Limits DEF PoolTerminated, ProcessType
<1>10. CASE GetError
  <2>1. /\ file' \in [Pid -> Seq(Cell)]
        /\ \A p \in Pid : synced'[p] \in 0..Len(file'[p])
    BY <1>10, CutFilesType DEF GetError
  <2>2. /\ tasks' \in Seq(Chunk) /\ results' = {}
        /\ proc' \in [Pid -> ProcessType]
        /\ pool' \subseteq Pid /\ Cardinality(pool') <= Workers
    BY <1>9, <1>10 DEF GetError
  <2>3. /\ pc' = "down" /\ truncate' = {} /\ committed' = {} /\ next' = 0
        /\ pending' = <<>> /\ message' = NoMessage /\ counter' = [matched |-> 0, chunks |-> 0]
        /\ UNCHANGED <<manifest, synced, runs, leftover>>
    BY <1>10 DEF GetError, MemoryLost
  <2>4. /\ counter' \in [matched : Nat, chunks : Nat] /\ next' \in 0..NumChunks
        /\ pending' \in Seq(Chunk) /\ committed' \subseteq Chunk
    BY <2>3
  <2>5. /\ manifest' \in Manifests(Entry) /\ synced' \in [Pid -> Nat]
        /\ runs' \in 0..MaxRuns /\ leftover' \in [Pid -> Nat]
    BY <2>3
  <2> QED  BY <2>1, <2>2, <2>3, <2>4, <2>5 DEF ProcessType
<1>11. CASE Finish
  BY <1>9, <1>11 DEF Finish, ProcessType, disk
<1> QED
  BY <1>1, <1>2, <1>3, <1>4, <1>5, <1>6, <1>7, <1>8, <1>10, <1>11 DEF Coordinate

\* Every step of a worker process does,
LEMMA WorkerTypes ==
  ASSUME TypeOK, Shapes, NEW p \in Pid, Take(p) \/ Process(p) \/ Raise(p)
  PROVE  TypeOK'
<1> USE DEF TypeOK, Running
<1>0. proc \in [Pid -> ProcessType] /\ proc[p] \in ProcessType
  BY DEF ProcessType
<1>1. CASE Take(p)
  <2>1. Head(tasks) \in Chunk /\ Tail(tasks) \in Seq(Chunk) /\ Head(tasks) \in Nat
    <3>1. Head(tasks) \in Chunk /\ Tail(tasks) \in Seq(Chunk)
      BY <1>1, HeadTailProperties DEF Take
    <3> QED  BY <3>1 DEF Chunk
  <2>2. NewProcess \in ProcessType
    <3>1. NoProcess \in ProcessType
      BY Limits DEF NoProcess, ProcessType
    <3> QED  BY <3>1 DEF NewProcess, ProcessType
  <2>3. proc' \in [Pid -> ProcessType]
    BY <1>0, <1>1, <2>1, <2>2 DEF Take, ProcessType
  <2>4. pool' \subseteq Pid /\ Cardinality(pool') <= Workers
    BY <1>1, PoolSize DEF Take
  <2> QED  BY <1>1, <2>1, <2>3, <2>4 DEF Take, disk, coordinator, ProcessType
<1>2. CASE RunBatch(p)
  <2>1. PICK k \in 0..MaxMatched : Write(p, k)
    BY <1>2 DEF RunBatch
  <2> DEFINE new     == [r \in 1..k |-> Row(proc[p].chunk, r)]
             cells   == proc[p].buffer \o new
             flushed == (Len(cells) \div FlushRows) * FlushRows
  <2>2. new \in Seq(RowCell)
    <3> HIDE DEF TypeOK
    <3>1. new \in [1..k -> RowCell] /\ k \in Nat
      <4>1. proc[p].chunk \in Nat
        BY <1>0 DEF ProcessType
      <4>2. \A i \in 1..k : Row(proc[p].chunk, i) \in RowCell
        BY <4>1 DEF Row, RowCell
      <4> QED  BY <4>2
    <3> QED  BY <3>1
  <2>3. cells \in Seq(RowCell) /\ Len(cells) \in Nat
    BY <1>0, <2>2, ConcatProperties DEF ProcessType
  <2>4. flushed \in 0..Len(cells)
    BY <2>3, FlushedRows, Limits
  <2>5. /\ file' = [file EXCEPT ![p] = @ \o SubSeq(cells, 1, flushed)]
        /\ proc' = [proc EXCEPT ![p].buffer = SubSeq(cells, flushed + 1, Len(cells)),
                                ![p].matched = k,
                                ![p].state = "write"]
    BY <2>1 DEF Write
  <2> HIDE DEF cells, flushed
  <2>6. /\ SubSeq(cells, 1, flushed) \in Seq(RowCell)
        /\ SubSeq(cells, flushed + 1, Len(cells)) \in Seq(RowCell)
    <3>1. flushed \in Nat /\ \A i \in 1..Len(cells) : cells[i] \in RowCell
      BY <2>3, <2>4, ElementOfSeq
    <3>2. SubSeq(cells, 1, flushed) \in Seq(RowCell)
      <4>1. \A i \in 1..flushed : cells[i] \in RowCell
        BY <2>3, <2>4, <3>1
      <4> QED  BY <3>1, <4>1, SubSeqProperties
    <3>3. SubSeq(cells, flushed + 1, Len(cells)) \in Seq(RowCell)
      <4>1. \A i \in flushed + 1 .. Len(cells) : cells[i] \in RowCell
        BY <2>3, <2>4, <3>1
      <4> QED  BY <2>3, <3>1, <4>1, SubSeqProperties
    <3> QED  BY <3>2, <3>3
  <2>7. proc' \in [Pid -> ProcessType]
    BY <1>0, <2>5, <2>6 DEF ProcessType
  <2>8. SubSeq(cells, 1, flushed) \in Seq(Cell)
    BY <2>6, SeqMonotonic DEF Cell
  <2>9. file' \in [Pid -> Seq(Cell)] /\ \A q \in Pid : synced[q] \in 0..Len(file'[q])
    <3> DEFINE longer == file[p] \o SubSeq(cells, 1, flushed)
    <3>1. longer \in Seq(Cell) /\ Len(file[p]) \in Nat /\ Len(longer) \in Nat
          /\ Len(file[p]) <= Len(longer)
      <4>1. file[p] \in Seq(Cell) /\ Len(file[p]) \in Nat
        OBVIOUS
      <4> HIDE DEF TypeOK
      <4>2. Len(SubSeq(cells, 1, flushed)) \in Nat
        BY <2>8, LenProperties
      <4> QED  BY <2>8, <4>1, <4>2, ConcatProperties
    <3>2. file' = [file EXCEPT ![p] = longer]
      BY <2>5
    <3> HIDE DEF longer
    <3>3. file' \in [Pid -> Seq(Cell)]
      BY <3>1, <3>2
    <3>4. ASSUME NEW q \in Pid PROVE synced[q] \in 0..Len(file'[q])
      <4>1. synced[q] \in 0..Len(file[q]) /\ file'[q] = IF q = p THEN longer ELSE file[q]
        BY <3>2
      <4> HIDE DEF TypeOK
      <4> QED  BY <3>1, <4>1
    <3> QED  BY <3>3, <3>4
  <2> QED  BY <1>2, <2>7, <2>9 DEF RunBatch, coordinator, ProcessType
<1>3. ASSUME NEW q \in ProcessType, proc' = [proc EXCEPT ![p] = Served(q)],
             pool' = PoolAfter(p)
      PROVE  /\ proc' \in [Pid -> ProcessType]
             /\ pool' \subseteq Pid /\ Cardinality(pool') <= Workers
  BY <1>0, <1>3, ServedType, PoolSize DEF PoolAfter
<1>4. ASSUME p \in BusyPids PROVE proc[p].chunk \in Chunk
  BY <1>4 DEF Shapes
<1>5. CASE Raise(p)
  <2>1. p \in BusyPids
    BY <1>5 DEF Raise, BusyPids, Busy
  <2> QED
    BY <1>0, <1>3, <1>4, <1>5, <2>1 DEF Raise, disk, coordinator, ProcessType
<1>6. CASE CommitSink(p)
  <2>1. p \in BusyPids
    BY <1>6 DEF CommitSink, BusyPids, Busy
  <2>2. Flushed(proc[p]) \in ProcessType
    <3>1. <<>> \in Seq(RowCell)
      OBVIOUS
    <3> QED  BY <1>0, <3>1 DEF Flushed, ProcessType
  <2>3. file[p] \in Seq(Cell) /\ proc[p].buffer \in Seq(Cell)
    BY <1>0, SeqMonotonic DEF Cell, ProcessType
  <2>4. /\ file' \in [Pid -> Seq(Cell)] /\ synced' \in [Pid -> Nat]
        /\ \A q \in Pid : synced'[q] \in 0..Len(file'[q])
        /\ Len(file'[p]) \in Nat
    <3> DEFINE longer == file[p] \o proc[p].buffer
    <3>1. longer \in Seq(Cell) /\ Len(longer) \in Nat
      <4> HIDE DEF TypeOK, Cell
      <4>1. longer \in Seq(Cell)
        BY <2>3, ConcatProperties
      <4> QED  BY <4>1, LenProperties
    <3>2. file' = [file EXCEPT ![p] = longer] /\ synced' = [synced EXCEPT ![p] = Len(file'[p])]
      BY <1>6 DEF CommitSink, SyncSink
    <3> HIDE DEF longer
    <3>3. file' \in [Pid -> Seq(Cell)] /\ file'[p] = longer /\ synced' \in [Pid -> Nat]
      BY <3>1, <3>2
    <3>4. ASSUME NEW q \in Pid PROVE synced'[q] \in 0..Len(file'[q])
      <4>1. CASE q = p
        BY <3>1, <3>2, <3>3, <4>1
      <4>2. CASE q # p
        BY <3>2, <4>2
      <4> QED  BY <4>1, <4>2
    <3> QED  BY <3>1, <3>3, <3>4
  <2>5. Committed(proc[p].chunk, p, Len(file'[p]), proc[p].matched) \in Entry
    BY <1>0, <1>4, <2>1, <2>4, EntryTypes DEF ProcessType
  <2>6. /\ proc' \in [Pid -> ProcessType]
        /\ pool' \subseteq Pid /\ Cardinality(pool') <= Workers
    BY <1>3, <1>6, <2>2 DEF CommitSink
  <2> QED  BY <1>6, <2>4, <2>5, <2>6 DEF CommitSink, SyncSink, coordinator, ProcessType
<1> QED  BY <1>1, <1>2, <1>5, <1>6 DEF Process

\* and so does a crash.
LEMMA CrashTypes ==
  ASSUME TypeOK, Shapes, Crash
  PROVE  TypeOK'
<1> USE DEF TypeOK, Running
<1>1. EntryUnderway \subseteq Entry
  <2>1. \A c : Yielded(c) => Distributed(c) \in Entry
    BY YieldedType, EntryTypes
  <2> QED  BY <2>1, EntryTypes DEF EntryUnderway, Shapes
<1>2. manifest' \in Manifests(Entry)
  <2>1. manifest' \in SurvivingManifests
    BY DEF Crash
  <2> QED  BY <1>1, <2>1, EntryTypes, AppendTyped DEF SurvivingManifests
<1>3. proc' \in [Pid -> ProcessType]
  <2>1. NoProcess \in ProcessType
    BY Limits DEF NoProcess, ProcessType
  <2> QED  BY <2>1 DEF Crash, AllProcessesStop
<1> QED
  BY <1>2, <1>3, CutFilesType, FS_EmptySet, Limits
  DEF Crash, MemoryLost, AllProcessesStop, NoMessage, ProcessType

\* So every step does.
LEMMA NextTypeOK ==
  ASSUME TypeOK, Shapes, Next
  PROVE  TypeOK'
  BY CoordinatorTypes, WorkerTypes, CrashTypes DEF Next

-----------------------------------------------------------------------------
(* Who works on what *)

\* What each step changes of the busy processes: a Take adds one, on the first
\* queued chunk,
LEMMA BusyTake ==
  ASSUME TypeOK, NEW p \in Pid, Take(p)
  PROVE  /\ p \notin BusyPids
         /\ BusyPids' = BusyPids \cup {p}
         /\ proc'[p].chunk = Head(tasks)
         /\ \A q \in BusyPids : proc'[q] = proc[q]
<1>1. /\ proc[p].state \in {"none", "idle"}
      /\ \A q \in Pid : q # p => proc'[q] = proc[q]
      /\ proc'[p].state = "run" /\ proc'[p].chunk = Head(tasks)
  BY DEF Take, TypeOK, NewProcess, NoProcess
<1> QED  BY <1>1 DEF BusyPids, Busy

\* writing leaves every process at its chunk,
LEMMA BusyRun ==
  ASSUME TypeOK, NEW p \in Pid, RunBatch(p)
  PROVE  /\ BusyPids' = BusyPids
         /\ \A q \in Pid : proc'[q].chunk = proc[q].chunk
<1>1. /\ proc[p].state = "run" /\ proc'[p].state = "write" /\ proc'[p].chunk = proc[p].chunk
      /\ \A q \in Pid : q # p => proc'[q] = proc[q]
  <2>1. PICK k, b : proc' = [proc EXCEPT ![p].buffer = b, ![p].matched = k,
                                         ![p].state = "write"]
    BY DEF RunBatch, Write
  <2>2. proc \in [Pid -> ProcessType] /\ proc[p].state = "run"
    BY DEF RunBatch, TypeOK, ProcessType
  <2> QED  BY <2>1, <2>2 DEF ProcessType
<1>2. \A q \in Pid : q \in BusyPids' <=> q \in BusyPids
  BY <1>1 DEF BusyPids, Busy
<1> QED  BY <1>1, <1>2 DEF BusyPids

\* an answer frees the process that gives it,
LEMMA BusyAnswer ==
  ASSUME TypeOK, NEW p \in Pid, CommitSink(p) \/ Raise(p)
  PROVE  /\ p \in BusyPids
         /\ BusyPids' = BusyPids \ {p}
         /\ \A q \in BusyPids' : proc'[q] = proc[q]
         /\ pool \ {p} \subseteq pool'
<1>1. proc[p].state = "write"
  BY DEF CommitSink, Raise
<1>2. PICK q \in ProcessType : proc' = [proc EXCEPT ![p] = Served(q)]
  <2>1. proc[p] \in ProcessType
    BY DEF TypeOK, ProcessType
  <2>2. Flushed(proc[p]) \in ProcessType
    <3>1. <<>> \in Seq(RowCell)
      OBVIOUS
    <3> QED  BY <2>1, <3>1 DEF Flushed, ProcessType
  <2> QED  BY <2>1, <2>2 DEF CommitSink, Raise
<1>3. proc'[p].state \in {"none", "idle"} /\ \A r \in Pid : r # p => proc'[r] = proc[r]
  BY <1>2, ServedType DEF TypeOK
<1>4. pool \ {p} \subseteq pool'
  BY DEF CommitSink, Raise, PoolAfter
<1>5. p \in BusyPids /\ BusyPids' = BusyPids \ {p}
  BY <1>1, <1>3 DEF BusyPids, Busy
<1>6. \A r \in BusyPids' : r \in Pid /\ r # p
  BY <1>5 DEF BusyPids
<1> QED  BY <1>3, <1>4, <1>5, <1>6

\* the end of a run leaves nobody busy,
LEMMA BusyStop ==
  ASSUME TypeOK, Shapes, GetError \/ Finish \/ Crash
  PROVE  BusyPids' = {}
<1>1. \A p \in Pid : p \in pool => proc'[p] = NoProcess
  BY DEF GetError, Finish, Crash, PoolTerminated, AllProcessesStop, TypeOK
<1>2. \A p \in Pid : p \notin pool => proc'[p] \in {NoProcess, proc[p]} /\ p \notin BusyPids
  BY DEF GetError, Finish, Crash, PoolTerminated, AllProcessesStop, Shapes
<1> QED  BY <1>1, <1>2 DEF BusyPids, Busy, NoProcess

\* and what leaves the processes alone leaves the busy ones alone.
LEMMA BusySame == UNCHANGED proc => BusyPids' = BusyPids
  BY DEF BusyPids, Busy

\* The steps that neither queue a chunk, nor take one, nor answer one.
Aside ==
    \/ \E p \in Pid : TruncateFile(p) \/ RunBatch(p)
    \/ Resumed
    \/ Submitted
    \/ Refill /\ Exhausted /\ UNCHANGED <<manifest, next, pending, tasks>>

\* The steps that queue a chunk.
Queue(c) == (FirstBatches \/ Refill) /\ Submit(c)

\* The steps that end a run.
Stop == GetError \/ Finish \/ Crash

\* A step is one of these.
LEMMA Kinds ==
  ASSUME Next
  PROVE  \/ Start \/ Aside \/ Get \/ OnControl \/ Stop
         \/ \E c : Queue(c)
         \/ \E p \in Pid : Take(p) \/ CommitSink(p) \/ Raise(p)
<1>1. FirstBatches => \E c : Queue(c)
  BY DEF FirstBatches, Queue
<1>2. Refill => Aside \/ \E c : Queue(c)
  BY DEF Refill, Queue, Aside
<1> QED  BY <1>1, <1>2 DEF Next, Coordinate, Process, Aside, Stop

\* What a step aside leaves as it is.
LEMMA AsideKeeps ==
  ASSUME TypeOK, Aside
  PROVE  /\ UNCHANGED <<manifest, committed, next, pending, message, tasks, results, pool>>
         /\ BusyPids' = BusyPids
         /\ \A p \in BusyPids : proc'[p].chunk = proc[p].chunk
         /\ pc' = "control" <=> pc = "control"
         /\ pc' \in {"down", "done", "resume"} => pc \in {"down", "done", "resume"}
         /\ pc' = "refill" => pc = "refill"
         /\ pc' \in Running => pc \in Running
<1>1. ASSUME NEW p \in Pid, RunBatch(p)
      PROVE  /\ UNCHANGED <<manifest, coordinator, tasks, results, pool>>
             /\ BusyPids' = BusyPids
             /\ \A q \in BusyPids : proc'[q].chunk = proc[q].chunk
  BY <1>1, BusyRun DEF RunBatch, BusyPids
<1>2. CASE \E p \in Pid : RunBatch(p)
  BY <1>1, <1>2 DEF coordinator
<1>3. CASE ~ \E p \in Pid : RunBatch(p)
  <2>1. UNCHANGED <<manifest, committed, next, pending, message, tasks, results, proc, pool>>
    BY <1>3 DEF Aside, TruncateFile, Resumed, Submitted, Refill, disk, workers
  <2>2. \/ pc' = pc /\ pc = "resume"
        \/ pc = "resume" /\ pc' = "submit"
        \/ pc = "submit" /\ pc' = "wait"
        \/ pc = "refill" /\ pc' = "wait"
    BY <1>3 DEF Aside, TruncateFile, Resumed, Submitted, Refill
  <2> QED  BY <2>1, <2>2, BusySame DEF Running
<1> QED  BY <1>2, <1>3

\* Where the control message goes and what it is.
LEMMA GetMessage ==
  ASSUME TypeOK, Shapes, Get
  PROVE  /\ message' \in results \cap CommitEntry
         /\ message'.chunk = Head(pending)
         /\ results' = results \ {message'}
  BY DEF Get, Shapes, Error

\* Every step leaves results, messages and processes in shape, and a run quiet before
\* it begins and after it ends.
LEMMA NextShapes ==
  ASSUME TypeOK, Shapes, Quiet, Next
  PROVE  Shapes' /\ Quiet'
<1> USE DEF Shapes, Quiet
<1>1. CASE Start
  <2>1. pc \in {"down", "done"} /\ UNCHANGED workers /\ BusyPids' = BusyPids
    BY <1>1, BusySame DEF Start, workers
  <2>2. BusyPids = {} /\ tasks = <<>> /\ results = {} /\ pool = {}
    BY <2>1
  <2> QED  BY <1>1, <2>1, <2>2 DEF Start, workers
<1>2. CASE Aside
  BY <1>2, AsideKeeps
<1>3. CASE Get
  <2>1. BusyPids' = BusyPids /\ UNCHANGED <<proc, pool>> /\ pc' = "control"
    BY <1>3, BusySame DEF Get
  <2> QED  BY <1>3, <2>1, GetMessage
<1>4. CASE OnControl
  <2>1. BusyPids' = BusyPids /\ UNCHANGED workers /\ pc' = "refill"
    BY <1>4, BusySame DEF OnControl, workers
  <2> QED  BY <2>1 DEF workers
<1>5. CASE Stop
  <2>1. BusyPids' = {} /\ pc' \in {"down", "done"}
    BY <1>5, BusyStop DEF Stop, GetError, Finish, Crash
  <2>2. tasks' = <<>> /\ results' = {} /\ pool' = {} /\ pending' = <<>>
    BY <1>5
    DEF Stop, GetError, Finish, Crash, PoolTerminated, AllProcessesStop, MemoryLost
  <2> QED  BY <2>1, <2>2
<1>6. ASSUME NEW c, Queue(c) PROVE Shapes' /\ Quiet'
  <2>1. BusyPids' = BusyPids /\ UNCHANGED <<results, proc, pool>> /\ pc' \in {"submit", "wait"}
    BY <1>6, BusySame DEF Queue, FirstBatches, Refill
  <2> QED  BY <2>1
<1>7. ASSUME NEW p \in Pid, Take(p) PROVE Shapes' /\ Quiet'
  <2>1. UNCHANGED <<coordinator, results>> /\ pool' = pool \cup {p} /\ tasks # <<>>
    BY <1>7 DEF Take
  <2>2. /\ BusyPids' = BusyPids \cup {p} /\ proc'[p].chunk = Head(tasks)
        /\ \A q \in BusyPids : proc'[q] = proc[q]
    BY <1>7, BusyTake
  <2>3. Head(tasks) \in Chunk
    BY <2>1, HeadTailProperties DEF TypeOK
  <2>4. pc \notin {"down", "done", "resume"}
    BY <2>1
  <2> QED  BY <2>1, <2>2, <2>3, <2>4 DEF coordinator
<1>8. ASSUME NEW p \in Pid, CommitSink(p) \/ Raise(p) PROVE Shapes' /\ Quiet'
  <2>1. /\ p \in BusyPids /\ BusyPids' = BusyPids \ {p} /\ pool \ {p} \subseteq pool'
        /\ \A q \in BusyPids' : proc'[q] = proc[q]
    BY <1>8, BusyAnswer
  <2>2. UNCHANGED <<coordinator, tasks>>
    BY <1>8 DEF CommitSink, Raise
  <2>3. pc \notin {"down", "done", "resume"}
    BY <2>1
  <2>4. results' \subseteq CommitEntry \cup {Error(c) : c \in Chunk}
    <3>1. proc[p].chunk \in Chunk /\ proc[p].matched \in 0..MaxMatched
      BY <2>1 DEF TypeOK
    <3>2. CASE Raise(p)
      BY <3>1, <3>2 DEF Raise
    <3>3. CASE CommitSink(p)
      <4>1. file'[p] \in Seq(Cell)
        BY <3>3, NextTypeOK DEF TypeOK
      <4>2. Len(file'[p]) \in Nat
        BY <4>1, LenProperties
      <4> QED  BY <3>1, <3>3, <4>2, EntryTypes DEF CommitSink
    <3> QED  BY <1>8, <3>2, <3>3
  <2> QED  BY <2>1, <2>2, <2>3, <2>4 DEF coordinator
<1> QED  BY <1>1, <1>2, <1>3, <1>4, <1>5, <1>6, <1>7, <1>8, Kinds

\* Standing still changes none of it.
LEMMA BaseStutters ==
  TypeOK /\ Shapes /\ Quiet /\ UNCHANGED vars => TypeOK' /\ Shapes' /\ Quiet'
  BY BusySame DEF TypeOK, Shapes, Quiet, vars, disk, coordinator, workers

\* TypeOK holds of every instance of the specification.
THEOREM TypeCorrect == Spec => []TypeOK
<1>1. TypeOK /\ Shapes /\ Quiet /\ [Next]_vars => (TypeOK /\ Shapes /\ Quiet)'
  BY NextTypeOK, NextShapes, BaseStutters
<1> QED  BY InitTypes, <1>1, PTL DEF Spec

-----------------------------------------------------------------------------
(* The batches in flight *)

\* The busy processes can be counted.
LEMMA BusyFinite ==
  /\ IsFiniteSet(BusyPids) /\ Cardinality(BusyPids) \in Nat
  /\ IsFiniteSet(BusyPids') /\ Cardinality(BusyPids') \in Nat
<1>1. BusyPids \in SUBSET Pid /\ BusyPids' \in SUBSET Pid
  BY DEF BusyPids
<1> QED  BY <1>1, FS_Subset, FS_CardinalityType

\* No step puts more batches in flight than are waited for.
LEMMA NextCounted ==
  ASSUME TypeOK, Shapes, Quiet, InFlightCounted, Next
  PROVE  InFlightCounted'
<1> USE DEF InFlightCounted
<1> DEFINE queued   == Len(tasks)
           busy     == Cardinality(BusyPids)
           answered == Cardinality(results)
           awaited  == Len(pending)
<1>0. /\ queued \in Nat /\ busy \in Nat /\ answered \in Nat /\ awaited \in Nat
      /\ IsFiniteSet(results)
  BY BusyFinite, FS_CardinalityType DEF TypeOK
<1>1. ASSUME tasks' = <<>>, BusyPids' = {}, results' = {}, pending' = <<>>,
             pc' \notin {"control", "refill"}
      PROVE  InFlightCounted'
  <2>1. Cardinality({}) = 0 /\ IsFiniteSet({}) /\ Len(<<>>) = 0
    BY FS_EmptySet
  <2> QED  BY <1>1, <2>1, Limits
<1>2. CASE Start
  <2>1. pc \in {"down", "done"} /\ UNCHANGED workers /\ BusyPids' = BusyPids
    BY <1>2, BusySame DEF Start, workers
  <2>2. BusyPids' = {} /\ tasks' = <<>> /\ results' = {}
    BY <2>1 DEF Quiet, Shapes, workers
  <2> QED  BY <1>1, <1>2, <2>2 DEF Start
<1>3. CASE Stop
  <2>1. BusyPids' = {} /\ pc' \in {"down", "done"}
    BY <1>3, BusyStop DEF Stop, GetError, Finish, Crash
  <2>2. tasks' = <<>> /\ results' = {} /\ pending' = <<>>
    BY <1>3
    DEF Stop, GetError, Finish, Crash, PoolTerminated, AllProcessesStop, MemoryLost
  <2> QED  BY <1>1, <2>1, <2>2
<1>4. CASE Aside
  BY <1>4, AsideKeeps
<1>5. CASE OnControl
  BY <1>5, BusySame DEF OnControl, workers
<1>6. CASE Get
  <2>1. pc' = "control" /\ UNCHANGED <<tasks, proc>> /\ pending # <<>>
        /\ pending' = Tail(pending)
    BY <1>6 DEF Get
  <2>2. Len(pending') = awaited - 1
    BY <2>1, HeadTailProperties DEF TypeOK
  <2>3. IsFiniteSet(results') /\ Cardinality(results') = answered - 1
    BY <1>0, <1>6, GetMessage, FS_RemoveElement
  <2>4. Len(tasks') = queued /\ Cardinality(BusyPids') = busy
    BY <2>1, BusySame
  <2> HIDE DEF queued, busy, answered, awaited
  <2>5. queued + busy + answered <= awaited /\ awaited <= InFlight
    BY DEF queued, busy, answered, awaited
  <2>6. Len(tasks') + Cardinality(BusyPids') + Cardinality(results') <= Len(pending')
    BY <1>0, <2>2, <2>3, <2>4, <2>5
  <2> QED  BY <1>0, <2>2, <2>3, <2>5, <2>6, Limits
<1>7. ASSUME NEW c, Queue(c) PROVE InFlightCounted'
  <2>1. UNCHANGED <<results, proc>> /\ tasks' = Append(tasks, c) /\ pending' = Append(pending, c)
        /\ pc' \in {"submit", "wait"} /\ awaited < InFlight
    BY <1>7 DEF Queue, Submit, FirstBatches, Refill, RoomInFlight
  <2>2. c \in Chunk
    BY <1>7, YieldedType DEF Queue, Submit
  <2>3. Len(tasks') = queued + 1 /\ Len(pending') = awaited + 1
    BY <2>1, <2>2 DEF TypeOK
  <2>4. BusyPids' = BusyPids
    BY <2>1, BusySame
  <2> QED  BY <1>0, <2>1, <2>3, <2>4, Limits
<1>8. ASSUME NEW p \in Pid, Take(p) PROVE InFlightCounted'
  <2>1. UNCHANGED <<pc, pending, results>> /\ tasks # <<>> /\ tasks' = Tail(tasks)
    BY <1>8 DEF Take, coordinator
  <2>2. Len(tasks') = queued - 1
    BY <2>1, HeadTailProperties DEF TypeOK
  <2>3. Cardinality(BusyPids') = busy + 1
    BY <1>8, BusyTake, BusyFinite, FS_AddElement
  <2> QED  BY <1>0, <2>1, <2>2, <2>3
<1>9. ASSUME NEW p \in Pid, CommitSink(p) \/ Raise(p) PROVE InFlightCounted'
  <2>1. UNCHANGED <<pc, pending, tasks>> /\ \E m : results' = results \cup {m}
    BY <1>9 DEF CommitSink, Raise, coordinator
  <2>2. IsFiniteSet(results') /\ Cardinality(results') \in {answered, answered + 1}
    <3>1. PICK m : results' = results \cup {m}
      BY <2>1
    <3>2. /\ IsFiniteSet(results \cup {m})
          /\ Cardinality(results \cup {m}) =
                IF m \in results THEN answered ELSE answered + 1
      BY <1>0, FS_AddElement
    <3> QED  BY <3>1, <3>2
  <2>3. Cardinality(BusyPids') = busy - 1
    BY <1>9, BusyAnswer, BusyFinite, FS_RemoveElement
  <2> QED  BY <1>0, <2>1, <2>2, <2>3
<1> QED  BY <1>2, <1>3, <1>4, <1>5, <1>6, <1>7, <1>8, <1>9, Kinds

\* An element appended to an increasing sequence,
LEMMA IncreasingAppend ==
  ASSUME NEW s \in Seq(Nat), NEW x \in Nat, Increasing(s), \A e \in Elements(s) : e < x
  PROVE  Increasing(Append(s, x)) /\ Elements(Append(s, x)) = Elements(s) \cup {x}
<1> DEFINE n == Len(s)
           t == Append(s, x)
<1>1. n \in Nat /\ DOMAIN s = 1..n
  BY LenProperties
<1>2. DOMAIN t = 1..n + 1 /\ (\A i \in 1..n : t[i] = s[i]) /\ t[n + 1] = x
  BY <1>1, AppendProperties
<1>3. \A i \in 1..n : s[i] \in Nat /\ s[i] < x
  BY <1>1, ElementOfSeq DEF Elements
<1> HIDE DEF n, t
<1>4. ASSUME NEW i \in 1..n + 1, NEW j \in 1..n + 1, i < j PROVE t[i] < t[j]
  <2>1. i \in 1..n /\ (j \in 1..n \/ j = n + 1)
    BY <1>1, <1>4
  <2> QED  BY <1>1, <1>2, <1>3, <1>4, <2>1 DEF Increasing
<1>5. Elements(t) = Elements(s) \cup {x}
  <2>1. \A i : i \in 1..n + 1 <=> i \in 1..n \/ i = n + 1
    BY <1>1
  <2>2. \A e : e \in Elements(t) <=> \E i \in 1..n + 1 : e = t[i]
    BY <1>2 DEF Elements
  <2>3. \A e : e \in Elements(s) <=> \E i \in 1..n : e = s[i]
    BY <1>1 DEF Elements
  <2>4. ASSUME NEW e \in Elements(t) PROVE e \in Elements(s) \cup {x}
    <3>1. PICK i \in 1..n + 1 : e = t[i]
      BY <2>2
    <3>2. CASE i \in 1..n
      BY <1>2, <2>3, <3>1, <3>2
    <3>3. CASE i = n + 1
      BY <1>2, <3>1, <3>3
    <3> QED  BY <2>1, <3>2, <3>3
  <2>5. ASSUME NEW e \in Elements(s) PROVE e \in Elements(t)
    <3>1. PICK i \in 1..n : e = s[i]
      BY <2>3
    <3> QED  BY <1>2, <2>1, <2>2, <3>1
  <2>6. x \in Elements(t)
    <3>1. n + 1 \in 1..n + 1
      BY <1>1
    <3> QED  BY <1>2, <2>2, <3>1
  <2> QED  BY <2>4, <2>5, <2>6
<1> QED  BY <1>2, <1>4, <1>5 DEF t, Increasing

\* and the first one taken from it.
LEMMA IncreasingTail ==
  ASSUME NEW s \in Seq(Nat), Increasing(s), s # <<>>
  PROVE  /\ Increasing(Tail(s))
         /\ Head(s) \in Elements(s)
         /\ Elements(Tail(s)) = Elements(s) \ {Head(s)}
         /\ \A e \in Elements(Tail(s)) : Head(s) < e
<1> DEFINE n == Len(s)
           t == Tail(s)
<1>1. n \in Nat /\ n # 0 /\ DOMAIN s = 1..n
  BY LenProperties, EmptySeq
<1>2. DOMAIN t = 1..n - 1 /\ (\A i \in 1..n - 1 : t[i] = s[i + 1]) /\ Head(s) = s[1]
  <2>1. t \in Seq(Nat) /\ Len(t) = n - 1 /\ \A i \in 1..Len(t) : t[i] = s[i + 1]
    BY HeadTailProperties
  <2> QED  BY <2>1, LenProperties
<1>3. \A i \in 1..n : s[i] \in Nat
  BY ElementOfSeq
<1> HIDE DEF n, t
<1>4. \A i \in 1..n - 1 : i + 1 \in 1..n /\ s[1] < s[i + 1]
  <2>1. \A i \in 1..n - 1 : i + 1 \in 1..n /\ 1 < i + 1 /\ 1 \in 1..n
    BY <1>1
  <2> QED  BY <1>1, <2>1 DEF Increasing
<1>5. Increasing(t)
  <2>1. \A i, j \in 1..n - 1 : i < j => i + 1 < j + 1
    BY <1>1
  <2> QED  BY <1>1, <1>2, <1>4, <2>1 DEF Increasing
<1>6. \A e \in Elements(t) : s[1] < e
  BY <1>2, <1>4 DEF Elements
<1>7. Head(s) \in Elements(s)
  <2>1. 1 \in 1..n
    BY <1>1
  <2> QED  BY <1>1, <1>2, <2>1 DEF Elements
<1>8. ASSUME NEW e \in Elements(t) PROVE e \in Elements(s)
  <2>1. PICK i \in 1..n - 1 : e = t[i]
    BY <1>2 DEF Elements
  <2>2. i + 1 \in DOMAIN s /\ e = s[i + 1]
    BY <1>1, <1>2, <1>4, <2>1
  <2> QED  BY <2>2 DEF Elements
<1>9. ASSUME NEW e \in Elements(s), e # s[1] PROVE e \in Elements(t)
  <2>1. PICK i \in 1..n : e = s[i]
    BY <1>1 DEF Elements
  <2>2. i - 1 \in 1..n - 1 /\ (i - 1) + 1 = i
    BY <1>1, <1>9, <2>1
  <2> QED  BY <1>2, <2>1, <2>2 DEF Elements
<1>10. s[1] \notin Elements(t)
  BY <1>1, <1>3, <1>6
<1> QED  BY <1>2, <1>5, <1>6, <1>7, <1>8, <1>9, <1>10 DEF t

\* What is queued, run and answered are chunks.
LEMMA ChunkNumbers ==
  ASSUME TypeOK, Shapes
  PROVE  /\ tasks \in Seq(Nat) /\ pending \in Seq(Nat) /\ next \in Nat
         /\ Queued \subseteq Nat /\ Awaited \subseteq Nat
         /\ \A m \in results : m.chunk \in Nat
         /\ \A p \in BusyPids : proc[p].chunk \in Nat
         /\ pc = "control" => message.chunk \in Nat
<1>1. Chunk \subseteq Nat /\ next \in Nat
  BY DEF TypeOK, Chunk
<1>2. tasks \in Seq(Nat) /\ pending \in Seq(Nat)
  BY <1>1, SeqMonotonic DEF TypeOK
<1>3. Queued \subseteq Nat /\ Awaited \subseteq Nat
  BY <1>2, ElementOfSeq, LenProperties, SMTT(30) DEF Queued, Awaited, Elements
<1>4. \A m \in CommitEntry \cup {Error(c) : c \in Chunk} : m.chunk \in Nat
  <2>1. ASSUME NEW m \in CommitEntry PROVE m.chunk \in Nat
    BY <1>1, <2>1 DEF CommitEntry
  <2>2. ASSUME NEW c \in Chunk PROVE Error(c).chunk \in Nat
    BY <1>1 DEF Error
  <2> QED  BY <2>1, <2>2
<1> QED  BY <1>1, <1>2, <1>3, <1>4 DEF Shapes

\* A submitted chunk is the greatest of the queue and of the deque.
LEMMA QueueStep ==
  ASSUME TypeOK, Shapes, OnePlace, AllAwaited, NEW c, Queue(c)
  PROVE  /\ UNCHANGED <<results, proc, message>> /\ BusyPids' = BusyPids
         /\ pc' \in {"submit", "wait"} /\ next' = c + 1 /\ c \in Nat /\ next <= c
         /\ Increasing(tasks)' /\ Queued' = Queued \cup {c}
         /\ Increasing(pending)' /\ Awaited' = Awaited \cup {c}
         /\ manifest' = AppendEntry(manifest, Distributed(c)) /\ c \in Chunk
<1>1. /\ UNCHANGED <<results, proc, message>> /\ pc' \in {"submit", "wait"} /\ next' = c + 1
      /\ tasks' = Append(tasks, c) /\ pending' = Append(pending, c)
      /\ manifest' = AppendEntry(manifest, Distributed(c))
  BY DEF Queue, Submit, FirstBatches, Refill
<1>2. c \in Chunk /\ c \in Nat /\ next <= c
  BY YieldedType DEF Queue, Submit
<1>3. (\A e \in Queued : e < c) /\ (\A e \in Awaited : e < c)
  BY <1>2, ChunkNumbers DEF OnePlace, AllAwaited
<1>4. Increasing(tasks)' /\ Queued' = Queued \cup {c}
  <2>1. Increasing(Append(tasks, c)) /\ Elements(Append(tasks, c)) = Queued \cup {c}
    BY <1>2, <1>3, ChunkNumbers, IncreasingAppend DEF OnePlace, Queued
  <2>2. Increasing(tasks)' = Increasing(Append(tasks, c)) /\ Queued' = Elements(Append(tasks, c))
    BY <1>1 DEF Increasing, Queued, Elements
  <2> QED  BY <2>1, <2>2
<1>5. Increasing(pending)' /\ Awaited' = Awaited \cup {c}
  <2>1. /\ Increasing(Append(pending, c))
        /\ Elements(Append(pending, c)) = Awaited \cup {c}
    BY <1>2, <1>3, ChunkNumbers, IncreasingAppend DEF AllAwaited, Awaited
  <2>2. /\ Increasing(pending)' = Increasing(Append(pending, c))
        /\ Awaited' = Elements(Append(pending, c))
    BY <1>1 DEF Increasing, Awaited, Elements
  <2> QED  BY <2>1, <2>2
<1> QED  BY <1>1, <1>2, <1>4, <1>5, BusySame

\* A process takes the least chunk of the queue,
LEMMA TakeStep ==
  ASSUME TypeOK, Shapes, OnePlace, NEW p \in Pid, Take(p)
  PROVE  /\ UNCHANGED <<coordinator, results, manifest, synced>>
         /\ Increasing(tasks)' /\ Head(tasks) \in Queued
         /\ Queued' = Queued \ {Head(tasks)}
         /\ \A e \in Queued' : Head(tasks) < e
<1>1. UNCHANGED <<coordinator, results, disk>> /\ tasks # <<>> /\ tasks' = Tail(tasks)
  BY DEF Take
<1>2. Increasing(Tail(tasks)) /\ Head(tasks) \in Queued
      /\ Elements(Tail(tasks)) = Queued \ {Head(tasks)}
      /\ \A e \in Elements(Tail(tasks)) : Head(tasks) < e
  BY <1>1, ChunkNumbers, IncreasingTail DEF OnePlace, Queued
<1>3. Increasing(tasks)' = Increasing(Tail(tasks)) /\ Queued' = Elements(Tail(tasks))
  BY <1>1 DEF Increasing, Queued, Elements
<1> QED  BY <1>1, <1>2, <1>3 DEF disk

\* and get() the least one of the deque.
LEMMA GetStep ==
  ASSUME TypeOK, Shapes, AllAwaited, Get
  PROVE  /\ UNCHANGED <<manifest, synced, committed, next, tasks, proc>> /\ BusyPids' = BusyPids
         /\ Increasing(pending)' /\ message'.chunk \in Awaited
         /\ Awaited' = Awaited \ {message'.chunk}
         /\ \A e \in Awaited' : message'.chunk < e
<1>1. /\ UNCHANGED <<manifest, synced, committed, next, tasks, proc>>
      /\ pending # <<>> /\ pending' = Tail(pending)
  BY DEF Get, disk
<1>2. Increasing(Tail(pending)) /\ Head(pending) \in Awaited
      /\ Elements(Tail(pending)) = Awaited \ {Head(pending)}
      /\ \A e \in Elements(Tail(pending)) : Head(pending) < e
  BY <1>1, ChunkNumbers, IncreasingTail DEF AllAwaited, Awaited
<1>3. Increasing(pending)' = Increasing(Tail(pending)) /\ Awaited' = Elements(Tail(pending))
  BY <1>1 DEF Increasing, Awaited, Elements
<1> QED  BY <1>1, <1>2, <1>3, GetMessage, BusySame

\* An answer moves a chunk from a process to the results.
LEMMA AnswerStep ==
  ASSUME TypeOK, NEW p \in Pid, CommitSink(p) \/ Raise(p)
  PROVE  /\ UNCHANGED <<coordinator, tasks, manifest>>
         /\ \E m : m.chunk = proc[p].chunk /\ results' = results \cup {m}
<1>1. UNCHANGED <<coordinator, tasks, manifest>>
  BY DEF CommitSink, Raise, disk
<1>2. ASSUME Raise(p) PROVE \E m : m.chunk = proc[p].chunk /\ results' = results \cup {m}
  BY <1>2 DEF Raise, Error
<1>3. ASSUME CommitSink(p) PROVE \E m : m.chunk = proc[p].chunk /\ results' = results \cup {m}
  BY <1>3 DEF CommitSink, Committed
<1> QED  BY <1>1, <1>2, <1>3

\* No step puts a batch in a second place, out of order, or out of the deque.
LEMMA NextPlaces ==
  ASSUME TypeOK, Shapes, Quiet, OnePlace, AllAwaited, Next
  PROVE  OnePlace' /\ AllAwaited'
<1> USE DEF OnePlace, AllAwaited
<1>0. /\ Queued \subseteq Nat /\ Awaited \subseteq Nat /\ next \in Nat
      /\ \A m \in results : m.chunk \in Nat
      /\ \A p \in BusyPids : proc[p].chunk \in Nat
  BY ChunkNumbers
<1>1. ASSUME tasks' = <<>>, BusyPids' = {}, results' = {}, pending' = <<>>, pc' # "control"
      PROVE  OnePlace' /\ AllAwaited'
  <2>1. Increasing(tasks)' /\ Increasing(pending)' /\ Queued' = {} /\ Awaited' = {}
    BY <1>1 DEF Increasing, Queued, Awaited, Elements
  <2> QED  BY <1>1, <2>1
<1>2. CASE Start
  <2>1. pc \in {"down", "done"} /\ UNCHANGED workers /\ BusyPids' = BusyPids
    BY <1>2, BusySame DEF Start, workers
  <2>2. BusyPids' = {} /\ tasks' = <<>> /\ results' = {}
    BY <2>1 DEF Quiet, Shapes, workers
  <2> QED  BY <1>1, <1>2, <2>2 DEF Start
<1>3. CASE Stop
  <2>1. BusyPids' = {} /\ pc' \in {"down", "done"}
    BY <1>3, BusyStop DEF Stop, GetError, Finish, Crash
  <2>2. tasks' = <<>> /\ results' = {} /\ pending' = <<>>
    BY <1>3
    DEF Stop, GetError, Finish, Crash, PoolTerminated, AllProcessesStop, MemoryLost
  <2> QED  BY <1>1, <2>1, <2>2
<1>4. CASE Aside
  <2>1. /\ UNCHANGED <<next, pending, message, tasks, results>> /\ BusyPids' = BusyPids
        /\ \A p \in BusyPids : proc'[p].chunk = proc[p].chunk
        /\ pc' = "control" <=> pc = "control"
    BY <1>4, AsideKeeps
  <2>2. /\ Increasing(tasks)' = Increasing(tasks) /\ Increasing(pending)' = Increasing(pending)
        /\ Queued' = Queued /\ Awaited' = Awaited
    BY <2>1 DEF Increasing, Queued, Awaited, Elements
  <2> QED  BY <2>1, <2>2
<1>5. CASE OnControl
  <2>1. /\ UNCHANGED <<next, pending, workers>> /\ BusyPids' = BusyPids /\ pc' # "control"
    BY <1>5, BusySame DEF OnControl, workers
  <2>2. /\ Increasing(tasks)' = Increasing(tasks) /\ Increasing(pending)' = Increasing(pending)
        /\ Queued' = Queued /\ Awaited' = Awaited
    BY <2>1 DEF Increasing, Queued, Awaited, Elements, workers
  <2> QED  BY <2>1, <2>2 DEF workers
<1>6. CASE Get
  <2>1. UNCHANGED <<tasks, next, proc>> /\ BusyPids' = BusyPids
    BY <1>6, GetStep
  <2>2. /\ message' \in results /\ results' = results \ {message'}
        /\ Increasing(pending)' /\ Awaited' = Awaited \ {message'.chunk}
        /\ \A e \in Awaited' : message'.chunk < e
    BY <1>6, GetMessage, GetStep
  <2>3. Increasing(tasks)' = Increasing(tasks) /\ Queued' = Queued
    BY <2>1 DEF Increasing, Queued, Elements
  <2>4. \A c \in Queued : c # message'.chunk
    BY <1>0, <2>2
  <2> QED  BY <2>1, <2>2, <2>3, <2>4
<1>7. ASSUME NEW c, Queue(c) PROVE OnePlace' /\ AllAwaited'
  <2>1. /\ UNCHANGED <<results, proc>> /\ BusyPids' = BusyPids /\ pc' # "control"
        /\ next' = c + 1 /\ c \in Nat /\ next <= c
        /\ Increasing(tasks)' /\ Queued' = Queued \cup {c}
        /\ Increasing(pending)' /\ Awaited' = Awaited \cup {c}
    BY <1>7, QueueStep
  <2>2. (\A d \in Queued : d < next') /\ (\A d \in Awaited : d < next' /\ d < c)
    BY <1>0, <2>1
  <2>3. /\ \A p \in BusyPids : proc[p].chunk < c
        /\ \A m \in results : m.chunk < c
    BY <2>2
  <2> QED  BY <2>1, <2>2, <2>3
<1>8. ASSUME NEW p \in Pid, Take(p) PROVE OnePlace' /\ AllAwaited'
  <2> DEFINE h == Head(tasks)
  <2>1. /\ UNCHANGED <<next, results, pending, message, pc>>
        /\ Increasing(tasks)' /\ h \in Queued /\ Queued' = Queued \ {h}
        /\ \A c \in Queued' : h < c
    BY <1>8, TakeStep DEF coordinator
  <2>2. /\ p \notin BusyPids /\ BusyPids' = BusyPids \cup {p} /\ proc'[p].chunk = h
        /\ \A q \in BusyPids : proc'[q] = proc[q]
    BY <1>8, BusyTake
  <2> HIDE DEF h
  <2>3. Increasing(pending)' = Increasing(pending) /\ Awaited' = Awaited
    BY <2>1 DEF Increasing, Awaited, Elements
  <2>4. /\ \A q \in BusyPids : proc[q].chunk < h /\ proc[q].chunk # h
        /\ \A m \in results : m.chunk < h /\ m.chunk # h
    BY <1>0, <2>1
  <2> QED  BY <2>1, <2>2, <2>3, <2>4
<1>9. ASSUME NEW p \in Pid, CommitSink(p) \/ Raise(p) PROVE OnePlace' /\ AllAwaited'
  <2>1. UNCHANGED <<next, pending, message, pc, tasks>>
    BY <1>9, AnswerStep DEF coordinator
  <2>2. PICK m : m.chunk = proc[p].chunk /\ results' = results \cup {m}
    BY <1>9, AnswerStep
  <2>3. /\ p \in BusyPids /\ BusyPids' = BusyPids \ {p}
        /\ \A q \in BusyPids' : proc'[q] = proc[q]
    BY <1>9, BusyAnswer
  <2>4. /\ Increasing(tasks)' = Increasing(tasks) /\ Increasing(pending)' = Increasing(pending)
        /\ Queued' = Queued /\ Awaited' = Awaited
    BY <2>1 DEF Increasing, Queued, Awaited, Elements
  <2>5. /\ \A q \in BusyPids' : proc[q].chunk # m.chunk
        /\ \A k \in results : k.chunk # m.chunk
    BY <2>2, <2>3
  <2> QED  BY <2>1, <2>2, <2>3, <2>4, <2>5
<1> QED  BY <1>2, <1>3, <1>4, <1>5, <1>6, <1>7, <1>8, <1>9, Kinds

-----------------------------------------------------------------------------
(* The manifest *)

\* A commit appended to whole lines adds itself to what load() reads.
LEMMA CommitAdds ==
  ASSUME TypeOK, NEW e \in CommitEntry, manifest.terminated,
         manifest' = AppendEntry(manifest, e)
  PROVE  /\ Commits(manifest)' = Commits(manifest) \cup {e}
         /\ CommittedIds(manifest)' = CommittedIds(manifest) \cup {e.chunk}
<1> DEFINE n == Len(manifest.lines) + 1
<1>1. manifest \in Manifests(Entry) /\ e \in Entry /\ e.type = "committed"
  BY EntryTypes DEF TypeOK
<1>2. /\ CommitLines(manifest') = CommitLines(manifest) \cup {n}
      /\ \A i \in CommitLines(manifest) : manifest'.lines[i] = manifest.lines[i]
      /\ manifest'.lines[n] = e
  BY <1>1, CommitAppended
<1> HIDE DEF n
<1> QED  BY <1>2 DEF Commits, CommittedIds

\* What load() reads is the same with the same committed lines.
LEMMA SameLoad ==
  ASSUME TypeOK, SameCommits(manifest, manifest')
  PROVE  /\ Commits(manifest)' = Commits(manifest)
         /\ CommittedIds(manifest)' = CommittedIds(manifest)
         /\ CommittedInOrder => CommittedInOrder'
<1>1. /\ Commits(manifest)' = Commits(manifest)
      /\ CommittedIds(manifest)' = CommittedIds(manifest)
  BY SameCommitsLoad DEF TypeOK
<1> QED  BY <1>1 DEF CommittedInOrder

\* A crash in the middle of an append leaves whole lines and the same commits.
LEMMA CrashManifest ==
  ASSUME Deployment, TypeOK, Shapes, WholeLines(manifest), Crash
  PROVE  WholeLines(manifest)' /\ SameCommits(manifest, manifest')
<1>1. CASE manifest' = manifest
  BY <1>1 DEF SameCommits, WholeLines
<1>2. CASE manifest' # manifest
  <2>1. PICK e \in EntryUnderway, cut \in PartialWrites :
           manifest' = PartialAppend(manifest, e, cut)
    BY <1>2 DEF Crash, SurvivingManifests
  <2>2. e \in Entry
    <3>1. \A c : Yielded(c) => Distributed(c) \in Entry
      BY YieldedType, EntryTypes
    <3> QED  BY <3>1, EntryTypes DEF EntryUnderway, Shapes
  <2>3. cut = "torn"
    BY DEF Deployment
  <2> QED  BY <2>1, <2>2, <2>3, EntryTypes, TornLines DEF TypeOK
<1> QED  BY <1>1, <1>2

\* No step loses a chunk, nor commits one before those that precede it.
LEMMA NextInOrder ==
  ASSUME Deployment, TypeOK, Shapes, Quiet, OnePlace, AllAwaited, Accounted,
         CommittedInOrder, Next
  PROVE  Accounted' /\ CommittedInOrder'
<1> USE DEF Accounted
<1>0. manifest \in Manifests(Entry) /\ next \in Nat /\ committed \subseteq Nat
  BY DEF TypeOK, Chunk
<1>1. ASSUME UNCHANGED manifest PROVE /\ SameCommits(manifest, manifest')
                                      /\ WholeLines(manifest)'
  BY <1>1 DEF SameCommits, WholeLines
<1>2. CASE Start
  <2>1. /\ committed' = CommittedIds(manifest) /\ next' = 0 /\ pending' = <<>>
        /\ pc' # "control" /\ UNCHANGED manifest
    BY <1>2 DEF Start, disk
  <2> QED  BY <1>1, <2>1, SameLoad
<1>3. CASE Aside
  <2>1. /\ UNCHANGED <<manifest, committed, next, pending, message>>
        /\ pc' = "control" <=> pc = "control"
        /\ pc' \in Running => pc \in Running
    BY <1>3, AsideKeeps
  <2>2. Awaited' = Awaited /\ AtHand' = AtHand
    BY <2>1 DEF Awaited, Elements, AtHand
  <2> QED  BY <1>1, <2>1, <2>2, SameLoad
<1>4. CASE Get
  <2>1. /\ UNCHANGED <<manifest, committed, next>> /\ Awaited' = Awaited \ {message'.chunk}
    BY <1>4, GetStep
  <2>2. pc = "wait" /\ pc' = "control" /\ pending # <<>>
    BY <1>4 DEF Get
  <2>3. AtHand = {} /\ AtHand' = {message'.chunk}
    BY <2>2 DEF AtHand
  <2> QED  BY <1>1, <2>1, <2>2, <2>3, SameLoad DEF Running
<1>5. CASE OnControl
  <2>1. /\ message \in CommitEntry /\ manifest.terminated
        /\ manifest' = AppendEntry(manifest, message)
        /\ UNCHANGED <<committed, next, pending>> /\ pc = "control" /\ pc' = "refill"
    BY <1>5 DEF OnControl, Shapes
  <2>2. /\ Commits(manifest)' = Commits(manifest) \cup {message}
        /\ CommittedIds(manifest)' = CommittedIds(manifest) \cup {message.chunk}
    BY <2>1, CommitAdds
  <2>3. Awaited' = Awaited /\ AtHand = {message.chunk}
    BY <2>1 DEF Awaited, Elements, AtHand
  <2>4. manifest'.terminated
    BY <2>1 DEF AppendEntry
  <2>5. \A c \in 0 .. next - 1 : c \in CommittedIds(manifest) \cup Awaited \cup {message.chunk}
    BY <2>1, <2>3 DEF Running
  <2>6. Accounted'
    BY <2>1, <2>2, <2>3, <2>4, <2>5 DEF Running, WholeLines
  <2>7. ASSUME NEW c \in 0..message.chunk PROVE c \in CommittedIds(manifest)'
    <3>1. message.chunk \in Nat /\ message.chunk < next
          /\ Awaited \subseteq Nat /\ \A d \in Awaited : message.chunk < d
      BY <2>1, ChunkNumbers DEF AllAwaited
    <3>2. c \in 0 .. next - 1 /\ c \notin Awaited
      BY <1>0, <3>1
    <3> QED  BY <2>2, <2>5, <3>2
  <2>8. CommittedInOrder'
    BY <2>2, <2>7 DEF CommittedInOrder
  <2> QED  BY <2>6, <2>8
<1>6. ASSUME NEW c, Queue(c) PROVE Accounted' /\ CommittedInOrder'
  <2>1. /\ next' = c + 1 /\ c \in Nat /\ next <= c
        /\ Awaited' = Awaited \cup {c} /\ c \in Chunk /\ pc' \in {"submit", "wait"}
        /\ manifest' = AppendEntry(manifest, Distributed(c))
    BY <1>6, QueueStep
  <2>2. pc \in {"submit", "refill"} /\ UNCHANGED committed /\ Yielded(c)
    BY <1>6 DEF Queue, FirstBatches, Refill, Submit
  <2>3. Distributed(c) \in Entry /\ Distributed(c).type # "committed"
    BY <2>1, EntryTypes DEF Distributed
  <2>4. SameCommits(manifest, manifest') /\ manifest'.terminated
    BY <1>0, <2>1, <2>3, OtherEntryAppended, AppendedLines
  <2>5. ASSUME NEW d \in 0..c PROVE d \in CommittedIds(manifest) \cup Awaited'
    <3>1. CASE d < next
      <4>1. d \in 0 .. next - 1 /\ AtHand = {}
        BY <1>0, <2>2, <3>1 DEF AtHand
      <4> QED  BY <2>1, <2>2, <4>1 DEF Running
    <3>2. CASE next <= d /\ d < c
      <4>1. d \in next .. c - 1
        BY <1>0, <2>1, <3>2
      <4> QED  BY <2>2, <4>1 DEF Yielded, Running
    <3>3. CASE d = c
      BY <2>1, <3>3
    <3> QED  BY <1>0, <2>1, <3>1, <3>2, <3>3
  <2>6. next' - 1 = c
    BY <2>1
  <2> QED  BY <2>1, <2>2, <2>4, <2>5, <2>6, SameLoad DEF Running, WholeLines
<1>7. ASSUME NEW p \in Pid, Take(p) \/ CommitSink(p) \/ Raise(p)
      PROVE  Accounted' /\ CommittedInOrder'
  <2>1. UNCHANGED <<coordinator, manifest>>
    BY <1>7, AnswerStep DEF Take, disk
  <2>2. Awaited' = Awaited /\ AtHand' = AtHand
    BY <2>1 DEF coordinator, Awaited, Elements, AtHand
  <2> QED  BY <1>1, <2>1, <2>2, SameLoad DEF coordinator
<1>8. CASE Stop
  <2>1. pc' \in {"down", "done"} /\ pending' = <<>>
    BY <1>8 DEF Stop, GetError, Finish, Crash, MemoryLost
  <2>2. SameCommits(manifest, manifest') /\ WholeLines(manifest)'
    <3>1. CASE Crash
      BY <3>1, CrashManifest
    <3>2. CASE GetError \/ Finish
      BY <1>1, <3>2 DEF GetError, Finish, disk
    <3> QED  BY <1>8, <3>1, <3>2 DEF Stop
  <2> QED  BY <2>1, <2>2, SameLoad DEF Running
<1> QED  BY <1>2, <1>3, <1>4, <1>5, <1>6, <1>7, <1>8, Kinds

-----------------------------------------------------------------------------
(* The offsets *)

\* An entry that continues the lines of its file, and is synced, may be appended,
\* whole or cut; so may one that commits nothing.
LEMMA OffsetsAppended ==
  ASSUME TypeOK, LinesGrow(manifest), NEW e,
         \/ manifest' = manifest
         \/ manifest' = AppendEntry(manifest, e)
         \/ \E cut : manifest' = PartialAppend(manifest, e, cut),
         e.type = "committed" => e \in CommitEntry /\ Continues(e)
  PROVE  /\ LinesGrow(manifest)'
         /\ \A x \in Commits(manifest)' :
               x \in Commits(manifest) \/ (x = e /\ e.type = "committed")
<1> DEFINE n == Len(manifest.lines) + 1
<1>1. \A i \in CommitLines(manifest') :
         \/ i \in CommitLines(manifest) /\ manifest'.lines[i] = manifest.lines[i]
         \/ i = n /\ manifest'.lines[i] = e
  <2>1. manifest \in Manifests(Entry)
    BY DEF TypeOK
  <2>2. CASE manifest' = manifest
    BY <2>2
  <2>3. CASE manifest' # manifest
    BY <2>1, <2>3, CommitsAfterAppend
  <2> QED  BY <2>2, <2>3
<1>2. \A i \in CommitLines(manifest) : i \in Nat /\ i < n
  BY DEF TypeOK, Manifests, CommitLines
<1>3. \A i \in CommitLines(manifest') : manifest'.lines[i].type = "committed"
  BY DEF CommitLines
<1>4. \A x \in Commits(manifest)' :
         x \in Commits(manifest) \/ (x = e /\ e.type = "committed")
  <2>1. ASSUME NEW i \in CommitLines(manifest')
        PROVE  \/ manifest'.lines[i] \in Commits(manifest)
               \/ manifest'.lines[i] = e /\ e.type = "committed"
    <3>1. CASE i \in CommitLines(manifest) /\ manifest'.lines[i] = manifest.lines[i]
      BY <3>1 DEF Commits
    <3>2. CASE manifest'.lines[i] = e
      BY <1>3, <3>2
    <3> QED  BY <1>1, <3>1, <3>2
  <2>2. ASSUME NEW x \in Commits(manifest)'
        PROVE  \E i \in CommitLines(manifest') : x = manifest'.lines[i]
    BY DEF Commits
  <2> QED  BY <2>1, <2>2
<1>5. ASSUME NEW i \in CommitLines(manifest'), NEW j \in CommitLines(manifest'),
             i <= j, manifest'.lines[i].file = manifest'.lines[j].file
      PROVE  manifest'.lines[i].offset <= manifest'.lines[j].offset
  <2>0. n \in Nat
    BY DEF TypeOK, Manifests
  <2>1. CASE j \in CommitLines(manifest) /\ manifest'.lines[j] = manifest.lines[j]
    <3>1. i # n
      BY <1>2, <1>5, <2>0, <2>1
    <3> QED  BY <1>1, <1>5, <2>1, <3>1 DEF LinesGrow
  <2>2. CASE j = n /\ manifest'.lines[j] = e
    <3>1. CASE i \in CommitLines(manifest) /\ manifest'.lines[i] = manifest.lines[i]
      <4>1. manifest.lines[i] \in Commits(manifest) /\ e.type = "committed"
        BY <1>3, <2>2, <3>1 DEF Commits
      <4> QED  BY <1>5, <2>2, <3>1, <4>1 DEF Continues
    <3>2. CASE i = n
      <4>1. e.offset \in Nat
        BY <1>3, <2>2 DEF CommitEntry
      <4> QED  BY <2>2, <3>2, <4>1
    <3> QED  BY <1>1, <3>1, <3>2
  <2> QED  BY <1>1, <2>1, <2>2
<1> QED  BY <1>4, <1>5 DEF LinesGrow

\* No line has committed a file beyond the offset a resume cuts it to.
LEMMA LastOffset ==
  ASSUME TypeOK, LinesGrow(manifest), NEW e \in Commits(manifest)
  PROVE  e.offset <= CommittedOffset(manifest, e.file)
<1>1. PICK i \in CommitLines(manifest) : e = manifest.lines[i]
  BY DEF Commits
<1>2. i \in CommitLinesOf(manifest, e.file)
  BY <1>1 DEF CommitLinesOf
<1> DEFINE last == LastCommitLine(manifest, e.file)
<1>3. last \in CommitLinesOf(manifest, e.file) /\ i <= last
  BY <1>2, LastCommitIsLast DEF TypeOK
<1>4. CommittedOffset(manifest, e.file) = manifest.lines[last].offset
  BY <1>2 DEF CommittedOffset
<1> HIDE DEF last
<1>5. last \in CommitLines(manifest) /\ manifest.lines[last].file = e.file
  BY <1>3 DEF CommitLinesOf
<1> QED  BY <1>1, <1>3, <1>4, <1>5 DEF LinesGrow

\* With the same results, no fewer synced cells and no line that is not the
\* result at hand, the results still continue the lines.
LEMMA ResultsStay ==
  ASSUME TypeOK, ResultsGrow, results' \subseteq results,
         synced' = synced, BusyPids' = BusyPids,
         \A p \in BusyPids : proc'[p].chunk = proc[p].chunk,
         \A x \in Commits(manifest)' :
            \/ x \in Commits(manifest)
            \/ \A m \in results \cap CommitEntry : x.file = m.file => x.offset <= m.offset
  PROVE  ResultsGrow'
<1> SUFFICES ASSUME NEW m \in results' \cap CommitEntry
             PROVE  /\ m.offset <= synced'[m.file] /\ Continues(m)'
                    /\ \A n \in results' \cap CommitEntry :
                          m.file = n.file /\ m.chunk < n.chunk => m.offset <= n.offset
                    /\ \A p \in BusyPids' : m.file = p => m.chunk < proc'[p].chunk
  BY DEF ResultsGrow, CommitEntry, Chunk
<1>1. m \in results \cap CommitEntry
  OBVIOUS
<1>2. Continues(m)'
  BY <1>1 DEF ResultsGrow, Continues
<1>3. m.offset <= synced'[m.file]
  BY <1>1 DEF ResultsGrow
<1>4. \A n \in results' \cap CommitEntry :
         m.file = n.file /\ m.chunk < n.chunk => m.offset <= n.offset
  BY <1>1 DEF ResultsGrow
<1>5. \A p \in BusyPids' : m.file = p => m.chunk < proc'[p].chunk
  BY <1>1 DEF ResultsGrow
<1> QED  BY <1>2, <1>3, <1>4, <1>5

\* No step commits a file beyond what is synced, or before where it was committed.
LEMMA NextOffsets ==
  ASSUME TypeOK, Shapes, Quiet, OnePlace, AllAwaited, OffsetsGrow, CommittedDurable,
         Next, TypeOK', AllAwaited'
  PROVE  OffsetsGrow' /\ CommittedDurable'
<1> USE DEF OffsetsGrow
<1>0. synced \in [Pid -> Nat] /\ \A e \in Commits(manifest) : e \in CommitEntry
  <2>1. synced \in [Pid -> Nat] /\ manifest \in Manifests(Entry)
    BY DEF TypeOK
  <2> QED  BY <2>1, CommitLineType DEF Commits
<1>1. ASSUME UNCHANGED manifest
      PROVE  LinesGrow(manifest)' /\ Commits(manifest)' = Commits(manifest)
  BY <1>1 DEF LinesGrow, Commits, CommitLines
<1>2. ASSUME UNCHANGED <<manifest, synced>> PROVE CommittedDurable'
  BY <1>1, <1>2 DEF CommittedDurable
<1>3. CASE Start
  <2>1. UNCHANGED <<manifest, synced, results, proc>> /\ pc' # "control"
        /\ BusyPids' = BusyPids
    BY <1>3, BusySame DEF Start, disk, workers
  <2>2. ResultsGrow'
    BY <1>1, <2>1, ResultsStay
  <2> QED  BY <1>1, <1>2, <2>1, <2>2 DEF MessageBetween
<1>4. ASSUME NEW p \in Pid, TruncateFile(p) PROVE OffsetsGrow' /\ CommittedDurable'
  <2>1. UNCHANGED <<manifest, results, pc>> /\ pc # "control" /\ results = {}
        /\ synced' = [synced EXCEPT ![p] = Smaller(synced[p], CommittedOffset(manifest, p))]
    BY <1>4 DEF TruncateFile, ResumeOffset, workers, Quiet
  <2>2. ASSUME NEW e \in Commits(manifest) PROVE e.offset <= synced'[e.file]
    <3>1. /\ e.offset \in Nat /\ e.file \in Pid /\ e.offset <= synced[e.file]
          /\ synced[e.file] \in Nat /\ CommittedOffset(manifest, e.file) \in Nat
      BY <1>0, CommittedOffsetType DEF CommitEntry, CommittedDurable, TypeOK
    <3>2. e.offset <= CommittedOffset(manifest, e.file)
      BY LastOffset
    <3>3. synced'[e.file] \in {synced[e.file], CommittedOffset(manifest, e.file)}
      BY <1>0, <2>1, <3>1 DEF Smaller
    <3> QED  BY <3>1, <3>2, <3>3
  <2> QED
    BY <1>1, <2>1, <2>2 DEF ResultsGrow, MessageBetween, CommittedDurable
<1>5. ASSUME Aside, \A p \in Pid : ~TruncateFile(p) PROVE OffsetsGrow' /\ CommittedDurable'
  <2>1. /\ UNCHANGED <<manifest, message, results>> /\ BusyPids' = BusyPids
        /\ \A p \in BusyPids : proc'[p].chunk = proc[p].chunk
        /\ pc' = "control" <=> pc = "control"
    BY <1>5, AsideKeeps
  <2>2. UNCHANGED synced
    BY <1>5 DEF Aside, RunBatch, Resumed, Submitted, Refill, disk
  <2>3. ResultsGrow'
    BY <1>1, <2>1, <2>2, ResultsStay
  <2> QED  BY <1>1, <1>2, <2>1, <2>2, <2>3 DEF MessageBetween, Continues
<1>6. CASE Get
  <2>1. /\ UNCHANGED <<manifest, synced, proc>> /\ BusyPids' = BusyPids
        /\ \A c \in Awaited' : message'.chunk < c
    BY <1>6, GetStep
  <2>2. message' \in results \cap CommitEntry /\ results' = results \ {message'}
    BY <1>6, GetMessage
  <2>3. ResultsGrow'
    BY <1>1, <2>1, <2>2, ResultsStay
  <2>4. \A m \in results' \cap CommitEntry : message'.chunk < m.chunk
    BY <2>1 DEF AllAwaited
  <2>5. /\ message'.offset <= synced[message'.file]
        /\ \A x \in Commits(manifest) : x.file = message'.file => x.offset <= message'.offset
        /\ \A m \in results' \cap CommitEntry :
              m.file = message'.file => message'.offset <= m.offset
    BY <2>2, <2>4 DEF ResultsGrow, Continues
  <2>6. MessageBetween'
    BY <1>1, <2>1, <2>5 DEF MessageBetween, Continues
  <2> QED  BY <1>1, <1>2, <2>1, <2>3, <2>6
<1>7. CASE OnControl
  <2>1. /\ manifest' = AppendEntry(manifest, message) /\ message \in CommitEntry
        /\ UNCHANGED <<synced, results, proc>> /\ pc' # "control" /\ BusyPids' = BusyPids
        /\ pc = "control"
    BY <1>7, BusySame DEF OnControl, Shapes, workers
  <2>2. LinesGrow(manifest)' /\ \A x \in Commits(manifest)' : x \in Commits(manifest) \cup {message}
    BY <2>1, OffsetsAppended DEF MessageBetween
  <2>3. ResultsGrow'
    <3>1. \A m \in results \cap CommitEntry : message.file = m.file => message.offset <= m.offset
      BY <2>1 DEF MessageBetween
    <3> QED  BY <2>1, <2>2, <3>1, ResultsStay
  <2>4. CommittedDurable'
    BY <2>1, <2>2 DEF CommittedDurable, MessageBetween
  <2> QED  BY <2>1, <2>2, <2>3, <2>4 DEF MessageBetween
<1>8. ASSUME NEW c, Queue(c) PROVE OffsetsGrow' /\ CommittedDurable'
  <2>1. /\ UNCHANGED <<results, proc>> /\ BusyPids' = BusyPids /\ pc' # "control"
        /\ manifest' = AppendEntry(manifest, Distributed(c))
    BY <1>8, QueueStep
  <2>2. UNCHANGED synced
    BY <1>8 DEF Queue, FirstBatches, Refill
  <2>3. LinesGrow(manifest)' /\ \A x \in Commits(manifest)' : x \in Commits(manifest)
    BY <2>1, OffsetsAppended DEF Distributed
  <2>4. ResultsGrow'
    BY <2>1, <2>2, <2>3, ResultsStay
  <2> QED  BY <2>1, <2>2, <2>3, <2>4 DEF MessageBetween, CommittedDurable
<1>9. ASSUME NEW p \in Pid, Take(p) PROVE OffsetsGrow' /\ CommittedDurable'
  <2>1. UNCHANGED <<pc, message, results, manifest, synced>> /\ Head(tasks) \in Queued
    BY <1>9, TakeStep DEF coordinator
  <2>2. /\ BusyPids' = BusyPids \cup {p} /\ proc'[p].chunk = Head(tasks)
        /\ \A q \in BusyPids : proc'[q] = proc[q]
    BY <1>9, BusyTake
  <2>3. \A m \in results, q \in BusyPids' :
           (q \in BusyPids /\ proc'[q].chunk = proc[q].chunk) \/ m.chunk < proc'[q].chunk
    BY <2>1, <2>2 DEF OnePlace
  <2>4. ResultsGrow'
    BY <1>1, <2>1, <2>3 DEF ResultsGrow, Continues
  <2> QED  BY <1>1, <1>2, <2>1, <2>4 DEF MessageBetween, Continues
<1>10. ASSUME NEW p \in Pid, Raise(p) PROVE OffsetsGrow' /\ CommittedDurable'
  <2>1. /\ UNCHANGED <<pc, message, manifest, synced>>
        /\ results' = results \cup {Error(proc[p].chunk)}
    BY <1>10 DEF Raise, coordinator, disk
  <2>2. BusyPids' \subseteq BusyPids /\ \A q \in BusyPids' : proc'[q] = proc[q]
    BY <1>10, BusyAnswer
  <2>3. results' \cap CommitEntry = results \cap CommitEntry
    BY <2>1 DEF Error, CommitEntry
  <2>4. ResultsGrow'
    BY <1>1, <2>1, <2>2, <2>3 DEF ResultsGrow, Continues
  <2> QED  BY <1>1, <1>2, <2>1, <2>3, <2>4 DEF MessageBetween, Continues
<1>11. ASSUME NEW p \in Pid, CommitSink(p) PROVE OffsetsGrow' /\ CommittedDurable'
  <2> DEFINE m == Committed(proc[p].chunk, p, Len(file'[p]), proc[p].matched)
  <2>1. /\ UNCHANGED <<pc, message, manifest>> /\ results' = results \cup {m}
        /\ synced' = [synced EXCEPT ![p] = Len(file'[p])]
        /\ file' = [file EXCEPT ![p] = file[p] \o proc[p].buffer]
    BY <1>11 DEF CommitSink, coordinator, SyncSink
  <2>2. /\ p \in BusyPids /\ BusyPids' = BusyPids \ {p}
        /\ \A q \in BusyPids' : proc'[q] = proc[q]
    BY <1>11, BusyAnswer
  <2>3. /\ m.file = p /\ m.offset = synced'[p] /\ m.chunk = proc[p].chunk
        /\ m.chunk \in Nat /\ m.offset \in Nat
    BY <1>0, <2>1, <2>2, ChunkNumbers DEF Committed, TypeOK
  <2> HIDE DEF m
  <2>4. \A q \in Pid : synced[q] <= synced'[q] /\ synced[q] \in Nat /\ synced'[q] \in Nat
    <3>1. synced[p] <= synced'[p]
      <4> DEFINE cells == file[p]
                 rest  == proc[p].buffer
      <4>1. cells \in Seq(Cell) /\ rest \in Seq(Cell) /\ synced[p] \in 0..Len(cells)
        <5>1. rest \in Seq(RowCell)
          BY DEF TypeOK
        <5> QED  BY <5>1, SeqMonotonic DEF TypeOK, Cell
      <4>2. synced'[p] = Len(cells \o rest)
        BY <1>0, <2>1 DEF TypeOK
      <4> HIDE DEF cells, rest
      <4>3. Len(cells \o rest) = Len(cells) + Len(rest) /\ Len(cells) \in Nat /\ Len(rest) \in Nat
        BY <4>1, ConcatProperties, LenProperties
      <4>4. synced[p] <= Len(cells) + Len(rest)
        BY <4>1, <4>3
      <4> QED  BY <4>2, <4>3, <4>4
    <3>2. synced' \in [Pid -> Nat]
      BY DEF TypeOK
    <3> QED  BY <1>0, <2>1, <3>1, <3>2
  <2>5. ASSUME NEW e \in CommitEntry, e.offset <= synced[e.file]
        PROVE  e.offset <= synced'[e.file] /\ (e.file = p => e.offset <= m.offset)
    <3>1. e.offset \in Nat /\ e.file \in Pid
      BY DEF CommitEntry
    <3> QED  BY <2>3, <2>4, <2>5, <3>1
  <2>6. \A e \in Commits(manifest) : /\ e.offset <= synced'[e.file]
                                     /\ e.file = p => e.offset <= m.offset
    BY <1>0, <2>5 DEF CommittedDurable
  <2>7. \A n \in results \cap CommitEntry :
           /\ n.offset <= synced'[n.file]
           /\ n.file = p => n.offset <= m.offset /\ n.chunk < m.chunk
    BY <2>2, <2>3, <2>5 DEF ResultsGrow
  <2>8. ResultsGrow'
    <3> SUFFICES ASSUME NEW k \in results' \cap CommitEntry
                 PROVE  /\ k.offset <= synced'[k.file]
                        /\ \A x \in Commits(manifest) : x.file = k.file => x.offset <= k.offset
                        /\ \A n \in results' \cap CommitEntry :
                              k.file = n.file /\ k.chunk < n.chunk => k.offset <= n.offset
                        /\ \A q \in BusyPids' : k.file = q => k.chunk < proc'[q].chunk
      BY <1>1, <2>1 DEF ResultsGrow, Continues
    <3>1. CASE k \in results
      BY <2>1, <2>2, <2>3, <2>7, <3>1 DEF ResultsGrow, Continues
    <3>2. CASE k = m
      <4>1. \A n \in results \cap CommitEntry : n.file = p => ~(m.chunk < n.chunk)
        <5>1. \A n \in results \cap CommitEntry : n.chunk \in Nat
          BY ChunkNumbers
        <5> QED  BY <2>3, <2>7, <5>1
      <4>2. \A n \in results' \cap CommitEntry :
               k.file = n.file /\ k.chunk < n.chunk => k.offset <= n.offset
        BY <2>1, <2>3, <3>2, <4>1
      <4> QED  BY <2>2, <2>3, <2>6, <3>2, <4>2
    <3> QED  BY <2>1, <3>1, <3>2
  <2>9. MessageBetween'
    <3> SUFFICES ASSUME pc = "control"
                 PROVE  /\ message.offset <= synced'[message.file] /\ Continues(message)
                        /\ \A n \in results' \cap CommitEntry :
                              n.file = message.file => message.offset <= n.offset
      BY <1>1, <2>1 DEF MessageBetween, Continues
    <3>1. message \in CommitEntry
      BY DEF Shapes
    <3> QED  BY <2>1, <2>3, <2>5, <3>1 DEF MessageBetween
  <2> QED  BY <1>1, <2>1, <2>6, <2>8, <2>9 DEF CommittedDurable
<1>12. CASE Stop
  <2>1. pc' # "control" /\ results' = {} /\ UNCHANGED synced
    BY <1>12 DEF Stop, GetError, Finish, Crash, PoolTerminated, AllProcessesStop, disk
  <2>2. \/ UNCHANGED manifest
        \/ \E e \in EntryUnderway, cut \in PartialWrites :
              manifest' = PartialAppend(manifest, e, cut)
    BY <1>12 DEF Stop, GetError, Finish, Crash, SurvivingManifests, disk
  <2>3. \A e \in EntryUnderway : e.type = "committed" =>
           e \in CommitEntry /\ Continues(e) /\ e.offset <= synced[e.file]
    BY DEF EntryUnderway, Distributed, Shapes, MessageBetween
  <2>4. LinesGrow(manifest)' /\ \A x \in Commits(manifest)' : x.offset <= synced[x.file]
    <3>1. CASE UNCHANGED manifest
      BY <1>1, <3>1 DEF CommittedDurable
    <3>2. ASSUME NEW e \in EntryUnderway, NEW cut \in PartialWrites,
                 manifest' = PartialAppend(manifest, e, cut)
          PROVE  LinesGrow(manifest)' /\ \A x \in Commits(manifest)' : x.offset <= synced[x.file]
      <4>1. /\ LinesGrow(manifest)'
            /\ \A x \in Commits(manifest)' :
                  x \in Commits(manifest) \/ (x = e /\ e.type = "committed")
        BY <2>3, <3>2, OffsetsAppended
      <4> QED  BY <2>3, <4>1 DEF CommittedDurable
    <3> QED  BY <2>2, <3>1, <3>2
  <2> QED  BY <2>1, <2>4 DEF ResultsGrow, MessageBetween, CommittedDurable
<1> QED
  BY <1>3, <1>4, <1>5, <1>6, <1>7, <1>8, <1>9, <1>10, <1>11, <1>12, Kinds DEF Aside

-----------------------------------------------------------------------------
(* Theorems *)

\* The inductive invariant, whatever a crash does to the manifest.
IInv ==
    /\ TypeOK /\ Shapes /\ Quiet
    /\ InFlightCounted /\ OnePlace /\ AllAwaited
    /\ OffsetsGrow /\ CommittedDurable

\* The first state is in it,
LEMMA InitIInv == Init => IInv /\ Accounted /\ CommittedInOrder
<1> SUFFICES ASSUME Init PROVE IInv /\ Accounted /\ CommittedInOrder
  OBVIOUS
<1>1. TypeOK /\ Shapes /\ Quiet
  BY InitTypes
<1>2. BusyPids = {}
  BY DEF Init, BusyPids, Busy, NoProcess
<1>3. Queued = {} /\ Awaited = {} /\ Increasing(tasks) /\ Increasing(pending)
  BY DEF Init, Queued, Awaited, Elements, Increasing
<1>4. InFlightCounted
  <2>1. Cardinality({}) = 0 /\ IsFiniteSet({}) /\ Len(<<>>) = 0
    BY FS_EmptySet
  <2> QED  BY <1>2, <2>1, Limits DEF Init, InFlightCounted
<1>5. OnePlace /\ AllAwaited
  BY <1>2, <1>3 DEF Init, OnePlace, AllAwaited
<1>6. CommitLines(manifest) = {} /\ Commits(manifest) = {} /\ manifest.terminated
  BY DEF Init, EmptyManifest, CommitLines, Commits
<1>7. OffsetsGrow /\ CommittedDurable /\ CommittedInOrder
  BY <1>6
  DEF Init, OffsetsGrow, LinesGrow, ResultsGrow, MessageBetween, CommittedDurable,
      CommittedInOrder
<1>8. Accounted
  BY <1>6 DEF Init, Accounted, WholeLines, Running
<1> QED  BY <1>1, <1>4, <1>5, <1>7, <1>8 DEF IInv

\* every step keeps it,
LEMMA NextIInv ==
  ASSUME IInv, Next
  PROVE  IInv'
<1> USE DEF IInv
<1>1. TypeOK' /\ Shapes' /\ Quiet'
  BY NextTypeOK, NextShapes
<1>2. InFlightCounted' /\ OnePlace' /\ AllAwaited'
  BY NextCounted, NextPlaces
<1>3. OffsetsGrow' /\ CommittedDurable'
  BY <1>1, <1>2, NextOffsets
<1> QED  BY <1>1, <1>2, <1>3

\* and so does standing still.
LEMMA Stutters ==
  ASSUME UNCHANGED vars
  PROVE  /\ IInv => IInv'
         /\ Accounted /\ CommittedInOrder => Accounted' /\ CommittedInOrder'
<1>1. UNCHANGED <<manifest, file, synced, pc, truncate, committed, next, pending, message,
                  counter, tasks, results, proc, pool, runs, leftover>>
  BY DEF vars, disk, coordinator, workers
<1>2. /\ BusyPids' = BusyPids /\ Queued' = Queued /\ Awaited' = Awaited /\ AtHand' = AtHand
      /\ Increasing(tasks)' = Increasing(tasks) /\ Increasing(pending)' = Increasing(pending)
      /\ CommitLines(manifest)' = CommitLines(manifest)
      /\ Commits(manifest)' = Commits(manifest)
      /\ CommittedIds(manifest)' = CommittedIds(manifest)
  BY <1>1, BusySame
  DEF Queued, Awaited, AtHand, Elements, Increasing, CommitLines, Commits, CommittedIds
<1>3. IInv => TypeOK' /\ Shapes' /\ Quiet'
  BY BaseStutters DEF IInv
<1>4. IInv => InFlightCounted' /\ OnePlace' /\ AllAwaited'
  BY <1>1, <1>2 DEF IInv, InFlightCounted, OnePlace, AllAwaited
<1>5. IInv => OffsetsGrow' /\ CommittedDurable'
  BY <1>1, <1>2
  DEF IInv, OffsetsGrow, LinesGrow, ResultsGrow, MessageBetween, Continues, CommittedDurable
<1>6. Accounted /\ CommittedInOrder => Accounted' /\ CommittedInOrder'
  BY <1>1, <1>2 DEF Accounted, WholeLines, CommittedInOrder
<1> QED  BY <1>3, <1>4, <1>5, <1>6 DEF IInv

\* The invariant holds of every instance.
THEOREM Inductive == Spec => []IInv
<1>1. IInv /\ [Next]_vars => IInv'
  BY NextIInv, Stutters
<1> QED  BY InitIInv, <1>1, PTL DEF Spec

\* Batches queued or being run never exceed in_flight_batches, and each of them is
\* waited for: submission is bounded however slow the workers are.
THEOREM SubmissionBounded == Spec => []BoundedInFlight
<1>1. IInv => BoundedInFlight
  <2> SUFFICES ASSUME IInv PROVE BoundedInFlight
    OBVIOUS
  <2>1. {p \in pool : proc[p].state \in {"run", "write"}} = BusyPids
    BY DEF IInv, TypeOK, Shapes, BusyPids, Busy
  <2>2. Len(tasks) + Cardinality(BusyPids) <= InFlight
    <3>1. /\ Len(tasks) \in Nat /\ Cardinality(BusyPids) \in Nat
          /\ Cardinality(results) \in Nat /\ Len(pending) \in Nat
      BY BusyFinite, FS_CardinalityType DEF IInv, TypeOK, InFlightCounted
    <3> QED  BY <3>1, Limits DEF IInv, InFlightCounted
  <2>3. \A p \in BusyPids : \E i \in DOMAIN pending : pending[i] = proc[p].chunk
    BY DEF IInv, AllAwaited, Awaited, Elements
  <2> QED  BY <2>1, <2>2, <2>3 DEF BoundedInFlight
<1> QED  BY Inductive, <1>1, PTL

\* A checkpoint never runs ahead of the worker file it speaks for, whatever pids
\* are given out again, and through every crash and resume.
THEOREM CheckpointBehindFiles == Spec => []CommittedDurable
<1>1. IInv => CommittedDurable
  BY DEF IInv
<1> QED  BY Inductive, <1>1, PTL

\* What is committed is a prefix of the source, though the workers finish in any
\* order, if a crash leaves no entry complete but for its newline.
THEOREM CommittedInSourceOrder == ASSUME Deployment PROVE Spec => []CommittedInOrder
<1> DEFINE Inv == IInv /\ Accounted /\ CommittedInOrder
<1>1. Inv /\ [Next]_vars => Inv'
  <2>1. Inv /\ Next => Inv'
    BY NextIInv, NextInOrder DEF IInv
  <2>2. Inv /\ UNCHANGED vars => Inv'
    BY Stutters
  <2> QED  BY <2>1, <2>2
<1>2. Init => Inv
  BY InitIInv
<1>3. Inv => CommittedInOrder
  OBVIOUS
<1> QED  BY <1>1, <1>2, <1>3, PTL DEF Spec
=============================================================================
