-------------------------- MODULE SpawnOutput_proofs --------------------------
(***************************************************************************)
(* What the spawn campaign puts out: that the worker files hold the rows   *)
(* of the committed chunks and no other visible row, for any number of     *)
(* chunks, pids, processes, rows and restarts.                             *)
(***************************************************************************)
EXTENDS SpawnCampaign_proofs

-----------------------------------------------------------------------------
(* Sequences *)

\* What two sequences, one after the other, hold.
Sequel(s, t) ==
    /\ Len(s) \in Nat /\ Len(t) \in Nat
    /\ Len(s \o t) = Len(s) + Len(t)
    /\ \A i \in 1..Len(s) : (s \o t)[i] = s[i]
    /\ \A i \in 1..Len(t) : (s \o t)[Len(s) + i] = t[i]

LEMMA Joined ==
  ASSUME NEW C, NEW s \in Seq(C), NEW t \in Seq(C)
  PROVE  s \o t \in Seq(C) /\ Sequel(s, t)
  BY ConcatProperties, LenProperties DEF Sequel

Associative(s, t, u) == (s \o t) \o u = s \o (t \o u)

LEMMA Associates ==
  ASSUME NEW C, NEW s \in Seq(C), NEW t \in Seq(C), NEW u \in Seq(C)
  PROVE  Associative(s, t, u)
  BY ConcatAssociative DEF Associative

\* A buffer t that u is added to and of which n elements are flushed to s: what was
\* written is written all the same, and s keeps what it holds.
Flushes(s, t, u, n) ==
    LET flushed == s \o SubSeq(t \o u, 1, n)
        rest    == SubSeq(t \o u, n + 1, Len(t \o u))
    IN  /\ flushed \o rest = (s \o t) \o u
        /\ Len(s) <= Len(flushed)
        /\ \A i \in 1..Len(s) : flushed[i] = s[i]

LEMMA FlushedInPart ==
  ASSUME NEW C, NEW s \in Seq(C), NEW t \in Seq(C), NEW u \in Seq(C), NEW n \in 0..Len(t \o u)
  PROVE  Flushes(s, t, u, n)
<1>1. PICK w \in Seq(C) : w = t \o u /\ (s \o t) \o u = s \o w
  <2>1. t \o u \in Seq(C)
    BY ConcatProperties
  <2>2. Associative(s, t, u)
    BY Associates
  <2> QED  BY <2>1, <2>2 DEF Associative
<1>2. PICK fst \in Seq(C), rest \in Seq(C) :
         fst = SubSeq(w, 1, n) /\ rest = SubSeq(w, n + 1, Len(w)) /\ w = fst \o rest
  <2>1. Len(w) \in Nat /\ n \in 0..Len(w)
    BY <1>1, LenProperties
  <2>2. \A i \in 1..Len(w) : w[i] \in C
    BY ElementOfSeq
  <2>3. SubSeq(w, 1, n) \in Seq(C) /\ SubSeq(w, n + 1, Len(w)) \in Seq(C)
    BY <2>1, <2>2, SubSeqProperties
  <2>4. SubSeq(w, 1, Len(w)) = w
    BY SubSeqFull
  <2>5. 1 \in 1..Len(w) + 1 /\ n \in 1 - 1..Len(w) /\ Len(w) \in n..Len(w)
    BY <2>1
  <2>6. SubSeq(w, 1, n) \o SubSeq(w, n + 1, Len(w)) = SubSeq(w, 1, Len(w))
    BY <2>1, <2>5, ConcatAdjacentSubSeq
  <2> QED  BY <2>3, <2>4, <2>6
<1>3. (s \o fst) \o rest = s \o w
  <2>1. Associative(s, fst, rest)
    BY Associates
  <2> QED  BY <1>2, <2>1 DEF Associative
<1>4. Len(s) <= Len(s \o fst) /\ \A i \in 1..Len(s) : (s \o fst)[i] = s[i]
  BY Joined DEF Sequel
<1> QED  BY <1>1, <1>2, <1>3, <1>4 DEF Flushes

USE SizeAssumption

-----------------------------------------------------------------------------
(* The inductive invariant *)

\* A pid that is not of the pool has no process, a process that is gone has left
\* nothing, and files are left to cut only while they are cut.
Members ==
    /\ \A p \in Pid : p \in pool \/ proc[p] = NoProcess
    /\ \A p \in Pid : proc[p].state = "none" => proc[p] = NoProcess
    /\ truncate # {} => pc = "resume"

\* The coordinator waits only with as many batches in flight as may be, or at
\* the end of the source; so nothing is left to submit when nothing is awaited.
Filled ==
    /\ pc = "wait" => Exhausted \/ Len(pending) >= InFlight
    /\ pc \in {"control", "refill"} => Exhausted \/ Len(pending) + 1 >= InFlight

\* No chunk is submitted that is committed.
NotAgain ==
    pc \in Running =>
        /\ CommittedIds(manifest) \subseteq committed \cup 0 .. next - 1
        /\ \A c \in Awaited \cup AtHand : c \notin CommittedIds(manifest)

\* The cells an entry stands for, and that they are the rows of its chunk.
Block(e) == e.offset - e.count + 1 .. e.offset
HoldsRows(e) == \A r \in 1..e.count : file[e.file][e.offset - e.count + r] = Row(e.chunk, r)

\* Every committed line stands for a block of rows beyond the leftover cells of
\* its file, no chunk has two, and the blocks of a file leave no cell out.
Blocks ==
    /\ \A e \in Commits(manifest) : leftover[e.file] + e.count <= e.offset /\ HoldsRows(e)
    /\ \A e, f \in Commits(manifest) : e.chunk = f.chunk => e = f
    /\ \A p \in Pid : \A i \in leftover[p] + 1..CommittedOffset(manifest, p) :
          \E e \in Commits(manifest) : e.file = p /\ i \in Block(e)

\* Where the committed part of a file ends.
Base(p) ==
    IF CommitLinesOf(manifest, p) = {} THEN leftover[p] ELSE CommittedOffset(manifest, p)

\* What was written to a file, flushed or not, and how much of it before the batch
\* its process is running.
Written(p) == file[p] \o proc[p].buffer
Own(p)     == IF proc[p].state = "write" THEN proc[p].matched ELSE 0
Top(p)     == Len(Written(p)) - Own(p)

\* The answers that wait to be committed.
Answers == (results \cap CommitEntry) \cup {m \in {message} : pc = "control"}

\* The chunks whose batches failed: the run ends before it commits one of them, or
\* a later one.
Failed == {c \in Chunk : Error(c) \in results}

\* The cells of file p beyond one up to another are in the blocks of answers for
\* chunks up to c, or will not be committed.
Covers(answers, failed, p, base, c, last) ==
    \/ \E d \in failed : d < c
    \/ \A i \in base + 1..last :
          \E a \in answers : a.file = p /\ a.chunk <= c /\ i \in Block(a)

\* An answer's block follows what is committed and the answers for earlier chunks,
\* and leaves no cell out between them.
AnswersFit ==
    \A a \in Answers :
       /\ Base(a.file) + a.count <= a.offset /\ a.offset <= Top(a.file)
       /\ HoldsRows(a)
       /\ \A b \in Answers :
             a.file = b.file /\ a.chunk < b.chunk => a.offset + b.count <= b.offset
       /\ Covers(Answers, Failed, a.file, Base(a.file), a.chunk, a.offset)

\* The chunk after whose answers the next cells of a file come.
Bound(p) == IF Busy(p) THEN proc[p].chunk ELSE next

\* Beyond what is committed a file holds the blocks of answers, and then the rows of
\* the batch that its process is running.
TailFits(p) ==
    /\ Base(p) <= Len(file[p]) /\ Base(p) <= Top(p)
    /\ \A r \in 1..Own(p) : Written(p)[Top(p) + r] = Row(proc[p].chunk, r)
    /\ Covers(Answers, Failed, p, Base(p), Bound(p), Top(p))

TailsFit == pc \in Running => \A p \in Pid \ truncate : TailFits(p)

\* At the end of a run nothing lies beyond the committed part, and every chunk is
\* committed.
Complete ==
    pc = "done" =>
       /\ CommittedIds(manifest) = Chunk
       /\ \A p \in Pid : Len(file[p]) <= Base(p)

OutputInv == Members /\ Filled /\ NotAgain /\ Blocks /\ AnswersFit /\ TailsFit /\ Complete

-----------------------------------------------------------------------------
(* The coordinator's progress *)

\* No step leaves a process behind, or files to cut after the resume.
LEMMA NextMembers ==
  ASSUME TypeOK, Shapes, Members, Next
  PROVE  Members'
<1> USE DEF Members
<1>1. CASE Start
  <2>1. UNCHANGED <<proc, pool>> /\ (truncate' = {} \/ pc' = "resume")
    BY <1>1 DEF Start, workers
  <2> QED  BY <2>1
<1>2. ASSUME NEW p \in Pid, RunBatch(p) PROVE Members'
  <2>1. /\ UNCHANGED <<pool, truncate, pc>> /\ p \in pool
        /\ \A q \in Pid : q # p => proc'[q] = proc[q]
    BY <1>2 DEF RunBatch, Write, coordinator, TypeOK, Shapes, BusyPids, Busy
  <2>2. proc'[p].state = "write"
    <3>1. PICK k, b : proc' = [proc EXCEPT ![p].buffer = b, ![p].matched = k,
                                           ![p].state = "write"]
      BY <1>2 DEF RunBatch, Write
    <3>2. proc \in [Pid -> ProcessType]
      BY DEF TypeOK, ProcessType
    <3> QED  BY <3>1, <3>2 DEF ProcessType
  <2> QED  BY <2>1, <2>2
<1>3. CASE Aside /\ ~ \E p \in Pid : RunBatch(p)
  <2>1. /\ UNCHANGED <<proc, pool>> /\ (truncate' = truncate \/ pc' = "resume")
        /\ (truncate = {} \/ pc' = pc)
    BY <1>3 DEF Aside, TruncateFile, Resumed, Submitted, Refill, workers
  <2> QED  BY <2>1
<1>4. CASE Get \/ OnControl
  <2>1. UNCHANGED <<proc, pool, truncate>> /\ pc # "resume"
    BY <1>4 DEF Get, OnControl, workers
  <2> QED  BY <2>1
<1>5. CASE Stop
  <2>1. \A p \in Pid : proc'[p] = NoProcess
    BY <1>5 DEF Stop, GetError, Finish, Crash, PoolTerminated, AllProcessesStop
  <2>2. truncate' = {}
    BY <1>5 DEF Stop, GetError, Finish, Crash, MemoryLost
  <2> QED  BY <2>1, <2>2
<1>6. ASSUME NEW c, Queue(c) PROVE Members'
  <2>1. UNCHANGED <<proc, pool, truncate>> /\ pc # "resume"
    BY <1>6 DEF Queue, FirstBatches, Refill
  <2> QED  BY <2>1
<1>7. ASSUME NEW p \in Pid, Take(p) \/ CommitSink(p) \/ Raise(p) PROVE Members'
  <2>1. /\ UNCHANGED <<truncate, pc>>
        /\ \A q \in Pid : q # p => proc'[q] = proc[q]
        /\ pool \ {p} \subseteq pool'
    BY <1>7 DEF Take, CommitSink, Raise, PoolAfter, coordinator, TypeOK
  <2>2. p \in pool' \/ proc'[p] = NoProcess
    BY <1>7 DEF Take, CommitSink, Raise, PoolAfter
  <2>3. proc'[p].state = "none" => proc'[p] = NoProcess
    <3>1. CASE Take(p)
      BY <3>1 DEF Take, TypeOK
    <3>2. CASE CommitSink(p) \/ Raise(p)
      <4>1. PICK q \in ProcessType : proc' = [proc EXCEPT ![p] = Served(q)]
        <5>1. proc[p] \in ProcessType
          BY DEF TypeOK, ProcessType
        <5>2. Flushed(proc[p]) \in ProcessType
          <6>1. <<>> \in Seq(RowCell)
            OBVIOUS
          <6> QED  BY <5>1, <6>1 DEF Flushed, ProcessType
        <5> QED  BY <3>2, <5>1, <5>2 DEF CommitSink, Raise
      <4>2. Served(q).state = "none" => Served(q) = NoProcess
        BY DEF Served, ProcessType
      <4> QED  BY <4>1, <4>2 DEF TypeOK
    <3> QED  BY <1>7, <3>1, <3>2
  <2> QED  BY <2>1, <2>2, <2>3
<1> QED  BY <1>1, <1>2, <1>3, <1>4, <1>5, <1>6, <1>7, Kinds

\* What is exhausted stays so while nothing is submitted.
LEMMA SameSource == UNCHANGED <<next, committed>> => Exhausted' = Exhausted
  BY DEF Exhausted, Yielded

\* Every step fills what it finds free.
LEMMA NextFilled ==
  ASSUME TypeOK, Filled, Next
  PROVE  Filled'
<1> USE DEF Filled
<1>0. Len(pending) \in Nat
  BY DEF TypeOK
<1>1. CASE Start
  <2>1. pc' \in {"submit", "resume"}
    BY <1>1 DEF Start
  <2> QED  BY <2>1
<1>2. CASE Submitted
  <2>1. UNCHANGED <<next, committed, pending>> /\ pc' = "wait"
        /\ (Exhausted \/ Len(pending) >= InFlight)
    BY <1>0, <1>2, Limits DEF Submitted, RoomInFlight
  <2> QED  BY <2>1, SameSource
<1>3. CASE Aside /\ ~Submitted
  <2>1. /\ UNCHANGED <<next, committed, pending>>
        /\ \/ pc' = pc
           \/ pc' = "submit"
           \/ pc' = "wait" /\ Exhausted
    BY <1>3 DEF Aside, TruncateFile, RunBatch, Resumed, Refill, coordinator
  <2> QED  BY <2>1, SameSource
<1>4. CASE Get
  <2>1. UNCHANGED <<next, committed>> /\ pc = "wait" /\ pc' = "control"
        /\ pending # <<>> /\ pending' = Tail(pending)
    BY <1>4 DEF Get
  <2>2. Len(pending') + 1 = Len(pending)
    BY <2>1, HeadTailProperties DEF TypeOK
  <2> QED  BY <2>1, <2>2, SameSource
<1>5. CASE OnControl
  <2>1. UNCHANGED <<next, committed, pending>> /\ pc = "control" /\ pc' = "refill"
    BY <1>5 DEF OnControl
  <2> QED  BY <2>1, SameSource
<1>6. CASE Stop
  <2>1. pc' \in {"down", "done"}
    BY <1>6 DEF Stop, GetError, Finish, Crash
  <2> QED  BY <2>1
<1>7. ASSUME NEW c, Queue(c) PROVE Filled'
  <2>1. \/ pc' = "submit"
        \/ pc = "refill" /\ pc' = "wait"
    BY <1>7 DEF Queue, FirstBatches, Refill
  <2>2. Yielded(c) /\ pending' = Append(pending, c)
    BY <1>7 DEF Queue, Submit
  <2>3. c \in next..NumChunks /\ c \in Chunk
    BY <2>2, YieldedType DEF Yielded, TypeOK, Chunk
  <2>4. ~Exhausted /\ Len(pending') = Len(pending) + 1
    BY <2>2, <2>3 DEF Exhausted, TypeOK
  <2> QED  BY <2>1, <2>4
<1>8. ASSUME NEW p \in Pid, Take(p) \/ CommitSink(p) \/ Raise(p) PROVE Filled'
  <2>1. UNCHANGED <<next, committed, pending, pc>>
    BY <1>8 DEF Take, CommitSink, Raise, coordinator
  <2> QED  BY <2>1, SameSource
<1> QED  BY <1>1, <1>2, <1>3, <1>4, <1>5, <1>6, <1>7, <1>8, Kinds

\* A source with nothing left to yield has no chunk left that was not committed
\* when the run began.
LEMMA ExhaustedSource ==
  ASSUME TypeOK, Exhausted
  PROVE  \A c \in Chunk : next <= c => c \in committed
<1> SUFFICES ASSUME NEW c0 \in Chunk, next <= c0, c0 \notin committed
             PROVE  FALSE
  OBVIOUS
<1> DEFINE S == {c \in Chunk : next <= c /\ c \notin committed}
<1>1. S \subseteq Nat /\ S # {} /\ next \in Nat
  <2>1. c0 \in S /\ next \in Nat
    BY DEF TypeOK
  <2>2. S \subseteq Nat
    BY DEF Chunk
  <2> QED  BY <2>1, <2>2
<1>2. PICK c \in S : \A d \in S : c <= d
  BY <1>1, LeastOfNat
<1>3. \A d \in next .. c - 1 : d \in Chunk /\ next <= d /\ d < c
  BY <1>1, <1>2 DEF Chunk
<1>4. \A d \in next .. c - 1 : d \in committed
  <2> SUFFICES ASSUME NEW d \in next .. c - 1, d \notin committed PROVE FALSE
    OBVIOUS
  <2>1. d \in S /\ d < c
    BY <1>3
  <2> QED  BY <1>1, <1>2, <2>1
<1>5. Yielded(c) /\ c \in next..NumChunks
  BY <1>1, <1>2, <1>4 DEF Yielded, Chunk
<1> QED  BY <1>5 DEF Exhausted

\* No step makes the coordinator submit again what is committed.
LEMMA NextNotAgain ==
  ASSUME Deployment, IInv, Accounted, NotAgain, Next
  PROVE  NotAgain'
<1> USE DEF NotAgain
<1>0. /\ TypeOK /\ Shapes /\ Quiet /\ OnePlace /\ AllAwaited
      /\ WholeLines(manifest) /\ manifest \in Manifests(Entry)
  BY DEF IInv, Accounted, TypeOK
<1>1. CASE Start
  <2>1. /\ UNCHANGED manifest /\ committed' = CommittedIds(manifest) /\ pending' = <<>>
        /\ pc' # "control"
    BY <1>1 DEF Start, disk
  <2>2. Awaited' = {} /\ AtHand' = {}
    BY <2>1 DEF Awaited, Elements, AtHand
  <2> QED  BY <2>1, <2>2 DEF CommittedIds, CommitLines
<1>2. CASE Aside
  <2>1. /\ UNCHANGED <<manifest, committed, next, pending, message>>
        /\ pc' = "control" <=> pc = "control"
        /\ pc' \in Running => pc \in Running
    BY <1>0, <1>2, AsideKeeps
  <2>2. Awaited' = Awaited /\ AtHand' = AtHand
    BY <2>1 DEF Awaited, Elements, AtHand
  <2> QED  BY <2>1, <2>2 DEF CommittedIds, CommitLines
<1>3. CASE Get
  <2>1. /\ UNCHANGED <<manifest, committed, next>> /\ message'.chunk \in Awaited
        /\ Awaited' = Awaited \ {message'.chunk}
    BY <1>0, <1>3, GetStep
  <2>2. AtHand' = {message'.chunk} /\ pc = "wait"
    BY <1>3 DEF Get, AtHand
  <2> QED  BY <2>1, <2>2 DEF CommittedIds, CommitLines, Running
<1>4. CASE OnControl
  <2>1. /\ message \in CommitEntry /\ manifest.terminated
        /\ manifest' = AppendEntry(manifest, message)
        /\ UNCHANGED <<committed, next, pending>> /\ pc = "control" /\ pc' = "refill"
    BY <1>0, <1>4 DEF OnControl, Shapes, Accounted
  <2>2. CommittedIds(manifest)' = CommittedIds(manifest) \cup {message.chunk}
    BY <1>0, <2>1, CommitAdds
  <2>3. Awaited' = Awaited /\ AtHand' = {}
    BY <2>1 DEF Awaited, Elements, AtHand
  <2>4. /\ message.chunk \in 0 .. next - 1
        /\ \A c \in Awaited : c # message.chunk
    <3>1. /\ message.chunk \in Nat /\ message.chunk < next /\ next \in Nat
          /\ \A c \in Awaited : message.chunk < c
      BY <1>0, <2>1, ChunkNumbers DEF AllAwaited
    <3> QED  BY <3>1
  <2> QED  BY <2>1, <2>2, <2>3, <2>4 DEF Running
<1>5. CASE Stop
  <2>1. pc' \in {"down", "done"}
    BY <1>5 DEF Stop, GetError, Finish, Crash
  <2> QED  BY <2>1 DEF Running
<1>6. ASSUME NEW c, Queue(c) PROVE NotAgain'
  <2>1. /\ next' = c + 1 /\ c \in Nat /\ next <= c
        /\ Awaited' = Awaited \cup {c} /\ c \in Chunk /\ pc' \in {"submit", "wait"}
        /\ manifest' = AppendEntry(manifest, Distributed(c))
    BY <1>0, <1>6, QueueStep
  <2>2. pc \in {"submit", "refill"} /\ UNCHANGED committed /\ c \notin committed
    BY <1>6 DEF Queue, FirstBatches, Refill, Submit, Yielded
  <2>3. Distributed(c) \in Entry /\ Distributed(c).type # "committed"
    BY <2>1, EntryTypes DEF Distributed
  <2>4. CommittedIds(manifest)' = CommittedIds(manifest)
    BY <1>0, <2>1, <2>3, OtherEntryAppended, SameLoad
  <2>5. AtHand' = {} /\ c \notin 0 .. next - 1 /\ 0 .. next - 1 \subseteq 0 .. next' - 1
    BY <1>0, <2>1 DEF AtHand, TypeOK
  <2> QED  BY <2>1, <2>2, <2>4, <2>5 DEF Running
<1>7. ASSUME NEW p \in Pid, Take(p) \/ CommitSink(p) \/ Raise(p) PROVE NotAgain'
  <2>1. UNCHANGED <<coordinator, manifest>>
    BY <1>0, <1>7, AnswerStep DEF Take, disk
  <2>2. Awaited' = Awaited /\ AtHand' = AtHand
    BY <2>1 DEF coordinator, Awaited, Elements, AtHand
  <2> QED  BY <2>1, <2>2 DEF coordinator, CommittedIds, CommitLines
<1> QED  BY <1>1, <1>2, <1>3, <1>4, <1>5, <1>6, <1>7, Kinds

\* A run that ends has every chunk committed.
LEMMA FinishCommitted ==
  ASSUME IInv, Accounted, Filled, Finish
  PROVE  CommittedIds(manifest)' = Chunk
<1>1. TypeOK /\ pending = <<>> /\ pc = "wait" /\ UNCHANGED manifest
  BY DEF IInv, Finish, disk
<1>2. Exhausted
  <2>1. Len(pending) = 0
    BY <1>1
  <2> QED  BY <1>1, <2>1, Limits DEF Filled
<1>3. Awaited = {} /\ AtHand = {}
  BY <1>1 DEF Awaited, Elements, AtHand
<1>4. /\ committed \subseteq CommittedIds(manifest)
      /\ \A c \in 0 .. next - 1 : c \in CommittedIds(manifest)
  BY <1>1, <1>3 DEF Accounted, Running
<1>5. CommittedIds(manifest) \subseteq Chunk /\ next \in Nat
  BY <1>1, CommittedOffsetType DEF TypeOK
<1>6. ASSUME NEW c \in Chunk PROVE c \in CommittedIds(manifest)
  <2>1. CASE next <= c
    BY <1>1, <1>2, <1>4, <2>1, ExhaustedSource
  <2>2. CASE ~(next <= c)
    <3>1. c \in 0 .. next - 1
      BY <1>5, <2>2 DEF Chunk
    <3> QED  BY <1>4, <3>1
  <2> QED  BY <2>1, <2>2
<1> QED  BY <1>1, <1>5, <1>6 DEF CommittedIds, CommitLines

-----------------------------------------------------------------------------
(* Files, answers and blocks *)

\* What is written to a file is what it holds and, after it, the process's buffer.
Sized ==
    \A p \in Pid :
       /\ file[p] \in Seq(Cell) /\ Len(file[p]) \in Nat
       /\ synced[p] \in Nat /\ synced[p] <= Len(file[p]) /\ leftover[p] \in Nat
       /\ Written(p) \in Seq(Cell) /\ Len(file[p]) <= Len(Written(p))
       /\ Len(Written(p)) = Len(file[p]) + Len(proc[p].buffer)
       /\ \A i \in 1..Len(file[p]) : Written(p)[i] = file[p][i]
       /\ Own(p) \in Nat /\ Top(p) \in Int /\ Base(p) \in Nat
       /\ CommittedOffset(manifest, p) \in Nat
       /\ Busy(p) => proc[p].chunk \in Nat

LEMMA Sizes == TypeOK => Sized
<1> SUFFICES ASSUME TypeOK, NEW p \in Pid
             PROVE  /\ file[p] \in Seq(Cell) /\ Len(file[p]) \in Nat
                    /\ synced[p] \in Nat /\ synced[p] <= Len(file[p]) /\ leftover[p] \in Nat
                    /\ Written(p) \in Seq(Cell) /\ Len(file[p]) <= Len(Written(p))
                    /\ Len(Written(p)) = Len(file[p]) + Len(proc[p].buffer)
                    /\ \A i \in 1..Len(file[p]) : Written(p)[i] = file[p][i]
                    /\ Own(p) \in Nat /\ Top(p) \in Int /\ Base(p) \in Nat
                    /\ CommittedOffset(manifest, p) \in Nat
                    /\ Busy(p) => proc[p].chunk \in Nat
  BY DEF Sized
<1>1. /\ file[p] \in Seq(Cell) /\ Len(file[p]) \in Nat
      /\ synced[p] \in Nat /\ synced[p] <= Len(file[p]) /\ leftover[p] \in Nat
  BY DEF TypeOK
<1>2. /\ proc[p].buffer \in Seq(RowCell) /\ proc[p].matched \in Nat
      /\ proc[p].chunk \in Nat
  BY SMTT(30) DEF TypeOK
<1>3. proc[p].buffer \in Seq(Cell) /\ Len(proc[p].buffer) \in Nat
  BY <1>2, SeqMonotonic, LenProperties DEF Cell
<1> HIDE DEF Cell
<1>4. /\ Written(p) \in Seq(Cell)
      /\ Len(Written(p)) = Len(file[p]) + Len(proc[p].buffer)
      /\ \A i \in 1..Len(file[p]) : Written(p)[i] = file[p][i]
  <2> DEFINE s == file[p]
             t == proc[p].buffer
  <2>1. s \in Seq(Cell) /\ t \in Seq(Cell) /\ Written(p) = s \o t
    BY <1>1, <1>3 DEF Written
  <2> HIDE DEF s, t
  <2>2. /\ s \o t \in Seq(Cell) /\ Len(s \o t) = Len(s) + Len(t)
        /\ \A i \in 1..Len(s) : (s \o t)[i] = s[i]
    BY <2>1, Joined DEF Sequel
  <2> QED  BY <2>1, <2>2 DEF s, t
<1>5. Own(p) \in Nat /\ Top(p) \in Int
  <2>1. Own(p) \in Nat
    BY <1>2 DEF Own
  <2>2. Len(Written(p)) \in Nat
    BY <1>4, LenProperties
  <2> HIDE DEF Own, Written
  <2> QED  BY <2>1, <2>2 DEF Top
<1>6. CommittedOffset(manifest, p) \in Nat /\ Base(p) \in Nat
  BY <1>1, CommittedOffsetType DEF Base, TypeOK
<1>7. Len(file[p]) <= Len(Written(p))
  <2> DEFINE n == Len(file[p])
             k == Len(proc[p].buffer)
  <2>1. n \in Nat /\ k \in Nat /\ Len(Written(p)) = n + k
    BY <1>1, <1>3, <1>4
  <2> HIDE DEF n, k
  <2>2. n <= n + k
    BY <2>1
  <2> QED  BY <2>1, <2>2 DEF n
<1> QED  BY <1>1, <1>2, <1>4, <1>5, <1>6, <1>7

LEMMA SizesAfter == TypeOK' => Sized'
  BY Sizes, PTL

\* Committed lines speak of synced cells of their file, and the last one of a file
\* says where its committed part ends.
Lined ==
    /\ \A e \in Commits(manifest) :
          /\ e.chunk \in Nat /\ e.file \in Pid /\ e.offset \in Nat /\ e.count \in Nat
          /\ e.offset <= synced[e.file] /\ e.offset <= Base(e.file)
          /\ Base(e.file) = CommittedOffset(manifest, e.file)
    /\ \A p \in Pid :
          \/ /\ \A e \in Commits(manifest) : e.file # p
             /\ CommittedOffset(manifest, p) = 0 /\ Base(p) = leftover[p]
          \/ /\ \E e \in Commits(manifest) : e.file = p /\ e.offset = Base(p)
             /\ Base(p) = CommittedOffset(manifest, p)

LEMMA Lines == IInv => Lined
<1> SUFFICES ASSUME IInv PROVE Lined
  OBVIOUS
<1>1. TypeOK /\ LinesGrow(manifest) /\ CommittedDurable /\ manifest \in Manifests(Entry)
  BY DEF IInv, OffsetsGrow, TypeOK
<1>2. ASSUME NEW e \in Commits(manifest)
      PROVE  /\ e.chunk \in Nat /\ e.file \in Pid /\ e.offset \in Nat /\ e.count \in Nat
             /\ e.offset <= synced[e.file] /\ e.offset <= Base(e.file)
             /\ Base(e.file) = CommittedOffset(manifest, e.file)
  <2>1. e \in CommitEntry
    BY <1>1, CommitLineType DEF Commits
  <2>2. e.chunk \in Nat /\ e.file \in Pid /\ e.offset \in Nat /\ e.count \in Nat
    BY <2>1 DEF CommitEntry, Chunk
  <2>3. CommitLinesOf(manifest, e.file) # {}
    BY DEF Commits, CommitLinesOf
  <2> QED  BY <1>1, <2>2, <2>3, LastOffset DEF Base, CommittedDurable
<1>3. ASSUME NEW p \in Pid, CommitLinesOf(manifest, p) = {}
      PROVE  /\ \A e \in Commits(manifest) : e.file # p
             /\ CommittedOffset(manifest, p) = 0 /\ Base(p) = leftover[p]
  BY <1>3 DEF Commits, CommitLinesOf, CommittedOffset, Base
<1>4. ASSUME NEW p \in Pid, CommitLinesOf(manifest, p) # {}
      PROVE  /\ \E e \in Commits(manifest) : e.file = p /\ e.offset = Base(p)
             /\ Base(p) = CommittedOffset(manifest, p)
  <2>1. LastCommitLine(manifest, p) \in CommitLinesOf(manifest, p)
    BY <1>1, <1>4, LastCommitIsLast
  <2> QED  BY <1>4, <2>1 DEF Base, CommittedOffset, CommitLinesOf, Commits
<1> QED  BY <1>2, <1>3, <1>4 DEF Lined

LEMMA LinesAfter == IInv' => Lined'
  BY Lines, PTL

\* An answer speaks of synced cells, and of a chunk that was submitted.
Answered ==
    \A a \in Answers :
       /\ a \in CommitEntry /\ a.type = "committed"
       /\ a.chunk \in Nat /\ a.file \in Pid /\ a.offset \in Nat /\ a.count \in Nat
       /\ a.offset <= synced[a.file] /\ a.chunk < next
       /\ \A b \in Answers : a.chunk = b.chunk => a = b

LEMMA AnswersSized == IInv => Answered
<1> SUFFICES ASSUME IInv, NEW a \in Answers
             PROVE  /\ a \in CommitEntry /\ a.type = "committed"
                    /\ a.chunk \in Nat /\ a.file \in Pid /\ a.offset \in Nat /\ a.count \in Nat
                    /\ a.offset <= synced[a.file] /\ a.chunk < next
                    /\ \A b \in Answers : a.chunk = b.chunk => a = b
  BY DEF Answered
<1>1. TypeOK /\ Shapes /\ OnePlace /\ AllAwaited /\ ResultsGrow /\ MessageBetween
  BY DEF IInv, OffsetsGrow
<1>2. \A b \in Answers : b \in CommitEntry
  BY <1>1 DEF Answers, Shapes
<1>3. \A b \in CommitEntry : /\ b.chunk \in Nat /\ b.file \in Pid /\ b.type = "committed"
                             /\ b.offset \in Nat /\ b.count \in Nat
  BY DEF CommitEntry, Chunk
<1>4. a.offset <= synced[a.file] /\ a.chunk < next
  BY <1>1, <1>2 DEF Answers, AllAwaited, ResultsGrow, MessageBetween
<1>5. ASSUME NEW b \in Answers, a.chunk = b.chunk PROVE a = b
  <2>1. \A m \in results : pc = "control" => message.chunk < m.chunk
    BY <1>1 DEF AllAwaited
  <2>2. \A m \in results : m \in Answers => m.chunk \in Nat /\ ~(m.chunk < m.chunk)
    BY <1>2, <1>3
  <2> QED  BY <1>1, <1>5, <2>1, <2>2 DEF Answers, OnePlace
<1> QED  BY <1>2, <1>3, <1>4, <1>5

LEMMA AnswersAfter == IInv' => Answered'
  BY AnswersSized, PTL

\* The blocks stay where their cells and the leftovers of their files do.
LEMMA BlocksKept ==
  ASSUME Blocks, Lined, Lined', Sized, Sized',
         Commits(manifest)' = Commits(manifest),
         \A e \in Commits(manifest) :
            /\ leftover'[e.file] = leftover[e.file]
            /\ CommittedOffset(manifest, e.file)' = CommittedOffset(manifest, e.file)
            /\ \A i \in 1..e.offset : file'[e.file][i] = file[e.file][i]
  PROVE  Blocks'
<1>1. ASSUME NEW e \in Commits(manifest)
      PROVE  leftover'[e.file] + e.count <= e.offset /\ HoldsRows(e)'
  <2>1. /\ e.offset \in Nat /\ e.count \in Nat /\ leftover[e.file] \in Nat
        /\ leftover[e.file] + e.count <= e.offset /\ HoldsRows(e)
    BY DEF Blocks, Lined, Sized
  <2>2. \A r \in 1..e.count : e.offset - e.count + r \in 1..e.offset
    BY <2>1
  <2> QED  BY <2>1, <2>2 DEF HoldsRows
<1>2. ASSUME NEW p \in Pid, NEW i \in (leftover[p] + 1..CommittedOffset(manifest, p))'
      PROVE  \E e \in Commits(manifest) : e.file = p /\ i \in Block(e)
  <2>1. leftover'[p] \in Nat /\ i \in leftover'[p] + 1..CommittedOffset(manifest, p)'
    BY DEF Sized
  <2>2. ASSUME \A e \in Commits(manifest) : e.file # p PROVE FALSE
    <3>1. CommittedOffset(manifest, p)' = 0
      BY <2>2 DEF Lined
    <3> QED  BY <2>1, <3>1
  <2>3. /\ leftover'[p] = leftover[p]
        /\ CommittedOffset(manifest, p)' = CommittedOffset(manifest, p)
    BY <2>2
  <2> QED  BY <2>1, <2>3 DEF Blocks
<1> QED  BY <1>1, <1>2 DEF Blocks, Block
\* The numbers among these.
LEMMA Numbers ==
  ASSUME Sized, NEW p \in Pid
  PROVE  /\ Base(p) \in Int /\ Base(p) \in Nat
         /\ Top(p) \in Int /\ Own(p) \in Nat
         /\ Len(file[p]) \in Nat /\ leftover[p] \in Nat
         /\ Len(file[p]) <= Len(Written(p)) /\ synced[p] <= Len(file[p])
         /\ Len(Written(p)) \in Nat /\ synced[p] \in Nat
         /\ Busy(p) => proc[p].chunk \in Int
<1>1. /\ Base(p) \in Nat /\ Top(p) \in Int /\ Own(p) \in Nat
      /\ Len(file[p]) \in Nat /\ leftover[p] \in Nat /\ synced[p] \in Nat
      /\ Len(file[p]) <= Len(Written(p)) /\ synced[p] <= Len(file[p])
      /\ Written(p) \in Seq(Cell)
      /\ Busy(p) => proc[p].chunk \in Nat
  BY DEF Sized
<1>2. Base(p) \in Int
  BY <1>1
<1>3. Len(Written(p)) \in Nat
  BY <1>1, LenProperties
<1>4. Busy(p) => proc[p].chunk \in Int
  BY <1>1
<1> QED  BY <1>1, <1>2, <1>3, <1>4

LEMMA NumbersAfter ==
  ASSUME Sized', NEW p \in Pid
  PROVE  /\ Base(p)' \in Int /\ Base(p)' \in Nat
         /\ Top(p)' \in Int /\ Own(p)' \in Nat
         /\ Len(file'[p]) \in Nat /\ leftover'[p] \in Nat
         /\ Len(file'[p]) <= Len(Written(p)') /\ synced'[p] <= Len(file'[p])
         /\ Len(Written(p)') \in Nat /\ synced'[p] \in Nat
         /\ Busy(p)' => proc'[p].chunk \in Int
<1>1. /\ Base(p)' \in Nat /\ Top(p)' \in Int /\ Own(p)' \in Nat
      /\ Len(file'[p]) \in Nat /\ leftover'[p] \in Nat /\ synced'[p] \in Nat
      /\ Len(file'[p]) <= Len(Written(p)') /\ synced'[p] <= Len(file'[p])
      /\ Written(p)' \in Seq(Cell)
      /\ Busy(p)' => proc'[p].chunk \in Nat
  BY DEF Sized
<1>2. Base(p)' \in Int
  BY <1>1
<1>3. Len(Written(p)') \in Nat
  BY <1>1, LenProperties
<1>4. Busy(p)' => proc'[p].chunk \in Int
  BY <1>1
<1> QED  BY <1>1, <1>2, <1>3, <1>4

\* The answers are entries of these numbers.
LEMMA AnswerNumbers ==
  Answered => \A a \in Answers : /\ a.chunk \in Int /\ a.offset \in Int /\ a.count \in Nat
                                 /\ a.offset \in Nat /\ a.file \in Pid
  BY DEF Answered

\* The chunks that failed are numbers.
LEMMA FailedNumbers == Failed \subseteq Int /\ Failed' \subseteq Int
  BY DEF Failed, Chunk

\* The second of two questions about the cells of a file asks less: more batches have
\* failed, the chunks go further, fewer cells are asked about, and no answer has gone
\* but those for cells that are not asked about any more.
AsksLess(A, A2, F, F2, p, b, b2, c, c2, last, last2) ==
    /\ F \subseteq Int /\ F \subseteq F2
    /\ b \in Int /\ b2 \in Int /\ b <= b2
    /\ c \in Int /\ c2 \in Int /\ c <= c2
    /\ last \in Int /\ last2 \in Int /\ last2 <= last
    /\ \A a \in A : /\ a.chunk \in Int /\ a.offset \in Int /\ a.count \in Nat
                    /\ a.file = p => a \in A2 \/ a.offset <= b2

LEMMA CoversMore ==
  ASSUME NEW A, NEW A2, NEW F, NEW F2, NEW p, NEW b, NEW b2, NEW c, NEW c2, NEW last, NEW last2,
         AsksLess(A, A2, F, F2, p, b, b2, c, c2, last, last2),
         Covers(A, F, p, b, c, last)
  PROVE  Covers(A2, F2, p, b2, c2, last2)
<1> USE DEF AsksLess
<1>1. CASE \E d \in F : d < c
  <2>1. PICK d \in F : d < c
    BY <1>1
  <2>2. d \in F2 /\ d < c2
    BY <2>1
  <2> QED  BY <2>2 DEF Covers
<1>2. CASE ~ \E d \in F : d < c
  <2>1. ASSUME NEW i \in b2 + 1..last2
        PROVE  \E a \in A2 : a.file = p /\ a.chunk <= c2 /\ i \in Block(a)
    <3>1. i \in b + 1..last
      OBVIOUS
    <3>2. PICK a \in A : a.file = p /\ a.chunk <= c /\ i \in Block(a)
      BY <1>2, <3>1 DEF Covers
    <3>3. a.chunk <= c2
      BY <3>2
    <3>4. ~(a.offset <= b2)
      BY <3>2 DEF Block
    <3> QED  BY <3>2, <3>3, <3>4
  <2> QED  BY <2>1 DEF Covers
<1> QED  BY <1>1, <1>2

\* The answers stay in their places when none comes, the cells of their blocks stay,
\* and commits of their files end before them.
LEMMA AnswersStand ==
  ASSUME AnswersFit, Sized, Sized', Answered, Answers' \subseteq Answers,
         Failed \subseteq Failed',
         \A a \in Answers' :
            /\ Base(a.file) <= Base(a.file)' /\ Base(a.file)' + a.count <= a.offset
            /\ a.offset <= Top(a.file)'
            /\ \A i \in 1..a.offset : file'[a.file][i] = file[a.file][i],
         \A a \in Answers : a \in Answers' \/ a.offset <= Base(a.file)'
  PROVE  AnswersFit'
<1> SUFFICES ASSUME NEW a \in Answers'
             PROVE  /\ HoldsRows(a)'
                    /\ \A b \in Answers' :
                          a.file = b.file /\ a.chunk < b.chunk => a.offset + b.count <= b.offset
                    /\ Covers(Answers', Failed', a.file, Base(a.file)', a.chunk, a.offset)
  BY DEF AnswersFit
<1>1. a \in Answers /\ a.file \in Pid /\ a.offset \in Nat /\ a.count \in Nat /\ a.chunk \in Int
  BY AnswerNumbers
<1>2. Base(a.file) \in Int /\ Base(a.file)' \in Int /\ Base(a.file) \in Nat
  BY <1>1, Numbers, NumbersAfter
<1>3. HoldsRows(a)'
  <2>1. HoldsRows(a) /\ Base(a.file) + a.count <= a.offset
    BY <1>1 DEF AnswersFit
  <2>2. \A r \in 1..a.count : a.offset - a.count + r \in 1..a.offset
    BY <1>1, <1>2, <2>1
  <2> QED  BY <2>1, <2>2 DEF HoldsRows
<1>4. Covers(Answers', Failed', a.file, Base(a.file)', a.chunk, a.offset)
  <2>1. Covers(Answers, Failed, a.file, Base(a.file), a.chunk, a.offset)
    BY <1>1 DEF AnswersFit
  <2>2. AsksLess(Answers, Answers', Failed, Failed', a.file, Base(a.file), Base(a.file)',
                 a.chunk, a.chunk, a.offset, a.offset)
    BY <1>1, <1>2, AnswerNumbers, FailedNumbers DEF AsksLess
  <2> QED  BY <2>1, <2>2, CoversMore
<1> QED  BY <1>1, <1>3, <1>4 DEF AnswersFit

\* A file, a process of its and a base that stay as they are still fit when the source
\* has gone no less far and no answer of the file has gone.
LEMMA TailStands ==
  ASSUME Sized, Sized', Answered, next \in Int, next' \in Int, NEW p \in Pid, TailFits(p),
         file'[p] = file[p], proc'[p] = proc[p], next <= next',
         Base(p) <= Base(p)', Base(p)' <= Len(file[p]), Base(p)' <= Top(p),
         Failed \subseteq Failed',
         \A a \in Answers : a.file = p => a \in Answers' \/ a.offset <= Base(p)'
  PROVE  TailFits(p)'
<1>1. Written(p)' = Written(p) /\ Own(p)' = Own(p) /\ Top(p)' = Top(p)
  BY DEF Written, Own, Top
<1>2. Bound(p) \in Int /\ Bound(p)' \in Int /\ Bound(p) <= Bound(p)'
  <2>1. Busy(p) => proc[p].chunk \in Int
    BY Numbers
  <2>2. CASE Busy(p)
    <3>1. Busy(p)' /\ proc'[p].chunk = proc[p].chunk
      BY <2>2 DEF Busy
    <3> QED  BY <2>1, <2>2, <3>1 DEF Bound
  <2>3. CASE ~Busy(p)
    <3>1. ~Busy(p)'
      BY <2>3 DEF Busy
    <3>2. Bound(p) = next /\ Bound(p)' = next'
      BY <2>3, <3>1 DEF Bound
    <3> QED  BY <3>2
  <2> QED  BY <2>2, <2>3
<1>3. Covers(Answers', Failed', p, Base(p)', Bound(p)', Top(p))
  <2>1. Covers(Answers, Failed, p, Base(p), Bound(p), Top(p))
    BY DEF TailFits
  <2>2. AsksLess(Answers, Answers', Failed, Failed', p, Base(p), Base(p)',
                 Bound(p), Bound(p)', Top(p), Top(p))
    BY <1>2, Numbers, NumbersAfter, AnswerNumbers, FailedNumbers DEF AsksLess
  <2> QED  BY <2>1, <2>2, CoversMore
<1> QED  BY <1>1, <1>3 DEF TailFits

\* The rows a batch writes.
Rows(c, k) == [r \in 1..k |-> Row(c, r)]

LEMMA RowsWritten ==
  ASSUME NEW c \in Nat, NEW k \in Nat
  PROVE  /\ Rows(c, k) \in Seq(RowCell) /\ Rows(c, k) \in Seq(Cell)
         /\ Len(Rows(c, k)) = k
         /\ \A r \in 1..k : Rows(c, k)[r] = Row(c, r)
<1>1. \A r \in 1..k : Row(c, r) \in RowCell
  BY DEF Row, RowCell
<1>2. Rows(c, k) \in [1..k -> RowCell]
  BY <1>1 DEF Rows
<1>3. Rows(c, k) \in Seq(RowCell) /\ Len(Rows(c, k)) = k
  BY <1>2
<1>4. Rows(c, k) \in Seq(Cell)
  BY <1>3, SeqMonotonic DEF Cell
<1> QED  BY <1>3, <1>4 DEF Rows

\* The first rows of a batch come after all that was written to the file.
LEMMA RunWrites ==
  ASSUME TypeOK, NEW p \in Pid, RunBatch(p)
  PROVE  \E k \in 0..MaxMatched :
            /\ proc[p].state = "run" /\ proc'[p].state = "write"
            /\ proc'[p].matched = k /\ proc'[p].chunk = proc[p].chunk
            /\ Written(p)' = Written(p) \o Rows(proc[p].chunk, k)
            /\ Len(file[p]) <= Len(file'[p])
            /\ \A i \in 1..Len(file[p]) : file'[p][i] = file[p][i]
            /\ \A q \in Pid : q # p => file'[q] = file[q] /\ proc'[q] = proc[q]
<1>1. PICK k \in 0..MaxMatched : Write(p, k)
  BY DEF RunBatch
<1> DEFINE cells   == proc[p].buffer \o Rows(proc[p].chunk, k)
           flushed == (Len(cells) \div FlushRows) * FlushRows
<1>2. /\ file' = [file EXCEPT ![p] = file[p] \o SubSeq(cells, 1, flushed)]
      /\ proc' = [proc EXCEPT ![p].buffer = SubSeq(cells, flushed + 1, Len(cells)),
                              ![p].matched = k, ![p].state = "write"]
  BY <1>1 DEF Write, Rows
<1>3. /\ file[p] \in Seq(Cell) /\ proc[p].buffer \in Seq(RowCell) /\ proc[p].chunk \in Nat
      /\ k \in Nat
  BY <1>1, SMTT(30) DEF TypeOK
<1>4. proc[p].buffer \in Seq(Cell)
  BY <1>3, SeqMonotonic DEF Cell
<1>5. Rows(proc[p].chunk, k) \in Seq(Cell)
  BY <1>3, RowsWritten
<1>6. flushed \in 0..Len(cells)
  <2> HIDE DEF Cell
  <2>1. cells \in Seq(Cell) /\ Len(cells) \in Nat
    BY <1>4, <1>5, ConcatProperties, LenProperties
  <2> QED  BY <2>1, FlushedRows, Limits
<1> HIDE DEF flushed
<1>7. /\ proc[p].state = "run" /\ proc'[p].state = "write"
      /\ proc'[p].matched = k /\ proc'[p].chunk = proc[p].chunk
      /\ proc'[p].buffer = SubSeq(cells, flushed + 1, Len(cells))
      /\ file'[p] = file[p] \o SubSeq(cells, 1, flushed)
      /\ \A q \in Pid : q # p => file'[q] = file[q] /\ proc'[q] = proc[q]
  BY <1>2, ZenonT(30) DEF TypeOK, RunBatch
<1>8. /\ file'[p] \o proc'[p].buffer = (file[p] \o proc[p].buffer) \o Rows(proc[p].chunk, k)
      /\ Len(file[p]) <= Len(file'[p])
      /\ \A i \in 1..Len(file[p]) : file'[p][i] = file[p][i]
  <2> DEFINE s == file[p]
             t == proc[p].buffer
             u == Rows(proc[p].chunk, k)
  <2>1. s \in Seq(Cell) /\ t \in Seq(Cell) /\ u \in Seq(Cell) /\ flushed \in 0..Len(t \o u)
    BY <1>3, <1>4, <1>5, <1>6
  <2>2. file'[p] = s \o SubSeq(t \o u, 1, flushed)
        /\ proc'[p].buffer = SubSeq(t \o u, flushed + 1, Len(t \o u))
    BY <1>7
  <2> HIDE DEF s, t, u, Cell
  <2>3. Flushes(s, t, u, flushed)
    BY <2>1, FlushedInPart
  <2>4. file'[p] \o proc'[p].buffer = (s \o t) \o u
        /\ Len(s) <= Len(file'[p])
        /\ \A i \in 1..Len(s) : file'[p][i] = s[i]
    BY <2>2, <2>3 DEF Flushes
  <2> QED  BY <2>4 DEF s, t, u
<1> QED  BY <1>1, <1>7, <1>8 DEF Written

\* With an empty buffer, what was written is what the file holds.
LEMMA NothingBuffered ==
  ASSUME NEW C, NEW s \in Seq(C)
  PROVE  s \o <<>> = s
  BY ConcatEmptySeq

\* A commit flushes all that was written; the process is no longer at work.
LEMMA CommitWrites ==
  ASSUME TypeOK, NEW p \in Pid, CommitSink(p)
  PROVE  /\ proc[p].state = "write" /\ p \in BusyPids
         /\ file'[p] = Written(p) /\ Written(p)' = Written(p)
         /\ Own(p)' = 0 /\ ~Busy(p)'
         /\ synced'[p] = Len(Written(p))
         /\ results' =
               results \cup {Committed(proc[p].chunk, p, Len(Written(p)), proc[p].matched)}
         /\ \A q \in Pid : q # p => file'[q] = file[q] /\ proc'[q] = proc[q]
<1>1. /\ proc[p].state = "write" /\ p \in BusyPids
      /\ file' = [file EXCEPT ![p] = file[p] \o proc[p].buffer]
      /\ proc' = [proc EXCEPT ![p] = Served(Flushed(proc[p]))]
      /\ synced' = [synced EXCEPT ![p] = Len(file'[p])]
      /\ results' = results \cup {Committed(proc[p].chunk, p, Len(file'[p]), proc[p].matched)}
  BY DEF CommitSink, SyncSink, BusyPids, Busy
<1>2. proc[p] \in ProcessType
  BY DEF TypeOK, ProcessType
<1>3. Flushed(proc[p]) \in ProcessType /\ Flushed(proc[p]).buffer = <<>>
  <2>1. <<>> \in Seq(RowCell)
    OBVIOUS
  <2> QED  BY <1>2, <2>1 DEF Flushed, ProcessType
<1>4. /\ Served(Flushed(proc[p])).buffer = <<>>
      /\ Served(Flushed(proc[p])).state \in {"none", "idle"}
  <2>1. NoProcess.buffer = <<>>
    BY DEF NoProcess
  <2> QED  BY <1>3, <2>1, ServedType DEF Served, ProcessType
<1>5. /\ file'[p] = Written(p) /\ proc'[p].buffer = <<>>
      /\ proc'[p].state \in {"none", "idle"} /\ synced'[p] = Len(file'[p])
      /\ \A q \in Pid : q # p => file'[q] = file[q] /\ proc'[q] = proc[q]
  BY <1>1, <1>4 DEF TypeOK, Written
<1>6. Written(p) \in Seq(Cell)
  BY Sizes DEF Sized
<1>7. Written(p)' = Written(p)
  <2>1. Written(p)' = Written(p) \o <<>>
    BY <1>5 DEF Written
  <2> HIDE DEF Written, Cell
  <2> QED  BY <1>6, <2>1, NothingBuffered
<1>8. Own(p)' = 0 /\ ~Busy(p)'
  BY <1>5 DEF Own, Busy
<1> QED  BY <1>1, <1>5, <1>7, <1>8

\* A process whose batch failed keeps what it had written, or loses its buffer as it is
\* replaced; it is no longer at work.
LEMMA RaiseWrites ==
  ASSUME TypeOK, NEW p \in Pid, Raise(p)
  PROVE  /\ p \in BusyPids /\ UNCHANGED <<file, synced>>
         /\ Own(p)' = 0 /\ ~Busy(p)'
         /\ results' = results \cup {Error(proc[p].chunk)}
         /\ \A q \in Pid : q # p => proc'[q] = proc[q]
<1>1. /\ proc[p].state = "write" /\ p \in BusyPids /\ UNCHANGED <<file, synced>>
      /\ proc' = [proc EXCEPT ![p] = Served(proc[p])]
      /\ results' = results \cup {Error(proc[p].chunk)}
  BY DEF Raise, BusyPids, Busy, disk
<1>2. Served(proc[p]).state \in {"none", "idle"}
  <2>1. proc[p] \in ProcessType
    BY DEF TypeOK, ProcessType
  <2> QED  BY <2>1, ServedType
<1>3. proc'[p].state \in {"none", "idle"} /\ \A q \in Pid : q # p => proc'[q] = proc[q]
  BY <1>1, <1>2 DEF TypeOK
<1> QED  BY <1>1, <1>3 DEF Own, Busy

\* A process that takes a task finds what it had buffered, if it had.
LEMMA TakeWrites ==
  ASSUME TypeOK, Shapes, Members, NEW p \in Pid, Take(p)
  PROVE  /\ UNCHANGED <<file, synced, results>>
         /\ Written(p)' = Written(p) /\ Own(p) = 0 /\ Own(p)' = 0
         /\ ~Busy(p) /\ Busy(p)' /\ proc'[p].chunk = Head(tasks)
         /\ \A q \in Pid : q # p => proc'[q] = proc[q]
<1>1. /\ proc[p].state \in {"idle", "none"} /\ UNCHANGED <<file, synced, results>>
      /\ proc' = [proc EXCEPT ![p] =
                     [(IF proc[p].state = "none" THEN NewProcess ELSE proc[p])
                          EXCEPT !.state = "run", !.chunk = Head(tasks)]]
  BY DEF Take, disk
<1>2. proc[p].state = "none" => NewProcess.buffer = proc[p].buffer
  BY DEF Members, NewProcess, NoProcess
<1>3. /\ proc'[p].buffer = proc[p].buffer /\ proc'[p].state = "run"
      /\ proc'[p].chunk = Head(tasks)
      /\ \A q \in Pid : q # p => proc'[q] = proc[q]
  BY <1>1, <1>2 DEF TypeOK, NewProcess, NoProcess
<1> QED  BY <1>1, <1>3 DEF Written, Own, Busy
-----------------------------------------------------------------------------
(* What a step does to them *)

\* Where the committed parts end depends on the committed lines and the leftovers.
LEMMA BaseKept ==
  ASSUME TypeOK, SameCommits(manifest, manifest'), UNCHANGED leftover
  PROVE  /\ Commits(manifest)' = Commits(manifest)
         /\ \A p \in Pid : /\ CommittedOffset(manifest, p)' = CommittedOffset(manifest, p)
                           /\ Base(p)' = Base(p)
<1>1. /\ Commits(manifest') = Commits(manifest)
      /\ \A f : CommitLinesOf(manifest', f) = CommitLinesOf(manifest, f)
      /\ \A f : CommittedOffset(manifest', f) = CommittedOffset(manifest, f)
  BY SameCommitsLoad DEF TypeOK
<1>2. /\ Commits(manifest)' = Commits(manifest')
      /\ \A p \in Pid : /\ CommitLinesOf(manifest, p)' = CommitLinesOf(manifest', p)
                        /\ CommittedOffset(manifest, p)' = CommittedOffset(manifest', p)
  BY DEF Commits, CommitLines, CommitLinesOf, CommittedOffset, LastCommitLine
<1> QED  BY <1>1, <1>2 DEF Base

\* The invariant's numbers, before a step and after it.
Counts == Sized /\ Lined /\ Answered /\ next \in Int

LEMMA CountsHold == IInv => Counts
<1>1. IInv => Sized /\ Lined /\ Answered
  BY Sizes, Lines, AnswersSized DEF IInv
<1>2. IInv => next \in Int
  BY DEF IInv, TypeOK
<1> QED  BY <1>1, <1>2 DEF Counts

LEMMA CountsAfter == IInv' => Counts'
  BY CountsHold, PTL

\* A step of the coordinator that neither commits, nor cuts files, nor starts or ends a
\* run.
LEMMA OnwardFits ==
  ASSUME IInv, IInv', Blocks, AnswersFit, TailsFit,
         SameCommits(manifest, manifest'), UNCHANGED <<file, proc, leftover, truncate>>,
         Answers' = Answers, Failed' = Failed, next <= next',
         pc' \in Running => pc \in Running
  PROVE  Blocks' /\ AnswersFit' /\ TailsFit'
<1>1. Counts /\ Counts' /\ TypeOK
  BY CountsHold, CountsAfter DEF IInv
<1>2. /\ Commits(manifest)' = Commits(manifest)
      /\ \A p \in Pid : /\ CommittedOffset(manifest, p)' = CommittedOffset(manifest, p)
                        /\ Base(p)' = Base(p)
  BY <1>1, BaseKept
<1>3. Blocks'
  <2>1. \A e \in Commits(manifest) : e.file \in Pid
    BY <1>1 DEF Counts, Lined
  <2> QED  BY <1>1, <1>2, <2>1, BlocksKept DEF Counts
<1>4. \A p \in Pid : Top(p)' = Top(p)
  BY DEF Top, Written, Own
<1>5. AnswersFit'
  <2>1. \A a \in Answers : a.file \in Pid
    BY <1>1, AnswerNumbers DEF Counts
  <2>2. ASSUME NEW a \in Answers
        PROVE  /\ Base(a.file) <= Base(a.file)' /\ Base(a.file)' + a.count <= a.offset
               /\ a.offset <= Top(a.file)'
               /\ \A i \in 1..a.offset : file'[a.file][i] = file[a.file][i]
    <3>1. Base(a.file) \in Int /\ Base(a.file)' = Base(a.file) /\ Top(a.file)' = Top(a.file)
      BY <1>1, <1>2, <1>4, <2>1, Numbers DEF Counts
    <3>2. Base(a.file) + a.count <= a.offset /\ a.offset <= Top(a.file)
      BY DEF AnswersFit
    <3> QED  BY <3>1, <3>2
  <2> QED  BY <1>1, <2>2, AnswersStand DEF Counts
<1>6. TailsFit'
  <2> SUFFICES ASSUME pc' \in Running, NEW p \in Pid \ truncate PROVE TailFits(p)'
    BY DEF TailsFit
  <2>1. TailFits(p)
    BY DEF TailsFit
  <2>2. Base(p) \in Int /\ Base(p)' = Base(p)
    BY <1>1, <1>2, Numbers DEF Counts
  <2>3. Base(p) <= Base(p)' /\ Base(p)' <= Len(file[p]) /\ Base(p)' <= Top(p)
    <3>1. Base(p) <= Len(file[p]) /\ Base(p) <= Top(p)
      BY <2>1 DEF TailFits
    <3> QED  BY <2>2, <3>1
  <2> QED  BY <1>1, <2>1, <2>3, TailStands DEF Counts
<1> QED  BY <1>3, <1>5, <1>6

\* A step of process p, if what it leaves of its file fits and no answer of the file
\* reaches into its next rows.
LEMMA ProcessFits ==
  ASSUME IInv, IInv', Blocks, TailsFit, NEW p \in Pid,
         UNCHANGED <<manifest, leftover, truncate, next, pc>>,
         \A q \in Pid : q # p => file'[q] = file[q] /\ proc'[q] = proc[q],
         \A i \in 1..Len(file[p]) : file'[p][i] = file[p][i],
         Answers \subseteq Answers', Failed \subseteq Failed',
         pc \in Running => TailFits(p)'
  PROVE  /\ Blocks' /\ TailsFit'
         /\ AnswersFit /\ Answers' = Answers /\ (\A a \in Answers : a.file = p => a.offset <= Top(p)')
               => AnswersFit'
<1>1. Counts /\ Counts' /\ TypeOK
  BY CountsHold, CountsAfter DEF IInv
<1>2. /\ Commits(manifest)' = Commits(manifest)
      /\ \A q \in Pid : /\ CommittedOffset(manifest, q)' = CommittedOffset(manifest, q)
                        /\ Base(q)' = Base(q)
  BY <1>1, BaseKept DEF SameCommits
<1>3. \A q \in Pid : \A i \in 1..Len(file[q]) : file'[q][i] = file[q][i]
  OBVIOUS
<1>4. ASSUME NEW q \in Pid, NEW n \in Nat, n <= synced[q]
      PROVE  \A i \in 1..n : file'[q][i] = file[q][i]
  <2>1. synced[q] \in Nat /\ Len(file[q]) \in Nat /\ synced[q] <= Len(file[q])
    BY <1>1, Numbers DEF Counts
  <2> QED  BY <1>3, <1>4, <2>1
<1>5. Blocks'
  <2>1. \A e \in Commits(manifest) : e.file \in Pid /\ e.offset \in Nat /\ e.offset <= synced[e.file]
    BY <1>1 DEF Counts, Lined
  <2>2. \A e \in Commits(manifest) : \A i \in 1..e.offset : file'[e.file][i] = file[e.file][i]
    BY <1>4, <2>1
  <2> QED  BY <1>1, <1>2, <2>1, <2>2, BlocksKept DEF Counts
<1>6. TailsFit'
  <2> SUFFICES ASSUME pc \in Running, NEW q \in Pid \ truncate PROVE TailFits(q)'
    BY DEF TailsFit
  <2>1. CASE q = p
    BY <2>1
  <2>2. CASE q # p
    <3>1. TailFits(q) /\ file'[q] = file[q] /\ proc'[q] = proc[q]
      BY <2>2 DEF TailsFit
    <3>2. Base(q) \in Int /\ Base(q)' = Base(q) /\ next \in Int /\ next' = next
      BY <1>1, <1>2, Numbers DEF Counts
    <3>3. Base(q) <= Base(q)' /\ Base(q)' <= Len(file[q]) /\ Base(q)' <= Top(q) /\ next <= next'
      <4>1. Base(q) <= Len(file[q]) /\ Base(q) <= Top(q)
        BY <3>1 DEF TailFits
      <4> QED  BY <3>2, <4>1
    <3> QED  BY <1>1, <3>1, <3>3, TailStands DEF Counts
  <2> QED  BY <2>1, <2>2
<1>7. ASSUME AnswersFit, Answers' = Answers,
             \A a \in Answers : a.file = p => a.offset <= Top(p)'
      PROVE  AnswersFit'
  <2>1. ASSUME NEW a \in Answers
        PROVE  /\ Base(a.file) <= Base(a.file)' /\ Base(a.file)' + a.count <= a.offset
               /\ a.offset <= Top(a.file)'
               /\ \A i \in 1..a.offset : file'[a.file][i] = file[a.file][i]
    <3>1. a.file \in Pid /\ a.offset \in Nat /\ a.offset <= synced[a.file]
      BY <1>1 DEF Counts, Answered
    <3>2. Base(a.file) \in Int /\ Base(a.file)' = Base(a.file)
      BY <1>1, <1>2, <3>1, Numbers DEF Counts
    <3>3. Base(a.file) + a.count <= a.offset /\ a.offset <= Top(a.file)
      BY <1>7 DEF AnswersFit
    <3>4. a.offset <= Top(a.file)'
      <4>1. CASE a.file = p
        BY <1>7, <4>1
      <4>2. CASE a.file # p
        BY <3>1, <3>3, <4>2 DEF Top, Written, Own
      <4> QED  BY <4>1, <4>2
    <3>5. \A i \in 1..a.offset : file'[a.file][i] = file[a.file][i]
      BY <1>4, <3>1
    <3> QED  BY <3>2, <3>3, <3>4, <3>5
  <2> QED  BY <1>1, <1>7, <2>1, AnswersStand DEF Counts
<1> QED  BY <1>5, <1>6, <1>7

\* A step with the same results, and no result at hand before it or after it, has the
\* same answers and failures.
LEMMA SameAnswers ==
  ASSUME UNCHANGED results, (pc # "control" /\ pc' # "control") \/ UNCHANGED <<pc, message>>
  PROVE  Answers' = Answers /\ Failed' = Failed
  BY DEF Answers, Failed

\* The coordinator submits and fetches.
LEMMA CoordinatorFits ==
  ASSUME IInv, IInv', Accounted, Blocks, AnswersFit, TailsFit,
         \/ Resumed \/ Submitted \/ Get
         \/ Refill /\ Exhausted /\ UNCHANGED <<manifest, next, pending, tasks>>
         \/ \E c : Queue(c)
  PROVE  Blocks' /\ AnswersFit' /\ TailsFit'
<1>0. /\ TypeOK /\ Shapes /\ OnePlace /\ AllAwaited /\ WholeLines(manifest)
      /\ manifest \in Manifests(Entry) /\ next \in Int
  BY SMTT(30) DEF IInv, Accounted, TypeOK
<1>1. CASE \/ Resumed \/ Submitted
           \/ Refill /\ Exhausted /\ UNCHANGED <<manifest, next, pending, tasks>>
  <2>1. /\ UNCHANGED <<manifest, file, proc, leftover, truncate, results, next>>
        /\ pc # "control" /\ pc' # "control" /\ pc \in Running
    BY <1>1 DEF Resumed, Submitted, Refill, disk, workers, Running
  <2>2. SameCommits(manifest, manifest') /\ next <= next'
    BY <1>0, <2>1 DEF SameCommits
  <2> QED  BY <2>1, <2>2, SameAnswers, OnwardFits
<1>2. CASE Get
  <2>1. /\ UNCHANGED <<manifest, file, proc, leftover, truncate, next>>
        /\ pc = "wait" /\ pc' = "control"
    BY <1>2 DEF Get, disk
  <2>2. message' \in results \cap CommitEntry /\ results' = results \ {message'}
    BY <1>0, <1>2, GetMessage
  <2>3. Answers' = Answers
    BY <2>1, <2>2 DEF Answers
  <2>4. Failed' = Failed
    BY <2>2 DEF Failed, Error, CommitEntry
  <2>5. SameCommits(manifest, manifest') /\ next <= next' /\ pc \in Running
    BY <1>0, <2>1 DEF SameCommits, Running
  <2> QED  BY <2>1, <2>3, <2>4, <2>5, OnwardFits
<1>3. ASSUME NEW c, Queue(c) PROVE Blocks' /\ AnswersFit' /\ TailsFit'
  <2>1. /\ next' = c + 1 /\ c \in Nat /\ next <= c /\ c \in Chunk /\ pc' \in {"submit", "wait"}
        /\ manifest' = AppendEntry(manifest, Distributed(c))
        /\ UNCHANGED <<results, proc>>
    BY <1>0, <1>3, QueueStep
  <2>2. pc \in {"submit", "refill"} /\ UNCHANGED <<file, leftover, truncate>>
    BY <1>3 DEF Queue, FirstBatches, Refill
  <2>3. Distributed(c) \in Entry /\ Distributed(c).type # "committed"
    BY <2>1, EntryTypes DEF Distributed
  <2>4. SameCommits(manifest, manifest')
    BY <1>0, <2>1, <2>3, OtherEntryAppended
  <2>5. next <= next' /\ pc \in Running /\ pc # "control" /\ pc' # "control"
    BY <1>0, <2>1, <2>2 DEF Running
  <2> QED  BY <2>1, <2>2, <2>4, <2>5, SameAnswers, OnwardFits
<1> QED  BY <1>1, <1>2, <1>3

\* A process takes a task.  The answers and failures so far are for earlier chunks.
LEMMA TakeFits ==
  ASSUME IInv, IInv', Members, Blocks, AnswersFit, TailsFit, NEW p \in Pid, Take(p)
  PROVE  Blocks' /\ AnswersFit' /\ TailsFit'
<1>0. TypeOK /\ Shapes /\ OnePlace /\ AllAwaited /\ Counts /\ Counts'
  BY CountsHold, CountsAfter DEF IInv
<1>1. /\ UNCHANGED <<manifest, leftover, truncate, next, pc, message, pending>>
      /\ pc \in Running /\ Head(tasks) \in Queued
  BY <1>0, TakeStep DEF Take, disk, coordinator
<1>2. /\ UNCHANGED <<file, results>>
      /\ Written(p)' = Written(p) /\ Own(p) = 0 /\ Own(p)' = 0
      /\ ~Busy(p) /\ Busy(p)' /\ proc'[p].chunk = Head(tasks)
      /\ \A q \in Pid : q # p => proc'[q] = proc[q]
  BY <1>0, TakeWrites
<1>3. Answers' = Answers /\ Failed' = Failed
  BY <1>1, <1>2, SameAnswers
<1>4. Base(p)' = Base(p) /\ Top(p)' = Top(p)
  <2>1. Base(p)' = Base(p)
    BY <1>0, <1>1, BaseKept DEF SameCommits
  <2> QED  BY <1>2, <2>1 DEF Top
<1>5. ASSUME p \notin truncate PROVE TailFits(p)'
  <2>1. TailFits(p)
    BY <1>1, <1>5 DEF TailsFit
  <2>2. Bound(p) = next /\ Bound(p)' = Head(tasks)
    BY <1>2 DEF Bound
  <2>3. (\A d \in Failed : d < Head(tasks)) /\ \A a \in Answers : a.chunk < Head(tasks)
    <3>1. Head(tasks) \in Awaited /\ \A m \in results : m.chunk < Head(tasks)
      BY <1>0, <1>1 DEF OnePlace, AllAwaited
    <3>2. pc = "control" => message.chunk < Head(tasks)
      BY <1>0, <3>1 DEF AllAwaited
    <3>3. \A d \in Failed : Error(d) \in results /\ Error(d).chunk = d
      BY DEF Failed, Error
    <3> QED  BY <3>1, <3>2, <3>3 DEF Answers
  <2>4. Covers(Answers, Failed, p, Base(p), next, Top(p))
    BY <2>1, <2>2 DEF TailFits
  <2>5. Head(tasks) \in Int /\ \A a \in Answers : a.chunk \in Int
    BY <1>0, <1>1, AnswerNumbers, ChunkNumbers DEF Counts
  <2>6. Covers(Answers, Failed, p, Base(p), Head(tasks), Top(p))
    <3>1. CASE \E d \in Failed : d < next
      BY <2>3, <3>1 DEF Covers
    <3>2. CASE ~ \E d \in Failed : d < next
      <4>1. \A a \in Answers : a.chunk <= Head(tasks)
        BY <2>3, <2>5
      <4>2. \A i \in Base(p) + 1..Top(p) :
               \E a \in Answers : a.file = p /\ a.chunk <= next /\ i \in Block(a)
        BY <2>4, <3>2 DEF Covers
      <4>3. \A i \in Base(p) + 1..Top(p) :
               \E a \in Answers : a.file = p /\ a.chunk <= Head(tasks) /\ i \in Block(a)
        BY <4>1, <4>2
      <4> QED  BY <4>3 DEF Covers
    <3> QED  BY <3>1, <3>2
  <2>7. \A r \in 1..Own(p)' : FALSE
    BY <1>2
  <2>8. Base(p)' <= Len(file'[p]) /\ Base(p)' <= Top(p)'
    BY <1>2, <1>4, <2>1 DEF TailFits
  <2> QED  BY <1>3, <1>4, <2>2, <2>6, <2>7, <2>8 DEF TailFits
<1>6. p \notin truncate
  <2>1. pc # "resume"
    BY <1>1 DEF IInv, Quiet, Take, Queued, Elements
  <2> QED  BY <2>1 DEF Members
<1>7. \A a \in Answers : a.file = p => a.offset <= Top(p)'
  BY <1>4 DEF AnswersFit
<1> QED  BY <1>1, <1>2, <1>3, <1>5, <1>6, <1>7, ProcessFits

\* The first rows of a batch lie beyond all answers.
LEMMA RunFits ==
  ASSUME IInv, IInv', Members, Blocks, AnswersFit, TailsFit, NEW p \in Pid, RunBatch(p)
  PROVE  Blocks' /\ AnswersFit' /\ TailsFit'
<1>0. TypeOK /\ Shapes /\ Counts /\ Counts'
  BY CountsHold, CountsAfter DEF IInv
<1>1. UNCHANGED <<manifest, leftover, truncate, next, pc, message, results>>
  BY DEF RunBatch, coordinator
<1>2. PICK k \in 0..MaxMatched :
         /\ proc[p].state = "run" /\ proc'[p].state = "write"
         /\ proc'[p].matched = k /\ proc'[p].chunk = proc[p].chunk
         /\ Written(p)' = Written(p) \o Rows(proc[p].chunk, k)
         /\ Len(file[p]) <= Len(file'[p])
         /\ \A i \in 1..Len(file[p]) : file'[p][i] = file[p][i]
         /\ \A q \in Pid : q # p => file'[q] = file[q] /\ proc'[q] = proc[q]
  BY <1>0, RunWrites
<1>3. Answers' = Answers /\ Failed' = Failed
  BY <1>1, SameAnswers
<1>4. Base(p)' = Base(p) /\ Base(p) \in Int
  BY <1>0, <1>1, BaseKept, Numbers DEF SameCommits, Counts
<1>5. Own(p) = 0 /\ Own(p)' = k /\ Busy(p) /\ Busy(p)' /\ Bound(p)' = Bound(p)
  BY <1>2 DEF Own, Busy, Bound
<1>6. /\ Top(p)' = Top(p) /\ Top(p) = Len(Written(p)) /\ Top(p) \in Nat
      /\ \A r \in 1..k : Written(p)'[Top(p) + r] = Row(proc[p].chunk, r)
  <2>1. Written(p) \in Seq(Cell) /\ Len(Written(p)) \in Nat
    BY <1>0, Numbers DEF Counts, Sized
  <2>2. proc[p].chunk \in Nat /\ k \in Nat
    BY <1>0, <1>2 DEF TypeOK
  <2> DEFINE s == Written(p)
             t == Rows(proc[p].chunk, k)
  <2>3. /\ t \in Seq(Cell) /\ Len(t) = k
        /\ \A r \in 1..k : t[r] = Row(proc[p].chunk, r)
    BY <2>2, RowsWritten
  <2>4. s \in Seq(Cell) /\ Written(p)' = s \o t /\ Len(s) \in Nat
    BY <1>2, <2>1
  <2> HIDE DEF s, t, Cell
  <2>5. Sequel(s, t)
    BY <2>3, <2>4, Joined
  <2>6. Len(Written(p)') = Len(s) + k /\ \A r \in 1..k : Written(p)'[Len(s) + r] = t[r]
    BY <2>3, <2>4, <2>5 DEF Sequel
  <2>7. Top(p) = Len(s) - 0
    BY <1>5 DEF Top, s
  <2>8. Top(p)' = Len(Written(p)') - k
    BY <1>5 DEF Top
  <2>9. Top(p)' = Len(s) /\ Top(p) = Len(s)
    BY <2>2, <2>4, <2>6, <2>7, <2>8
  <2> QED  BY <2>3, <2>4, <2>6, <2>9 DEF s
<1>7. ASSUME p \notin truncate, pc \in Running PROVE TailFits(p)'
  <2>1. TailFits(p)
    BY <1>7 DEF TailsFit
  <2>2. Base(p) <= Len(file[p]) /\ Base(p) <= Top(p)
        /\ Covers(Answers, Failed, p, Base(p), Bound(p), Top(p))
    BY <2>1 DEF TailFits
  <2>3. Base(p)' <= Len(file'[p]) /\ Base(p)' <= Top(p)'
    <3>1. Len(file[p]) \in Int /\ Len(file'[p]) \in Int
      BY <1>0, Numbers, NumbersAfter DEF Counts
    <3> QED  BY <1>2, <1>4, <1>6, <2>2, <3>1
  <2>4. \A r \in 1..Own(p)' : Written(p)'[Top(p)' + r] = Row(proc'[p].chunk, r)
    BY <1>2, <1>5, <1>6
  <2> QED  BY <1>3, <1>4, <1>5, <1>6, <2>2, <2>3, <2>4 DEF TailFits
<1>8. p \notin truncate
  <2>1. p \in pool
    BY <1>0, <1>5 DEF Shapes, BusyPids
  <2>2. pc # "resume"
    BY <2>1 DEF IInv, Quiet
  <2> QED  BY <2>2 DEF Members
<1>9. \A a \in Answers : a.file = p => a.offset <= Top(p)'
  BY <1>6 DEF AnswersFit
<1> QED  BY <1>1, <1>2, <1>3, <1>7, <1>8, <1>9, ProcessFits

\* A failed batch: what was written will not be committed.
LEMMA RaiseFits ==
  ASSUME IInv, IInv', Members, Blocks, AnswersFit, TailsFit, NEW p \in Pid, Raise(p)
  PROVE  Blocks' /\ AnswersFit' /\ TailsFit'
<1>0. TypeOK /\ Shapes /\ AllAwaited /\ Counts /\ Counts'
  BY CountsHold, CountsAfter DEF IInv
<1>1. UNCHANGED <<manifest, leftover, truncate, next, pc, message>> /\ p \in pool
  BY DEF Raise, coordinator, disk
<1>2. /\ p \in BusyPids /\ UNCHANGED <<file, synced>>
      /\ Own(p)' = 0 /\ ~Busy(p)'
      /\ results' = results \cup {Error(proc[p].chunk)}
      /\ \A q \in Pid : q # p => proc'[q] = proc[q]
  BY <1>0, RaiseWrites
<1>3. Answers' = Answers /\ Failed \subseteq Failed' /\ proc[p].chunk \in Failed'
      /\ proc[p].chunk < next
  <2>1. results' \cap CommitEntry = results \cap CommitEntry
    BY <1>2 DEF Error, CommitEntry
  <2>2. proc[p].chunk \in Chunk /\ proc[p].chunk \in Awaited
    BY <1>0, <1>2 DEF Shapes, AllAwaited
  <2> QED  BY <1>0, <1>1, <1>2, <2>1, <2>2 DEF Answers, Failed, AllAwaited
<1>4. Base(p)' = Base(p)
  BY <1>0, <1>1, BaseKept DEF SameCommits
<1>5. /\ Top(p)' = Len(Written(p)') /\ Len(file[p]) <= Top(p)' /\ synced[p] <= Top(p)'
      /\ Len(file[p]) \in Int /\ Top(p)' \in Int /\ synced[p] \in Int /\ Base(p) \in Int
  <2>1. /\ Len(Written(p)') \in Nat /\ Len(file[p]) \in Nat /\ synced[p] \in Nat
        /\ Len(file[p]) <= Len(Written(p)') /\ synced[p] <= Len(file[p])
    BY <1>0, <1>2, NumbersAfter DEF Counts
  <2>2. Top(p)' = Len(Written(p)')
    BY <1>2, <2>1 DEF Top
  <2>3. Base(p) \in Int
    BY <1>0, Numbers DEF Counts
  <2> QED  BY <2>1, <2>2, <2>3
<1>6. ASSUME p \notin truncate, pc \in Running PROVE TailFits(p)'
  <2>1. Base(p) <= Len(file[p])
    BY <1>6 DEF TailsFit, TailFits
  <2>2. Base(p)' <= Len(file'[p]) /\ Base(p)' <= Top(p)'
    BY <1>2, <1>4, <1>5, <2>1
  <2>3. Bound(p)' = next
    BY <1>1, <1>2 DEF Bound
  <2>4. Covers(Answers', Failed', p, Base(p)', Bound(p)', Top(p)')
    BY <1>3, <2>3 DEF Covers
  <2>5. \A r \in 1..Own(p)' : FALSE
    BY <1>2
  <2> QED  BY <2>2, <2>4, <2>5 DEF TailFits
<1>7. p \notin truncate
  <2>1. pc # "resume"
    BY <1>1 DEF IInv, Quiet
  <2> QED  BY <2>1 DEF Members
<1>8. ASSUME NEW a \in Answers, a.file = p PROVE a.offset <= Top(p)'
  <2>1. a.offset \in Nat /\ a.offset <= synced[p]
    BY <1>0, <1>8 DEF Counts, Answered
  <2> QED  BY <1>5, <2>1
<1> QED  BY <1>1, <1>2, <1>3, <1>6, <1>7, <1>8, ProcessFits

\* A committed batch is answered by the block of its rows.
LEMMA CommitFits ==
  ASSUME IInv, IInv', Members, Blocks, AnswersFit, TailsFit, NEW p \in Pid, CommitSink(p)
  PROVE  Blocks' /\ AnswersFit' /\ TailsFit'
<1>0. TypeOK /\ Shapes /\ AllAwaited /\ ResultsGrow /\ Counts /\ Counts'
  BY CountsHold, CountsAfter DEF IInv, OffsetsGrow
<1>1. UNCHANGED <<manifest, leftover, truncate, next, pc, message>> /\ p \in pool
  BY DEF CommitSink, coordinator
<1> DEFINE new == Committed(proc[p].chunk, p, Len(Written(p)), proc[p].matched)
<1>2. /\ proc[p].state = "write" /\ p \in BusyPids
      /\ file'[p] = Written(p) /\ Written(p)' = Written(p)
      /\ Own(p)' = 0 /\ ~Busy(p)'
      /\ results' = results \cup {new}
      /\ \A q \in Pid : q # p => file'[q] = file[q] /\ proc'[q] = proc[q]
  BY <1>0, CommitWrites
<1>3. /\ Own(p) = proc[p].matched /\ Bound(p) = proc[p].chunk /\ Bound(p)' = next
      /\ proc[p].chunk < next /\ proc[p].chunk \in Chunk /\ proc[p].chunk \in Int
  <2>1. Own(p) = proc[p].matched /\ Bound(p) = proc[p].chunk /\ Bound(p)' = next
    BY <1>1, <1>2 DEF Own, Bound, Busy
  <2>2. proc[p].chunk < next /\ proc[p].chunk \in Chunk
    BY <1>0, <1>2 DEF AllAwaited, Shapes
  <2> QED  BY <2>1, <2>2 DEF Chunk
<1>4. /\ Len(Written(p)) \in Nat /\ Own(p) \in Nat /\ Top(p) = Len(Written(p)) - Own(p)
      /\ Top(p)' = Len(Written(p)) /\ Top(p) \in Int
      /\ Len(file[p]) \in Nat /\ Len(file[p]) <= Len(Written(p))
  <2>1. /\ Len(Written(p)) \in Nat /\ Own(p) \in Nat /\ Top(p) \in Int
        /\ Len(file[p]) \in Nat /\ Len(file[p]) <= Len(Written(p))
    BY <1>0, Numbers DEF Counts
  <2>2. Top(p) = Len(Written(p)) - Own(p) /\ Top(p)' = Len(Written(p)) - 0
    BY <1>2 DEF Top
  <2> QED  BY <2>1, <2>2
<1>5. /\ new \in CommitEntry /\ new.file = p /\ new.chunk = proc[p].chunk
      /\ new.offset = Len(Written(p)) /\ new.count = Own(p)
      /\ new.offset - new.count = Top(p)
  <2>1. new \in CommitEntry
    <3>1. proc[p].matched \in 0..MaxMatched
      BY <1>0 DEF TypeOK
    <3> QED  BY <1>3, <1>4, <3>1, EntryTypes
  <2> QED  BY <1>3, <1>4, <2>1 DEF Committed
<1> HIDE DEF new
<1>6. Answers' = Answers \cup {new} /\ Failed' = Failed
  <2>1. \A c \in Chunk : Error(c) # new
    BY <1>5 DEF Error, CommitEntry
  <2> QED  BY <1>1, <1>2, <1>5, <2>1 DEF Answers, Failed
<1>7. \A q \in Pid : Base(q)' = Base(q) /\ Base(q) \in Int
  BY <1>0, <1>1, BaseKept, Numbers DEF SameCommits, Counts
<1>8. p \notin truncate /\ pc \in Running
  <2>1. pc \notin {"resume", "down", "done"}
    BY <1>1 DEF IInv, Quiet
  <2> QED  BY <1>0, <2>1 DEF Members, TypeOK
<1>9. /\ Base(p) <= Len(file[p]) /\ Base(p) <= Top(p)
      /\ \A r \in 1..Own(p) : Written(p)[Top(p) + r] = Row(proc[p].chunk, r)
      /\ Covers(Answers, Failed, p, Base(p), proc[p].chunk, Top(p))
  <2>1. TailFits(p)
    BY <1>8 DEF TailsFit
  <2> QED  BY <1>3, <2>1 DEF TailFits
<1>10. Covers(Answers', Failed', p, Base(p)', new.chunk, Len(Written(p)))
  <2>1. CASE \E d \in Failed : d < proc[p].chunk
    BY <1>5, <1>6, <2>1 DEF Covers
  <2>2. CASE ~ \E d \in Failed : d < proc[p].chunk
    <3>1. ASSUME NEW i \in Base(p) + 1..Len(Written(p))
          PROVE  \E a \in Answers' : a.file = p /\ a.chunk <= new.chunk /\ i \in Block(a)
      <4>1. CASE i <= Top(p)
        <5>1. i \in Base(p) + 1..Top(p)
          BY <1>4, <1>7, <4>1
        <5> QED  BY <1>5, <1>6, <1>9, <2>2, <5>1 DEF Covers
      <4>2. CASE ~(i <= Top(p))
        <5>1. i \in Top(p) + 1..Len(Written(p))
          BY <1>4, <1>7, <4>2
        <5>2. i \in Block(new) /\ new.chunk <= new.chunk
          BY <1>3, <1>5, <5>1 DEF Block
        <5> QED  BY <1>5, <1>6, <5>2
      <4> QED  BY <4>1, <4>2
    <3> QED  BY <1>7, <3>1 DEF Covers
  <2> QED  BY <2>1, <2>2
<1>11. TailFits(p)'
  <2>1. Base(p)' <= Len(file'[p]) /\ Base(p)' <= Top(p)'
    BY <1>2, <1>4, <1>7, <1>9
  <2>2. Covers(Answers', Failed', p, Base(p)', Bound(p)', Top(p)')
    <3>1. AsksLess(Answers', Answers', Failed', Failed', p, Base(p)', Base(p)',
                   new.chunk, next, Len(Written(p)), Top(p)')
      <4>1. new.chunk \in Int /\ next \in Int /\ new.chunk <= next
        BY <1>0, <1>3, <1>5 DEF Counts
      <4>2. Base(p)' \in Int /\ Len(Written(p)) \in Int /\ Top(p)' = Len(Written(p))
        BY <1>4, <1>7
      <4>3. \A a \in Answers' : a.chunk \in Int /\ a.offset \in Int /\ a.count \in Nat
        BY <1>0 DEF Counts, Answered
      <4> QED  BY <4>1, <4>2, <4>3, FailedNumbers DEF AsksLess
    <3> QED  BY <1>3, <1>10, <3>1, CoversMore
  <2>3. \A r \in 1..Own(p)' : FALSE
    BY <1>2
  <2> QED  BY <2>1, <2>2, <2>3 DEF TailFits
<1>12. \A i \in 1..Len(file[p]) : file'[p][i] = file[p][i]
  <2>1. \A i \in 1..Len(file[p]) : Written(p)[i] = file[p][i]
    BY <1>0 DEF Counts, Sized
  <2> QED  BY <1>2, <2>1
<1>13. Blocks' /\ TailsFit'
  BY <1>1, <1>2, <1>6, <1>11, <1>12, ProcessFits
<1>14. \A b \in Answers : b.file = p => b.chunk < proc[p].chunk
  <2>1. \A m \in results \cap CommitEntry : m.file = p => m.chunk < proc[p].chunk
    BY <1>0, <1>2 DEF ResultsGrow
  <2>2. pc = "control" => message.chunk < proc[p].chunk
    BY <1>0, <1>2 DEF AllAwaited
  <2> QED  BY <2>1, <2>2 DEF Answers
<1>15. AnswersFit'
  <2>1. ASSUME NEW a \in Answers
        PROVE  /\ Base(a.file)' + a.count <= a.offset /\ a.offset <= Top(a.file)'
               /\ HoldsRows(a)'
               /\ \A b \in Answers' :
                     a.file = b.file /\ a.chunk < b.chunk => a.offset + b.count <= b.offset
               /\ Covers(Answers', Failed', a.file, Base(a.file)', a.chunk, a.offset)
    <3>1. /\ a.file \in Pid /\ a.offset \in Nat /\ a.count \in Nat /\ a.chunk \in Int
          /\ a.offset <= synced[a.file]
      BY <1>0 DEF Counts, Answered
    <3>2. /\ Base(a.file) + a.count <= a.offset /\ a.offset <= Top(a.file) /\ HoldsRows(a)
          /\ \A b \in Answers :
                a.file = b.file /\ a.chunk < b.chunk => a.offset + b.count <= b.offset
          /\ Covers(Answers, Failed, a.file, Base(a.file), a.chunk, a.offset)
      BY DEF AnswersFit
    <3>3. Base(a.file)' + a.count <= a.offset
      BY <1>7, <3>1, <3>2
    <3>4. a.offset <= Top(a.file)'
      <4>1. CASE a.file = p
        BY <1>4, <3>1, <3>2, <4>1
      <4>2. CASE a.file # p
        BY <1>2, <3>1, <3>2, <4>2 DEF Top, Written, Own
      <4> QED  BY <4>1, <4>2
    <3>5. HoldsRows(a)'
      <4>1. \A i \in 1..a.offset : file'[a.file][i] = file[a.file][i]
        <5>1. Len(file[a.file]) \in Nat /\ synced[a.file] \in Nat
              /\ synced[a.file] <= Len(file[a.file])
          BY <1>0, <3>1, Numbers DEF Counts
        <5>2. \A i \in 1..Len(file[a.file]) : file'[a.file][i] = file[a.file][i]
          BY <1>2, <1>12, <3>1
        <5> QED  BY <3>1, <5>1, <5>2
      <4>2. Base(a.file) \in Nat
        BY <1>0, <3>1, Numbers DEF Counts
      <4>3. \A r \in 1..a.count : a.offset - a.count + r \in 1..a.offset
        BY <3>1, <3>2, <4>2
      <4> QED  BY <3>2, <4>1, <4>3 DEF HoldsRows
    <3>6. a.file = p => a.offset + new.count <= new.offset
      BY <1>4, <1>5, <3>1, <3>2
    <3>7. Covers(Answers', Failed', a.file, Base(a.file)', a.chunk, a.offset)
      <4>1. AsksLess(Answers, Answers', Failed, Failed', a.file, Base(a.file), Base(a.file)',
                     a.chunk, a.chunk, a.offset, a.offset)
        BY <1>0, <1>6, <1>7, <3>1, AnswerNumbers, FailedNumbers DEF AsksLess, Counts
      <4> QED  BY <3>2, <4>1, CoversMore
    <3> QED  BY <1>5, <1>6, <3>2, <3>3, <3>4, <3>5, <3>6, <3>7
  <2>2. ASSUME NEW a \in Answers', a = new
        PROVE  /\ Base(a.file)' + a.count <= a.offset /\ a.offset <= Top(a.file)'
               /\ HoldsRows(a)'
               /\ \A b \in Answers' :
                     a.file = b.file /\ a.chunk < b.chunk => a.offset + b.count <= b.offset
               /\ Covers(Answers', Failed', a.file, Base(a.file)', a.chunk, a.offset)
    <3>1. Base(p)' + a.count <= a.offset /\ a.offset <= Top(p)'
      BY <1>4, <1>5, <1>7, <1>9, <2>2
    <3>2. \A r \in 1..a.count : file'[p][a.offset - a.count + r] = Row(a.chunk, r)
      BY <1>2, <1>5, <1>9, <2>2
    <3>3. \A b \in Answers' : a.file = b.file => ~(a.chunk < b.chunk)
      <4>1. \A b \in Answers : a.file = b.file => ~(a.chunk < b.chunk)
        <5>1. \A b \in Answers : b.chunk \in Int
          BY <1>0, AnswerNumbers DEF Counts
        <5> QED  BY <1>3, <1>5, <1>14, <2>2, <5>1
      <4>2. ~(a.chunk < a.chunk)
        BY <1>3, <1>5, <2>2
      <4> QED  BY <1>6, <2>2, <4>1, <4>2
    <3>4. a.file = p
      BY <1>5, <2>2
    <3>5. Covers(Answers', Failed', p, Base(p)', a.chunk, a.offset)
      BY <1>5, <1>10, <2>2
    <3>6. HoldsRows(a)'
      BY <3>2, <3>4 DEF HoldsRows
    <3> QED  BY <3>1, <3>3, <3>4, <3>5, <3>6
  <2> QED  BY <1>6, <2>1, <2>2 DEF AnswersFit
<1> QED  BY <1>13, <1>15

\* The checkpoint of a result: its block follows the committed part of its file and
\* leaves no cell out, and it is the first of what is answered and not committed.
LEMMA OnControlFits ==
  ASSUME IInv, IInv', Accounted, NotAgain, Blocks, AnswersFit, TailsFit, OnControl,
         NEW m, m = message
  PROVE  Blocks' /\ AnswersFit' /\ TailsFit'
<1>0. TypeOK /\ Shapes /\ AllAwaited /\ Counts /\ Counts' /\ manifest \in Manifests(Entry)
  BY CountsHold, CountsAfter DEF IInv, TypeOK
<1>1. /\ pc = "control" /\ pc' = "refill" /\ manifest' = AppendEntry(manifest, m)
      /\ UNCHANGED <<file, synced, truncate, next, results, proc, leftover>>
      /\ m \in CommitEntry /\ m \in Entry /\ m.type = "committed" /\ manifest.terminated
  BY <1>0, EntryTypes DEF OnControl, workers, Shapes, Accounted
<1>2. /\ m \in Answers /\ Answers' = Answers \ {m} /\ Failed' = Failed
      /\ \A a \in Answers \ {m} : m.chunk < a.chunk
      /\ \A d \in Failed : m.chunk < d
  <2>1. \A x \in results : m.chunk < x.chunk
    BY <1>0, <1>1 DEF AllAwaited
  <2>2. m \notin results
    <3>1. m.chunk \in Int
      BY <1>1 DEF CommitEntry, Chunk
    <3> QED  BY <2>1, <3>1
  <2>3. \A d \in Failed : m.chunk < d
    <3>1. \A d \in Failed : Error(d) \in results /\ Error(d).chunk = d
      BY DEF Failed, Error
    <3> QED  BY <2>1, <3>1
  <2> QED  BY <1>1, <2>1, <2>2, <2>3 DEF Answers, Failed
<1>3. /\ m.file \in Pid /\ m.offset \in Nat /\ m.count \in Nat /\ m.chunk \in Int
      /\ m.offset <= synced[m.file]
      /\ Base(m.file) + m.count <= m.offset /\ m.offset <= Top(m.file) /\ HoldsRows(m)
      /\ \A b \in Answers :
            m.file = b.file /\ m.chunk < b.chunk => m.offset + b.count <= b.offset
      /\ Covers(Answers, Failed, m.file, Base(m.file), m.chunk, m.offset)
  <2>1. m.file \in Pid /\ m.offset \in Nat /\ m.count \in Nat /\ m.chunk \in Nat
        /\ m.offset <= synced[m.file]
    BY <1>0, <1>2 DEF Counts, Answered
  <2> QED  BY <1>2, <2>1 DEF AnswersFit
<1>4. Commits(manifest)' = Commits(manifest) \cup {m}
  BY <1>0, <1>1, CommitAdds
<1>5. /\ CommittedOffset(manifest, m.file)' = m.offset
      /\ \A q \in Pid : q # m.file => CommittedOffset(manifest, q)' = CommittedOffset(manifest, q)
  <2>1. CommittedOffset(manifest', m.file) = m.offset
    BY <1>0, <1>1, CommitAppended
  <2>2. \A q \in Pid : q # m.file => CommittedOffset(manifest', q) = CommittedOffset(manifest, q)
    BY <1>0, <1>1, OtherFilesKept
  <2> QED
    BY <2>1, <2>2 DEF CommittedOffset, CommitLinesOf, CommitLines, LastCommitLine
<1>6. Base(m.file)' = m.offset
  BY <1>0, <1>4, <1>5 DEF Counts, Lined
<1>7. \A q \in Pid : q # m.file => Base(q)' = Base(q)
  <2>1. \A q \in Pid : q # m.file => CommitLinesOf(manifest', q) = CommitLinesOf(manifest, q)
    BY <1>0, <1>1, OtherFilesKept
  <2>2. \A q \in Pid : CommitLinesOf(manifest, q)' = CommitLinesOf(manifest', q)
    BY DEF CommitLinesOf, CommitLines
  <2> QED  BY <1>1, <1>5, <2>1, <2>2 DEF Base
<1>8. \A q \in Pid : Base(q) \in Int /\ Base(q)' \in Int /\ Top(q)' = Top(q) /\ Top(q) \in Int
                     /\ leftover[q] \in Nat /\ Len(file[q]) \in Nat /\ synced[q] <= Len(file[q])
                     /\ synced[q] \in Nat
  <2>1. \A q \in Pid : Top(q)' = Top(q)
    BY <1>1 DEF Top, Written, Own
  <2>2. \A q \in Pid : Base(q) \in Int /\ Base(q)' \in Int /\ Top(q) \in Int
                       /\ leftover[q] \in Nat /\ Len(file[q]) \in Nat
                       /\ synced[q] <= Len(file[q]) /\ synced[q] \in Nat
    BY <1>0, Numbers, NumbersAfter DEF Counts
  <2> QED  BY <2>1, <2>2
<1>9. Blocks'
  <2>1. \A i \in Base(m.file) + 1..m.offset : i \in Block(m)
    <3>1. ~ \E d \in Failed : d < m.chunk
      <4>1. \A d \in Failed : d \in Int
        BY FailedNumbers
      <4> QED  BY <1>2, <1>3, <4>1
    <3>2. \A a \in Answers : a.chunk <= m.chunk => a = m
      <4>1. \A a \in Answers : a.chunk \in Int
        BY <1>0, AnswerNumbers DEF Counts
      <4> QED  BY <1>2, <1>3, <4>1
    <3> QED  BY <1>3, <3>1, <3>2 DEF Covers
  <2>2. leftover[m.file] + m.count <= m.offset
    <3>1. CASE \A e \in Commits(manifest) : e.file # m.file
      <4>1. Base(m.file) = leftover[m.file]
        BY <1>0, <1>3, <3>1 DEF Counts, Lined
      <4> QED  BY <1>3, <4>1
    <3>2. CASE ~ \A e \in Commits(manifest) : e.file # m.file
      <4>1. PICK e \in Commits(manifest) : e.file = m.file /\ e.offset = Base(m.file)
        BY <1>0, <1>3, <3>2 DEF Counts, Lined
      <4>2. leftover[m.file] + e.count <= Base(m.file)
        BY <4>1 DEF Blocks
      <4>3. e.count \in Nat
        BY <1>0 DEF Counts, Lined
      <4>4. /\ leftover[m.file] \in Int /\ Base(m.file) \in Int
            /\ Base(m.file) + m.count <= m.offset /\ m.count \in Int /\ m.offset \in Int
        BY <1>3, <1>8
      <4> QED  BY <4>2, <4>3, <4>4
    <3> QED  BY <3>1, <3>2
  <2>3. ASSUME NEW e \in Commits(manifest)'
        PROVE  leftover'[e.file] + e.count <= e.offset /\ HoldsRows(e)'
    <3>1. leftover[e.file] + e.count <= e.offset /\ HoldsRows(e)
      BY <1>3, <1>4, <2>2 DEF Blocks
    <3> QED  BY <1>1, <3>1 DEF HoldsRows
  <2>4. ASSUME NEW e \in Commits(manifest)', NEW f \in Commits(manifest)', e.chunk = f.chunk
        PROVE  e = f
    <3>1. \A x \in Commits(manifest) : x.chunk # m.chunk
      <4>1. m.chunk \notin CommittedIds(manifest)
        BY <1>1 DEF NotAgain, AtHand, Running
      <4> QED  BY <4>1 DEF CommittedIds, Commits
    <3> QED  BY <1>4, <2>4, <3>1 DEF Blocks
  <2>5. ASSUME NEW q \in Pid, NEW i \in (leftover[q] + 1..CommittedOffset(manifest, q))'
        PROVE  \E e \in Commits(manifest)' : e.file = q /\ i \in Block(e)
    <3>1. CASE q # m.file
      <4>1. i \in leftover[q] + 1..CommittedOffset(manifest, q)
        BY <1>1, <1>5, <2>5, <3>1
      <4> QED  BY <1>4, <4>1 DEF Blocks
    <3>2. CASE q = m.file
      <4>1. i \in leftover[q] + 1..m.offset
        BY <1>1, <1>5, <2>5, <3>2
      <4>2. CASE i \in Base(q) + 1..m.offset
        BY <1>4, <2>1, <3>2, <4>2
      <4>3. CASE i \notin Base(q) + 1..m.offset
        <5>1. i \in leftover[q] + 1..Base(q)
          BY <1>8, <4>1, <4>3
        <5>2. Base(q) = CommittedOffset(manifest, q)
          <6>1. Base(q) # leftover[q]
            BY <1>8, <5>1
          <6> QED  BY <1>0, <6>1 DEF Counts, Lined
        <5> QED  BY <1>4, <5>1, <5>2 DEF Blocks
      <4> QED  BY <4>2, <4>3
    <3> QED  BY <3>1, <3>2
  <2> QED  BY <2>3, <2>4, <2>5 DEF Blocks, Block
<1>10. ASSUME NEW a \in Answers' 
       PROVE  /\ Base(a.file) <= Base(a.file)' /\ Base(a.file)' + a.count <= a.offset
              /\ a.offset <= Top(a.file)'
              /\ \A i \in 1..a.offset : file'[a.file][i] = file[a.file][i]
  <2>1. a \in Answers /\ a # m /\ m.chunk < a.chunk
    BY <1>2
  <2>2. a.file \in Pid /\ a.offset \in Nat /\ a.count \in Nat
    BY <1>0, <2>1, AnswerNumbers DEF Counts
  <2>3. Base(a.file) + a.count <= a.offset /\ a.offset <= Top(a.file)
    BY <2>1 DEF AnswersFit
  <2>4. CASE a.file = m.file
    <3>1. m.offset + a.count <= a.offset
      BY <1>3, <2>1, <2>4
    <3>2. Base(m.file) <= m.offset
      BY <1>3, <1>8, SMTT(30)
    <3> QED  BY <1>1, <1>6, <1>8, <2>2, <2>3, <2>4, <3>1, <3>2
  <2>5. CASE a.file # m.file
    BY <1>1, <1>7, <1>8, <2>2, <2>3, <2>5
  <2> QED  BY <2>4, <2>5
<1>11. \A a \in Answers : a \in Answers' \/ a.offset <= Base(a.file)'
  <2>1. m.offset <= Base(m.file)'
    BY <1>3, <1>6
  <2> QED  BY <1>2, <2>1
<1>12. AnswersFit'
  BY <1>0, <1>2, <1>10, <1>11, AnswersStand DEF Counts
<1>13. TailsFit'
  <2> SUFFICES ASSUME NEW q \in Pid \ truncate PROVE TailFits(q)'
    BY <1>1 DEF TailsFit
  <2>1. TailFits(q)
    BY <1>1 DEF TailsFit, Running
  <2>2. Base(q) <= Len(file[q]) /\ Base(q) <= Top(q)
    BY <2>1 DEF TailFits
  <2>3. Base(q) <= Base(q)' /\ Base(q)' <= Len(file[q]) /\ Base(q)' <= Top(q)
    <3>1. CASE q = m.file
      <4>1. Base(q)' = m.offset
        BY <1>6, <3>1
      <4> QED  BY <1>3, <1>8, <3>1, <4>1, SMTT(30)
    <3>2. CASE q # m.file
      BY <1>7, <1>8, <2>2, <3>2
    <3> QED  BY <3>1, <3>2
  <2>4. next \in Int /\ next' \in Int /\ next <= next'
    BY <1>0, <1>1 DEF Counts
  <2>5. \A a \in Answers : a.file = q => a \in Answers' \/ a.offset <= Base(q)'
    BY <1>11
  <2> QED  BY <1>0, <1>1, <1>2, <2>1, <2>3, <2>4, <2>5, TailStands DEF Counts
<1> QED  BY <1>9, <1>12, <1>13

\* A file whose process is idle fits when it ends where its committed part does.
IdleTails ==
    \A p \in Pid : proc[p] = NoProcess /\ Base(p) = Len(file[p]) => TailFits(p)

LEMMA Idle == Sized => IdleTails
<1> SUFFICES ASSUME Sized, NEW p \in Pid, proc[p] = NoProcess, Base(p) = Len(file[p])
             PROVE  TailFits(p)
  BY DEF IdleTails
<1>1. proc[p].buffer = <<>> /\ proc[p].state = "none"
  BY DEF NoProcess
<1>2. Written(p) = file[p]
  <2>1. file[p] \in Seq(Cell)
    BY DEF Sized
  <2> HIDE DEF Cell
  <2> QED  BY <1>1, <2>1, NothingBuffered DEF Written
<1>3. Own(p) = 0
  BY <1>1 DEF Own
<1>4. Base(p) \in Int /\ Top(p) = Base(p)
  <2>1. Len(file[p]) \in Nat
    BY Numbers
  <2>2. Top(p) = Len(file[p]) - 0
    BY <1>2, <1>3 DEF Top
  <2> QED  BY <2>1, <2>2
<1>5. \A r \in 1..Own(p) : FALSE
  BY <1>3
<1>6. \A i \in Base(p) + 1..Top(p) : FALSE
  BY <1>4
<1>7. Base(p) <= Len(file[p]) /\ Base(p) <= Top(p)
  BY <1>4
<1> QED  BY <1>5, <1>6, <1>7 DEF TailFits, Covers

LEMMA IdleAfter == Sized' => IdleTails'
  BY Idle, PTL

\* Nobody is at work and nothing is answered while files are cut or no run goes.
LEMMA NobodyAtWork ==
  ASSUME IInv, Members, pc \in {"down", "done", "resume"}
  PROVE  /\ \A p \in Pid : proc[p] = NoProcess
         /\ results = {} /\ Answers = {} /\ Failed = {}
  BY DEF IInv, Quiet, Members, Answers, Failed

\* A run starts: with nothing committed it goes on behind what the files hold; else only
\* the empty ones need not be cut.
LEMMA StartFits ==
  ASSUME IInv, IInv', Members, Blocks, Start
  PROVE  Blocks' /\ AnswersFit' /\ TailsFit' /\ Complete'
<1>0. TypeOK /\ Counts /\ Counts'
  BY CountsHold, CountsAfter DEF IInv
<1>1. /\ pc \in {"down", "done"} /\ UNCHANGED <<manifest, file, synced, results, proc>>
      /\ pc' \in {"submit", "resume"}
  BY DEF Start, disk, workers
<1>2. (\A p \in Pid : proc'[p] = NoProcess) /\ Answers' = {}
  BY <1>1, NobodyAtWork DEF Answers
<1>3. AnswersFit' /\ Complete'
  BY <1>1, <1>2 DEF AnswersFit, Complete
<1>4. Commits(manifest)' = Commits(manifest)
  BY <1>1 DEF Commits, CommitLines
<1>5. \A p \in Pid : CommittedOffset(manifest, p)' = CommittedOffset(manifest, p)
  BY <1>1 DEF CommittedOffset, CommitLinesOf, CommitLines, LastCommitLine
<1>6. IdleTails'
  BY <1>0, IdleAfter DEF Counts
<1>7. \A p \in Pid : /\ Len(file[p]) \in Nat /\ leftover[p] \in Nat /\ synced[p] \in Nat
                     /\ synced[p] <= Len(file[p]) /\ leftover'[p] \in Nat
  BY <1>0, Numbers, NumbersAfter DEF Counts
<1>8. CASE CommittedIds(manifest) = {}
  <2>1. truncate' = {} /\ leftover' = [p \in Pid |-> Len(file[p])]
    BY <1>1, <1>8 DEF Start
  <2>2. Commits(manifest) = {}
    BY <1>8 DEF CommittedIds, Commits
  <2>3. \A p \in Pid : CommittedOffset(manifest, p)' = 0 /\ Base(p)' = Len(file'[p])
    BY <1>0, <1>1, <1>4, <2>1, <2>2 DEF Counts, Lined
  <2>4. Blocks'
    <3>1. ASSUME NEW p \in Pid, NEW i \in (leftover[p] + 1..CommittedOffset(manifest, p))'
          PROVE  FALSE
      <4>1. i \in leftover'[p] + 1..0
        BY <2>3, <3>1
      <4> QED  BY <1>7, <4>1
    <3> QED  BY <1>4, <2>2, <3>1 DEF Blocks
  <2>5. TailsFit'
    BY <1>2, <1>6, <2>3 DEF TailsFit, IdleTails
  <2> QED  BY <1>3, <2>4, <2>5
<1>9. CASE CommittedIds(manifest) # {}
  <2>1. /\ truncate' = {p \in Pid : file[p] # <<>>}
        /\ leftover' = [p \in Pid |-> Smaller(leftover[p], Len(file[p]))]
    BY <1>1, <1>9 DEF Start
  <2>2. ASSUME NEW e \in Commits(manifest)
        PROVE  /\ leftover'[e.file] = leftover[e.file]
               /\ CommittedOffset(manifest, e.file)' = CommittedOffset(manifest, e.file)
               /\ \A i \in 1..e.offset : file'[e.file][i] = file[e.file][i]
    <3>1. /\ e.file \in Pid /\ e.offset \in Nat /\ e.count \in Nat
          /\ e.offset <= synced[e.file]
      BY <1>0 DEF Counts, Lined
    <3>2. leftover[e.file] + e.count <= e.offset
      BY DEF Blocks
    <3>3. leftover[e.file] <= Len(file[e.file])
      BY <1>7, <3>1, <3>2, SMTT(30)
    <3>4. leftover'[e.file] = leftover[e.file]
      BY <1>7, <2>1, <3>1, <3>3 DEF Smaller
    <3> QED  BY <1>1, <1>5, <3>1, <3>4
  <2>3. Blocks'
    BY <1>0, <1>4, <2>2, BlocksKept DEF Counts
  <2>4. TailsFit'
    <3> SUFFICES ASSUME NEW p \in Pid, p \notin truncate' PROVE TailFits(p)'
      BY DEF TailsFit
    <3>1. file[p] = <<>> /\ Len(file[p]) = 0
      BY <2>1
    <3>2. leftover'[p] = 0
      BY <1>7, <2>1, <3>1 DEF Smaller
    <3>3. Base(p)' = 0
      <4>1. CASE \A e \in Commits(manifest)' : e.file # p
        BY <1>0, <3>2, <4>1 DEF Counts, Lined
      <4>2. CASE ~ \A e \in Commits(manifest)' : e.file # p
        <5>1. PICK e \in Commits(manifest)' : e.file = p /\ e.offset = Base(p)'
          BY <1>0, <4>2 DEF Counts, Lined
        <5>2. e.offset \in Nat /\ e.offset <= synced'[p]
          BY <1>0, <5>1 DEF Counts, Lined
        <5>3. e.offset = 0
          BY <1>1, <1>7, <3>1, <5>2
        <5> QED  BY <5>1, <5>3
      <4> QED  BY <4>1, <4>2
    <3> QED  BY <1>1, <1>2, <1>6, <3>1, <3>3 DEF IdleTails
  <2> QED  BY <1>3, <2>3, <2>4
<1> QED  BY <1>8, <1>9

\* The resume cuts a file to where its last commit says it ended.
LEMMA TruncateFits ==
  ASSUME IInv, IInv', Members, Blocks, TailsFit, NEW p \in Pid, TruncateFile(p)
  PROVE  Blocks' /\ AnswersFit' /\ TailsFit'
<1>0. TypeOK /\ Counts /\ Counts'
  BY CountsHold, CountsAfter DEF IInv
<1> DEFINE off == CommittedOffset(manifest, p)
<1>1. /\ pc = "resume" /\ pc' = "resume" /\ truncate' = truncate \ {p}
      /\ file' = [file EXCEPT ![p] = TruncateTo(file[p], off)]
      /\ leftover' = [leftover EXCEPT ![p] = Smaller(leftover[p], off)]
      /\ UNCHANGED <<manifest, next, results, proc>>
  BY DEF TruncateFile, ResumeOffset, workers
<1>2. /\ \A q \in Pid : proc[q] = NoProcess /\ proc'[q] = NoProcess
      /\ Answers = {} /\ Answers' = {} /\ Failed' = Failed
  BY <1>1, NobodyAtWork DEF Answers, Failed
<1>3. AnswersFit'
  BY <1>2 DEF AnswersFit
<1>4. /\ Commits(manifest)' = Commits(manifest)
      /\ \A q \in Pid : CommittedOffset(manifest, q)' = CommittedOffset(manifest, q)
  BY <1>1 DEF Commits, CommittedOffset, CommitLinesOf, CommitLines, LastCommitLine
<1>5. /\ file'[p] = TruncateTo(file[p], off) /\ leftover'[p] = Smaller(leftover[p], off)
      /\ \A q \in Pid : q # p => file'[q] = file[q] /\ leftover'[q] = leftover[q]
      /\ off \in Nat /\ leftover[p] \in Nat
  <2>1. off \in Nat /\ leftover[p] \in Nat
    BY <1>0 DEF Counts, Sized
  <2> QED  BY <1>0, <1>1, <2>1 DEF TypeOK
<1>6. Len(file'[p]) = off
  <2>1. file[p] \in Seq(Cell) /\ Hole \in Cell
    BY <1>0 DEF TypeOK, Cell
  <2> HIDE DEF off, Cell
  <2>2. Len(TruncateTo(file[p], off)) = off
    BY <1>5, <2>1, TruncatedType
  <2> QED  BY <1>5, <2>2
<1>7. Base(p)' = off
  <2>1. CASE Base(p)' = CommittedOffset(manifest, p)'
    BY <1>4, <2>1
  <2>2. CASE Base(p)' # CommittedOffset(manifest, p)'
    <3>1. CommittedOffset(manifest, p)' = 0 /\ Base(p)' = leftover'[p]
      BY <1>0, <2>2 DEF Counts, Lined
    <3>2. off = 0
      BY <1>4, <3>1
    <3>3. leftover'[p] = 0
      BY <1>5, <3>2 DEF Smaller
    <3> QED  BY <3>1, <3>2, <3>3
  <2> QED  BY <2>1, <2>2
<1>8. Blocks'
  <2>1. ASSUME NEW e \in Commits(manifest)
        PROVE  /\ leftover'[e.file] = leftover[e.file]
               /\ \A i \in 1..e.offset : file'[e.file][i] = file[e.file][i]
    <3>1. /\ e.file \in Pid /\ e.offset \in Nat /\ e.count \in Nat
          /\ e.offset <= synced[e.file]
          /\ e.offset <= CommittedOffset(manifest, e.file)
      BY <1>0 DEF Counts, Lined
    <3>2. CASE e.file # p
      BY <1>5, <3>1, <3>2
    <3>3. CASE e.file = p
      <4>1. leftover[p] + e.count <= e.offset /\ e.offset <= off
        BY <3>1, <3>3 DEF Blocks
      <4>2. leftover[p] <= off
        BY <1>5, <3>1, <4>1
      <4>3. leftover'[p] = leftover[p]
        BY <1>5, <4>2 DEF Smaller
      <4>4. Len(file[p]) \in Nat /\ synced[p] \in Nat /\ synced[p] <= Len(file[p])
        BY <1>0, Numbers DEF Counts
      <4>5. \A i \in 1..e.offset : i \in 1..off /\ i <= Len(file[p])
        BY <1>5, <3>1, <3>3, <4>1, <4>4
      <4>6. \A i \in 1..e.offset : file'[p][i] = file[p][i]
        BY <1>5, <4>5 DEF TruncateTo
      <4> QED  BY <3>3, <4>3, <4>6
    <3> QED  BY <3>2, <3>3
  <2>2. \A e \in Commits(manifest) :
           CommittedOffset(manifest, e.file)' = CommittedOffset(manifest, e.file)
    BY <1>0, <1>4 DEF Counts, Lined
  <2> QED  BY <1>0, <1>4, <2>1, <2>2, BlocksKept DEF Counts
<1>9. TailsFit'
  <2> SUFFICES ASSUME NEW q \in Pid, q \notin truncate' PROVE TailFits(q)'
    BY DEF TailsFit
  <2>1. CASE q = p
    <3>1. IdleTails'
      BY <1>0, IdleAfter DEF Counts
    <3> QED  BY <1>2, <1>6, <1>7, <2>1, <3>1 DEF IdleTails
  <2>2. CASE q # p
    <3>1. TailFits(q)
      BY <1>1, <2>2 DEF TailsFit, Running
    <3>2. Base(q)' = Base(q) /\ Base(q) \in Int
      <4>1. Base(q)' = Base(q)
        BY <1>1, <1>4, <1>5, <2>2 DEF Base, CommitLinesOf, CommitLines
      <4> QED  BY <1>0, <4>1, Numbers DEF Counts
    <3>3. Base(q) <= Base(q)' /\ Base(q)' <= Len(file[q]) /\ Base(q)' <= Top(q)
      <4>1. Base(q) <= Len(file[q]) /\ Base(q) <= Top(q)
        BY <3>1 DEF TailFits
      <4> QED  BY <3>2, <4>1
    <3>4. next \in Int /\ next' \in Int /\ next <= next'
      BY <1>0, <1>1 DEF Counts
    <3> QED  BY <1>0, <1>1, <1>2, <1>5, <2>2, <3>1, <3>3, <3>4, TailStands DEF Counts
  <2> QED  BY <2>1, <2>2
<1> QED  BY <1>3, <1>8, <1>9

\* A crash leaves the synced cells of a file as they are.
LEMMA SurvivorsSame ==
  ASSUME TypeOK, NEW p \in Pid, NEW s \in SurvivingFiles(p)
  PROVE  \A i \in 1..synced[p] : s[i] = file[p][i]
<1> DEFINE cells == file[p]
           low   == synced[p]
<1>1. cells \in Seq(Cell) /\ Len(cells) \in Nat /\ low \in 0..Len(cells)
  BY DEF TypeOK
<1>2. PICK n \in low..Len(cells) :
         s = SubSeq(cells, 1, n) \/ s = Append(SubSeq(cells, 1, n), Torn)
  <2>1. CASE s \in {SubSeq(cells, 1, n) : n \in low..Len(cells)}
    BY <2>1
  <2>2. CASE s \in {Append(SubSeq(cells, 1, n), Torn) : n \in low..(Len(cells) - 1)}
    <3>1. PICK k \in low..(Len(cells) - 1) : s = Append(SubSeq(cells, 1, k), Torn)
      BY <2>2
    <3>2. k \in low..Len(cells)
      BY <1>1
    <3> QED  BY <3>1, <3>2
  <2> QED  BY <2>1, <2>2 DEF SurvivingFiles
<1> HIDE DEF cells, low
<1> DEFINE kept == SubSeq(cells, 1, n)
<1>3. kept \in Seq(Cell) /\ Len(kept) = n /\ n \in Nat /\ \A i \in 1..n : kept[i] = cells[i]
  <2>1. n \in Nat /\ \A i \in 1..n : cells[i] \in Cell
    BY <1>1, ElementOfSeq
  <2> QED  BY <2>1, SubSeqProperties
<1> HIDE DEF kept
<1>4. \A i \in 1..n : s[i] = cells[i]
  <2>1. CASE s = kept
    BY <1>3, <2>1
  <2>2. CASE s = Append(kept, Torn)
    <3>1. Torn \in Cell
      BY DEF Cell
    <3> HIDE DEF Cell
    <3>2. \A i \in 1..Len(kept) : Append(kept, Torn)[i] = kept[i]
      BY <1>3, <3>1, AppendProperties
    <3> QED  BY <1>3, <2>2, <3>2
  <2> QED  BY <1>2, <2>1, <2>2 DEF kept
<1>5. \A i \in 1..low : i \in 1..n
  BY <1>1
<1> QED  BY <1>4, <1>5 DEF cells, low

\* The end of a run leaves the committed blocks; and if it is its own end, nothing else.
LEMMA StopFits ==
  ASSUME Deployment, IInv, IInv', Accounted, Members, Filled, Blocks, TailsFit, Stop
  PROVE  Blocks' /\ AnswersFit' /\ TailsFit' /\ Complete'
<1>0. /\ TypeOK /\ Shapes /\ AllAwaited /\ WholeLines(manifest)
      /\ Counts /\ Counts'
  BY CountsHold, CountsAfter DEF IInv, Accounted
<1>1. /\ pc' \in {"down", "done"} /\ results' = {} /\ UNCHANGED leftover
      /\ Finish \/ pc' = "down"
  BY DEF Stop, GetError, Finish, Crash, PoolTerminated, AllProcessesStop, disk
<1>2. AnswersFit' /\ TailsFit'
  <2>1. Answers' = {}
    BY <1>1 DEF Answers
  <2> QED  BY <1>1, <2>1 DEF AnswersFit, TailsFit, Running
<1>3. SameCommits(manifest, manifest')
  <2>1. CASE Crash
    BY <1>0, <2>1, CrashManifest
  <2>2. CASE GetError \/ Finish
    BY <2>2 DEF GetError, Finish, disk, SameCommits
  <2> QED  BY <2>1, <2>2 DEF Stop
<1>4. /\ Commits(manifest)' = Commits(manifest)
      /\ \A p \in Pid : CommittedOffset(manifest, p)' = CommittedOffset(manifest, p)
                        /\ Base(p)' = Base(p)
  BY <1>0, <1>1, <1>3, BaseKept
<1>5. \A p \in Pid : \A i \in 1..synced[p] : file'[p][i] = file[p][i]
  <2>1. CASE Finish
    BY <2>1 DEF Finish, disk
  <2>2. CASE GetError \/ Crash
    <3>1. FilesCut
      BY <2>2 DEF GetError, Crash
    <3>2. \A p \in Pid : file'[p] \in SurvivingFiles(p)
      BY <3>1 DEF FilesCut
    <3> QED  BY <1>0, <3>2, SurvivorsSame
  <2> QED  BY <2>1, <2>2 DEF Stop
<1>6. Blocks'
  <2>1. ASSUME NEW e \in Commits(manifest)
        PROVE  e.file \in Pid /\ \A i \in 1..e.offset : file'[e.file][i] = file[e.file][i]
    <3>1. e.file \in Pid /\ e.offset \in Nat /\ e.offset <= synced[e.file]
      BY <1>0 DEF Counts, Lined
    <3>2. synced[e.file] \in Nat
      BY <1>0, <3>1, Numbers DEF Counts
    <3> QED  BY <1>5, <3>1, <3>2
  <2> QED  BY <1>0, <1>1, <1>4, <2>1, BlocksKept DEF Counts
<1>7. Complete'
  <2> SUFFICES ASSUME Finish
               PROVE  /\ CommittedIds(manifest)' = Chunk
                      /\ \A p \in Pid : Len(file'[p]) <= Base(p)'
    BY <1>1 DEF Complete
  <2>1. CommittedIds(manifest)' = Chunk
    BY FinishCommitted
  <2>2. pc = "wait" /\ pending = <<>> /\ UNCHANGED file /\ truncate = {}
    BY DEF Finish, disk, Members
  <2>3. Awaited = {}
    BY <2>2 DEF Awaited, Elements
  <2>4. results = {} /\ BusyPids = {}
    BY <1>0, <2>3 DEF AllAwaited
  <2>5. Answers = {} /\ Failed = {}
    BY <2>2, <2>4 DEF Answers, Failed
  <2>6. ASSUME NEW p \in Pid PROVE Len(file[p]) <= Base(p)
    <3>1. Covers({}, {}, p, Base(p), Bound(p), Top(p))
      BY <2>2, <2>5 DEF TailsFit, TailFits, Running
    <3>2. \A i \in Base(p) + 1..Top(p) : FALSE
      BY <3>1 DEF Covers
    <3>3. /\ Base(p) \in Int /\ Len(file[p]) \in Nat /\ Len(Written(p)) \in Nat
          /\ Len(file[p]) <= Len(Written(p)) /\ Top(p) \in Int
      BY <1>0, Numbers DEF Counts
    <3>4. Top(p) <= Base(p)
      <4> SUFFICES ASSUME ~(Top(p) <= Base(p)) PROVE FALSE
        OBVIOUS
      <4>1. Top(p) \in Base(p) + 1..Top(p)
        BY <3>3
      <4> QED  BY <3>2, <4>1
    <3>5. Own(p) = 0
      BY <2>4 DEF Own, BusyPids, Busy
    <3>6. Top(p) = Len(Written(p)) - 0
      BY <3>5 DEF Top
    <3> QED  BY <3>3, <3>4, <3>6
  <2> QED  BY <1>4, <2>1, <2>2, <2>6
<1> QED  BY <1>2, <1>6, <1>7

-----------------------------------------------------------------------------
(* Theorems *)

\* The whole invariant.
SpawnInv == IInv /\ Accounted /\ CommittedInOrder /\ OutputInv

\* The first state is in it,
LEMMA InitOutput == Init => SpawnInv
<1> SUFFICES ASSUME Init PROVE SpawnInv
  OBVIOUS
<1>1. IInv /\ Accounted /\ CommittedInOrder
  BY InitIInv
<1>2. Commits(manifest) = {} /\ CommittedIds(manifest) = {}
      /\ \A p \in Pid : CommittedOffset(manifest, p) = 0
  BY DEF Init, EmptyManifest, Commits, CommittedIds, CommittedOffset, CommitLinesOf, CommitLines
<1>3. pc = "down" /\ results = {} /\ truncate = {} /\ \A p \in Pid : proc[p] = NoProcess
  BY DEF Init
<1>4. Answers = {}
  BY <1>3 DEF Answers
<1>5. Members /\ Filled /\ NotAgain /\ AnswersFit /\ TailsFit /\ Complete
  BY <1>3, <1>4 DEF Members, Filled, NotAgain, AnswersFit, TailsFit, Complete, Running
<1>6. Blocks
  <2>1. \A p \in Pid : leftover[p] = 0
    BY DEF Init
  <2>2. \A p \in Pid : \A i \in leftover[p] + 1..CommittedOffset(manifest, p) : FALSE
    BY <1>2, <2>1
  <2> QED  BY <1>2, <2>2 DEF Blocks
<1> QED  BY <1>1, <1>5, <1>6 DEF SpawnInv, OutputInv

\* every step keeps it,
LEMMA NextOutput ==
  ASSUME Deployment, SpawnInv, Next
  PROVE  SpawnInv'
<1> USE DEF SpawnInv, OutputInv
<1>1. /\ TypeOK /\ Shapes /\ Quiet
      /\ IInv' /\ Accounted' /\ CommittedInOrder'
  BY NextIInv, NextInOrder DEF IInv
<1>2. Members' /\ Filled' /\ NotAgain'
  BY <1>1, NextMembers, NextFilled, NextNotAgain
<1>3. CASE Start
  BY <1>1, <1>2, <1>3, StartFits
<1>4. CASE Stop
  BY <1>1, <1>2, <1>4, StopFits
<1>5. CASE \E p \in Pid : TruncateFile(p)
  <2>1. Complete'
    BY <1>5 DEF TruncateFile, Complete
  <2> QED  BY <1>1, <1>2, <1>5, <2>1, TruncateFits
<1>6. CASE OnControl
  <2>1. Complete'
    BY <1>6 DEF OnControl, Complete
  <2>2. PICK m : m = message
    OBVIOUS
  <2> QED  BY <1>1, <1>2, <1>6, <2>1, <2>2, OnControlFits
<1>7. CASE \/ Resumed \/ Submitted \/ Get
           \/ Refill /\ Exhausted /\ UNCHANGED <<manifest, next, pending, tasks>>
           \/ \E c : Queue(c)
  <2>1. pc' # "done"
    BY <1>7 DEF Resumed, Submitted, Get, Refill, Queue, FirstBatches
  <2> QED  BY <1>1, <1>2, <1>7, <2>1, CoordinatorFits DEF Complete
<1>8. ASSUME NEW p \in Pid, Take(p) \/ RunBatch(p) \/ CommitSink(p) \/ Raise(p)
      PROVE  SpawnInv'
  <2>1. pc' = pc /\ pc # "done"
    <3>1. CASE Take(p)
      BY <3>1 DEF Take, coordinator, Running
    <3>2. CASE RunBatch(p) \/ CommitSink(p) \/ Raise(p)
      <4>1. UNCHANGED pc /\ p \in BusyPids
        BY <3>2 DEF RunBatch, CommitSink, Raise, coordinator, BusyPids, Busy
      <4>2. p \in pool
        BY <1>1, <4>1 DEF Shapes
      <4> QED  BY <1>1, <4>1, <4>2 DEF Quiet
    <3> QED  BY <1>8, <3>1, <3>2
  <2>2. Blocks' /\ AnswersFit' /\ TailsFit'
    BY <1>1, <1>8, TakeFits, RunFits, CommitFits, RaiseFits
  <2> QED  BY <1>1, <1>2, <2>1, <2>2 DEF Complete
<1> QED  BY <1>3, <1>4, <1>5, <1>6, <1>7, <1>8, Kinds DEF Aside

\* and so does standing still.
LEMMA OutputStutters == SpawnInv /\ UNCHANGED vars => SpawnInv'
<1> SUFFICES ASSUME SpawnInv, UNCHANGED vars PROVE SpawnInv'
  OBVIOUS
<1>1. UNCHANGED <<manifest, file, synced, pc, truncate, committed, next, pending, message,
                  counter, tasks, results, proc, pool, runs, leftover>>
  BY DEF vars, disk, coordinator, workers
<1>2. IInv' /\ Accounted' /\ CommittedInOrder'
  BY Stutters DEF SpawnInv
<1>3. Members' /\ Filled' /\ NotAgain'
  <2>1. /\ Exhausted' = Exhausted /\ Awaited' = Awaited /\ AtHand' = AtHand
        /\ CommittedIds(manifest)' = CommittedIds(manifest)
    BY <1>1, SameSource DEF Awaited, AtHand, Elements, CommittedIds, CommitLines
  <2> QED  BY <1>1, <2>1 DEF SpawnInv, OutputInv, Members, Filled, NotAgain
<1>4. Blocks' /\ AnswersFit' /\ TailsFit'
  <2>1. SameCommits(manifest, manifest') /\ next <= next' /\ Answers' = Answers /\ Failed' = Failed
    <3>1. next \in Int
      BY CountsHold DEF SpawnInv, Counts
    <3> QED  BY <1>1, <3>1, SameAnswers DEF SameCommits
  <2> QED  BY <1>1, <1>2, <2>1, OnwardFits DEF SpawnInv, OutputInv
<1>5. Complete'
  <2>1. CommittedIds(manifest)' = CommittedIds(manifest) /\ \A p \in Pid : Base(p)' = Base(p)
    BY <1>1 DEF CommittedIds, Base, CommittedOffset, LastCommitLine, CommitLinesOf, CommitLines
  <2> QED  BY <1>1, <2>1 DEF SpawnInv, OutputInv, Complete
<1> QED  BY <1>2, <1>3, <1>4, <1>5 DEF SpawnInv, OutputInv

LEMMA OutputInductive == ASSUME Deployment PROVE Spec => []SpawnInv
<1>1. SpawnInv /\ [Next]_vars => SpawnInv'
  BY NextOutput, OutputStutters
<1> QED  BY InitOutput, <1>1, PTL DEF Spec

\* The cells of the output and what they hold: rows of committed blocks.
LEMMA VisibleInBlock ==
  ASSUME SpawnInv, NEW p \in Pid, NEW i \in VisibleFrom(p)..VisibleTo(p)
  PROVE  \E e \in Commits(manifest) :
            e.file = p /\ i \in Block(e) /\ file[p][i] = Row(e.chunk, i - (e.offset - e.count))
<1>1. Counts /\ TypeOK /\ Blocks /\ Complete
  BY CountsHold DEF SpawnInv, OutputInv, IInv
<1>2. /\ leftover[p] \in Nat /\ Len(file[p]) \in Nat /\ Base(p) \in Nat
      /\ CommittedOffset(manifest, p) \in Nat
  BY <1>1, Numbers DEF Counts, Sized
<1>3. i \in leftover[p] + 1..CommittedOffset(manifest, p)
  <2>1. CASE pc = "done"
    <3>1. i \in leftover[p] + 1..Len(file[p]) /\ Len(file[p]) <= Base(p)
      BY <1>1, <2>1 DEF VisibleFrom, VisibleTo, Complete
    <3>2. Base(p) # leftover[p]
      BY <1>2, <3>1
    <3>3. Base(p) = CommittedOffset(manifest, p)
      BY <1>1, <3>2 DEF Counts, Lined
    <3> QED  BY <1>2, <3>1, <3>3
  <2>2. CASE pc # "done"
    BY <2>2 DEF VisibleFrom, VisibleTo
  <2> QED  BY <2>1, <2>2
<1>4. PICK e \in Commits(manifest) : e.file = p /\ i \in Block(e)
  BY <1>1, <1>3 DEF Blocks
<1>5. e.offset \in Nat /\ e.count \in Nat
  BY <1>1 DEF Counts, Lined
<1>6. i - (e.offset - e.count) \in 1..e.count /\ e.offset - e.count + (i - (e.offset - e.count)) = i
  BY <1>2, <1>3, <1>4, <1>5, SMTT(30) DEF Block
<1>7. file[p][e.offset - e.count + (i - (e.offset - e.count))] = Row(e.chunk, i - (e.offset - e.count))
  BY <1>1, <1>4, <1>6 DEF Blocks, HoldsRows
<1> QED  BY <1>4, <1>6, <1>7

\* No two cells of the output hold the same row.
LEMMA VisibleOnce ==
  ASSUME SpawnInv,
         NEW p \in Pid, NEW i \in VisibleFrom(p)..VisibleTo(p),
         NEW q \in Pid, NEW j \in VisibleFrom(q)..VisibleTo(q),
         file[p][i] = file[q][j]
  PROVE  p = q /\ i = j
<1>1. Counts /\ Blocks
  BY CountsHold DEF SpawnInv, OutputInv
<1>2. PICK e \in Commits(manifest) :
         e.file = p /\ i \in Block(e) /\ file[p][i] = Row(e.chunk, i - (e.offset - e.count))
  BY VisibleInBlock
<1>3. PICK f \in Commits(manifest) :
         f.file = q /\ j \in Block(f) /\ file[q][j] = Row(f.chunk, j - (f.offset - f.count))
  BY VisibleInBlock
<1>4. e.chunk = f.chunk /\ i - (e.offset - e.count) = j - (f.offset - f.count)
  <2>1. Row(e.chunk, i - (e.offset - e.count)) = Row(f.chunk, j - (f.offset - f.count))
    BY <1>2, <1>3
  <2>2. ASSUME NEW c, NEW r, NEW d, NEW s, Row(c, r) = Row(d, s) PROVE c = d /\ r = s
    BY <2>2 DEF Row
  <2> QED  BY <2>1, <2>2
<1>5. e = f
  BY <1>1, <1>4 DEF Blocks
<1>6. e.offset \in Nat /\ e.count \in Nat /\ i \in Int /\ j \in Int
  BY <1>1, <1>2, <1>3, <1>5 DEF Counts, Lined, Block
<1> QED  BY <1>2, <1>3, <1>4, <1>5, <1>6

\* A campaign that ends has every chunk committed, and beyond the leftovers the worker
\* files hold complete rows only, none of them twice, in one file or in two: whatever
\* batches failed, whichever processes or machines stopped, and however often it was
\* started again, if a crash leaves no entry complete but for its newline.
THEOREM CompleteAndOnce == ASSUME Deployment PROVE Spec => []ExactlyOnce
<1>1. SpawnInv => ExactlyOnce
  <2> SUFFICES ASSUME SpawnInv, pc = "done"
               PROVE  /\ CommittedIds(manifest) = Chunk
                      /\ \A p \in Pid : \A i \in VisibleFrom(p)..VisibleTo(p) :
                            /\ file[p][i] \in RowCell
                            /\ \A q \in Pid : \A j \in VisibleFrom(q)..VisibleTo(q) :
                                  file[p][i] = file[q][j] => p = q /\ i = j
    BY DEF ExactlyOnce
  <2>1. CommittedIds(manifest) = Chunk
    BY DEF SpawnInv, OutputInv, Complete
  <2>2. ASSUME NEW p \in Pid, NEW i \in VisibleFrom(p)..VisibleTo(p)
        PROVE  file[p][i] \in RowCell
    <3>1. PICK e \in Commits(manifest) :
             e.file = p /\ i \in Block(e) /\ file[p][i] = Row(e.chunk, i - (e.offset - e.count))
      BY <2>2, VisibleInBlock
    <3>2. e.chunk \in Nat /\ e.offset \in Nat /\ e.count \in Nat
      BY CountsHold DEF SpawnInv, Counts, Lined
    <3>3. i - (e.offset - e.count) \in Nat
      BY <3>1, <3>2 DEF Block
    <3> QED  BY <3>1, <3>2, <3>3 DEF Row, RowCell
  <2> QED  BY <2>1, <2>2, VisibleOnce
<1> QED  BY OutputInductive, <1>1, PTL

-----------------------------------------------------------------------------
(* The promise *)

\* The rows of the chunks the manifest says are committed.
CommittedRows ==
    UNION {{Row(e.chunk, r) : r \in 1..e.count} : e \in Commits(manifest)}

\* The output is those rows, each of them once.
OutputCommitted == VisibleRows = [row \in CommittedRows |-> 1]

\* Every row of a committed chunk is in the output.
LEMMA BlockVisible ==
  ASSUME SpawnInv, NEW e \in Commits(manifest), NEW r \in 1..e.count
  PROVE  \E v \in VisibleCells : CellAt(v) = Row(e.chunk, r)
<1> DEFINE p == e.file
           i == e.offset - e.count + r
<1>1. Counts /\ Blocks
  BY CountsHold DEF SpawnInv, OutputInv
<1>2. /\ p \in Pid /\ e.offset \in Nat /\ e.count \in Nat
      /\ e.offset <= synced[p] /\ e.offset <= CommittedOffset(manifest, p)
  BY <1>1 DEF Counts, Lined
<1>3. /\ leftover[p] \in Nat /\ synced[p] \in Nat /\ Len(file[p]) \in Nat
      /\ synced[p] <= Len(file[p]) /\ CommittedOffset(manifest, p) \in Nat
  BY <1>1, <1>2, Numbers DEF Counts, Sized
<1>4. leftover[p] + e.count <= e.offset /\ file[p][i] = Row(e.chunk, r)
  BY <1>1 DEF Blocks, HoldsRows
<1>5. e.offset <= VisibleTo(p) /\ VisibleTo(p) \in Nat
  BY <1>2, <1>3 DEF VisibleTo
<1>6. i \in VisibleFrom(p)..VisibleTo(p)
  <2> DEFINE low  == leftover[p]
             high == VisibleTo(p)
             o    == e.offset
             n    == e.count
  <2>1. /\ low \in Nat /\ high \in Nat /\ o \in Nat /\ n \in Nat /\ r \in 1..n
        /\ low + n <= o /\ o <= high /\ VisibleFrom(p) = low + 1
    BY <1>2, <1>3, <1>4, <1>5 DEF VisibleFrom
  <2> HIDE DEF low, high, o, n
  <2>2. o - n + r \in low + 1..high
    BY <2>1
  <2> QED  BY <2>1, <2>2 DEF high, o, n
<1> DEFINE v == [file |-> p, cell |-> i]
<1>7. v \in VisibleCells
  BY <1>2, <1>6 DEF VisibleCells
<1>8. CellAt(v) = Row(e.chunk, r)
  BY <1>4 DEF CellAt
<1> QED  BY <1>7, <1>8

\* The output is the rows of the committed chunks, each counted once.
LEMMA OutputIsCommitted ==
  ASSUME SpawnInv
  PROVE  OutputCommitted
<1> DEFINE At(row) == {v \in VisibleCells : CellAt(v) = row}
<1>1. ASSUME NEW v \in VisibleCells
      PROVE  v.file \in Pid /\ v.cell \in VisibleFrom(v.file)..VisibleTo(v.file)
             /\ v = [file |-> v.file, cell |-> v.cell]
  BY DEF VisibleCells
<1>2. {CellAt(v) : v \in VisibleCells} = CommittedRows
  <2>1. ASSUME NEW v \in VisibleCells PROVE CellAt(v) \in CommittedRows
    <3>1. PICK e \in Commits(manifest) :
             /\ v.cell \in Block(e)
             /\ file[v.file][v.cell] = Row(e.chunk, v.cell - (e.offset - e.count))
      BY <1>1, VisibleInBlock
    <3>2. e.offset \in Nat /\ e.count \in Nat
      BY CountsHold DEF SpawnInv, Counts, Lined
    <3>3. v.cell - (e.offset - e.count) \in 1..e.count
      BY <3>1, <3>2 DEF Block
    <3> QED  BY <3>1, <3>3 DEF CommittedRows, CellAt
  <2>2. ASSUME NEW row \in CommittedRows PROVE \E v \in VisibleCells : CellAt(v) = row
    BY BlockVisible DEF CommittedRows
  <2> QED  BY <2>1, <2>2
<1>3. ASSUME NEW v \in VisibleCells PROVE Cardinality(At(CellAt(v))) = 1
  <2>1. ASSUME NEW w \in VisibleCells, CellAt(w) = CellAt(v) PROVE w = v
    <3>1. v.file = w.file /\ v.cell = w.cell
      BY <1>1, <2>1, VisibleOnce DEF CellAt
    <3> QED  BY <1>1, <3>1
  <2>2. At(CellAt(v)) = {v}
    BY <2>1
  <2> QED  BY <2>2, FS_Singleton
<1> QED  BY <1>2, <1>3 DEF OutputCommitted, VisibleRows

\* A step that commits nothing and neither ends a run nor starts one is not seen.
LEMMA Unseen ==
  ASSUME OutputCommitted, OutputCommitted',
         Commits(manifest)' = Commits(manifest),
         CommittedIds(manifest)' = CommittedIds(manifest)
  PROVE  /\ VisibleRows' = VisibleRows
         /\ (pc = "done")' = (pc = "done") => UNCHANGED Promised!vars
<1>1. VisibleRows' = VisibleRows
  BY DEF OutputCommitted, CommittedRows
<1> QED  BY <1>1 DEF Promised!vars

\* The manifest's new line puts out the rows of its chunk.
LEMMA CommitSeen ==
  ASSUME SpawnInv, OnControl, OutputCommitted, OutputCommitted',
         NEW e, e = message
  PROVE  e.chunk \in Chunk /\ Promised!Commit(e.chunk)
<1> DEFINE new == {Row(e.chunk, r) : r \in 1..e.count}
<1>1. /\ TypeOK /\ e \in CommitEntry /\ manifest.terminated
      /\ manifest' = AppendEntry(manifest, e) /\ pc = "control" /\ pc' = "refill"
  BY DEF SpawnInv, IInv, OnControl, Shapes, Accounted
<1>2. /\ e.chunk \in Chunk /\ e.count \in 0..MaxMatched
      /\ e.chunk \notin CommittedIds(manifest)
  <2>1. AtHand = {e.chunk}
    BY <1>1 DEF AtHand
  <2> QED  BY <1>1, <2>1 DEF CommitEntry, SpawnInv, OutputInv, NotAgain, Running
<1>3. /\ CommittedIds(manifest)' = CommittedIds(manifest) \cup {e.chunk}
      /\ Commits(manifest)' = Commits(manifest) \cup {e}
  BY <1>1, CommitAdds
<1>4. CommittedRows' = CommittedRows \cup new
  BY <1>3 DEF CommittedRows
<1>5. CommittedRows \cap new = {}
  <2> SUFFICES ASSUME NEW f \in Commits(manifest), NEW r, NEW s,
                      Row(f.chunk, r) = Row(e.chunk, s)
               PROVE  FALSE
    BY DEF CommittedRows
  <2>1. f.chunk = e.chunk
    BY DEF Row
  <2> QED  BY <1>2, <2>1 DEF Commits, CommittedIds
<1>6. new = Promised!RowsOf(e.chunk, e.count)
  BY DEF Promised!RowsOf, Row
<1> HIDE DEF new
<1>7. VisibleRows' = Promised!(+)(VisibleRows, Promised!SetToBag(new))
  BY <1>4, <1>5 DEF OutputCommitted, Promised!(+), Promised!SetToBag
<1> QED  BY <1>1, <1>2, <1>3, <1>6, <1>7 DEF Promised!Commit

\* Only the coordinator's on_control changes what is committed.
LEMMA OnlyControlCommits ==
  ASSUME Deployment, SpawnInv, [Next]_vars, ~OnControl
  PROVE  /\ Commits(manifest)' = Commits(manifest)
         /\ CommittedIds(manifest)' = CommittedIds(manifest)
<1>0. TypeOK /\ Shapes /\ Quiet /\ OnePlace /\ WholeLines(manifest)
  BY DEF SpawnInv, IInv, Accounted
<1>1. CASE UNCHANGED manifest
  BY <1>1 DEF Commits, CommittedIds, CommitLines
<1>2. CASE Crash
  BY <1>0, <1>2, CrashManifest, SameLoad
<1>3. ASSUME NEW c, Queue(c)
      PROVE  Commits(manifest)' = Commits(manifest)
             /\ CommittedIds(manifest)' = CommittedIds(manifest)
  <2>1. c \in Chunk /\ manifest' = AppendEntry(manifest, Distributed(c))
    <3>1. Yielded(c) /\ manifest' = AppendEntry(manifest, Distributed(c))
      BY <1>3 DEF Queue, Submit
    <3> QED  BY <1>0, <3>1, YieldedType
  <2>2. Distributed(c) \in Entry /\ Distributed(c).type # "committed"
    BY <2>1, EntryTypes DEF Distributed
  <2>3. manifest \in Manifests(Entry)
    BY <1>0 DEF TypeOK
  <2> QED  BY <1>0, <2>1, <2>2, <2>3, OtherEntryAppended, SameLoad
<1>4. CASE \/ Start \/ Aside \/ Get \/ GetError \/ Finish
           \/ \E p \in Pid : Take(p) \/ CommitSink(p) \/ Raise(p)
  <2>1. UNCHANGED manifest
    BY <1>4 DEF Start, Aside, TruncateFile, RunBatch, Resumed, Submitted, Refill, Get,
                GetError, Finish, Take, CommitSink, Raise, disk
  <2> QED  BY <1>1, <2>1
<1>5. CASE Next
  BY <1>2, <1>3, <1>4, <1>5, Kinds DEF Stop
<1>6. CASE UNCHANGED vars
  BY <1>1, <1>6 DEF vars, disk
<1> QED  BY <1>5, <1>6

\* Every step is one of the promise, or is not seen.
LEMMA StepSeen ==
  ASSUME Deployment, SpawnInv, SpawnInv', OutputCommitted, OutputCommitted', [Next]_vars
  PROVE  [Promised!Next]_(Promised!vars)
<1>1. CASE OnControl
  <2>1. PICK e : e = message
    OBVIOUS
  <2>2. e.chunk \in Chunk /\ Promised!Commit(e.chunk)
    BY <1>1, <2>1, CommitSeen
  <2> QED  BY <2>2 DEF Promised!Next
<1>2. CASE ~OnControl
  <2>1. /\ Commits(manifest)' = Commits(manifest)
        /\ CommittedIds(manifest)' = CommittedIds(manifest)
    BY <1>2, OnlyControlCommits
  <2>2. CASE (pc = "done")' = (pc = "done")
    BY <2>1, <2>2, Unseen
  <2>3. CASE pc # "done" /\ pc' = "done"
    <3>1. CommittedIds(manifest) = Chunk
      <4>1. (CommittedIds(manifest) = Chunk)'
        BY <2>3 DEF SpawnInv, OutputInv, Complete
      <4> QED  BY <2>1, <4>1
    <3> QED  BY <2>1, <2>3, <3>1, Unseen DEF Promised!Next, Promised!Finish
  <2>4. CASE pc = "done" /\ pc' # "done"
    BY <2>1, <2>4, Unseen DEF Promised!Next, Promised!Reopen
  <2> QED  BY <2>2, <2>3, <2>4
<1> QED  BY <1>1, <1>2

\* The coordinator, its worker processes, their files and buffers, the pool and its
\* failures, the crashes, the resumes and the manifest implement the
\* ExactlyOnceOutput the reader was promised: at every moment the output is the rows
\* of the committed chunks, each once, and it grows by whole chunks.
THEOREM PromiseKept == ASSUME Deployment PROVE Spec => KeepsPromise
<1>1. Init => Promised!Init
  <2> SUFFICES ASSUME Init PROVE Promised!Init
    OBVIOUS
  <2>1. Commits(manifest) = {} /\ CommittedIds(manifest) = {}
    BY DEF Init, EmptyManifest, CommitLines, Commits, CommittedIds
  <2>2. VisibleRows = Promised!EmptyBag
    <3>1. CommittedRows = {}
      BY <2>1 DEF CommittedRows
    <3> QED
      BY <3>1, InitOutput, OutputIsCommitted
      DEF OutputCommitted, Promised!EmptyBag, Promised!SetToBag
  <2> QED  BY <2>1, <2>2 DEF Init, Promised!Init
<1>2. SpawnInv => OutputCommitted
  BY OutputIsCommitted
<1>3. /\ SpawnInv /\ SpawnInv' /\ OutputCommitted /\ OutputCommitted' /\ [Next]_vars
      => [Promised!Next]_(Promised!vars)
  BY StepSeen
<1> QED
  BY <1>1, <1>2, <1>3, OutputInductive, PTL DEF Spec, KeepsPromise, Promised!Spec
=============================================================================
