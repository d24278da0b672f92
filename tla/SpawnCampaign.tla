--------------------------- MODULE SpawnCampaign ---------------------------
(***************************************************************************)
(* A campaign run by Engine.run with the spawn executor: a coordinator     *)
(* that submits batches to a process pool and waits for their results in   *)
(* submission order (engine/core.py, engine/spawn.py), and worker          *)
(* processes that each append to an NDJSON file named after their pid.     *)
(*                                                                         *)
(* multiprocessing.Pool is external: a FIFO task queue, workers that take  *)
(* a task each, survive an exception it raises and are replaced after      *)
(* MaxTasksPerChild tasks, and a result per task.                          *)
(***************************************************************************)
EXTENDS CheckpointManifest, FiniteSets

CONSTANTS
    NumChunks,         \* batches the (filtered) source yields
    MaxMatched,        \* bound: matched results of one batch
    FlushRows,         \* the sink's flush_bytes, in rows
    MaxRuns,           \* bound: times the campaign is started
    PartialWrites,     \* how a crash may cut a manifest append
    Pid,               \* pids the operating system gives out, over and over
    Workers,           \* size of the pool
    InFlight,          \* in_flight_batches
    MaxTasksPerChild,  \* batches after which the pool replaces a worker
    Torn               \* a result line cut short by a crash

ASSUME SizeAssumption ==
    /\ NumChunks \in Nat /\ MaxMatched \in Nat /\ MaxRuns \in Nat
    /\ {FlushRows, Workers, InFlight, MaxTasksPerChild} \subseteq Nat \ {0}
    /\ PartialWrites \subseteq {"torn", "unterminated"}
    /\ IsFiniteSet(Pid)

Chunk     == 0 .. NumChunks - 1
Row(c, r) == [chunk |-> c, row |-> r]
RowCell   == [chunk : Nat, row : Nat]
Cell      == RowCell \cup {Torn, Hole}

ASSUME CellAssumption == Torn \notin RowCell /\ Hole \notin RowCell

VARIABLES
    manifest,   \* the checkpoint file
    file,       \* the content of worker-<pid>.ndjson, for every pid
    synced,     \* how much of each file has reached the disk
    pc,         \* what the coordinator is doing
    truncate,   \* files _resume has yet to truncate
    committed,  \* Engine.run's set of chunks to skip
    next,       \* the chunk enumerate() yields next
    pending,    \* the deque of results to wait for, as their chunks
    message,    \* the control message on_control is given
    counter,    \* Engine.run's counter
    tasks,      \* the pool's task queue
    results,    \* results workers have returned, not yet fetched
    proc,       \* the process with each pid
    pool,       \* pids of the pool's processes that have taken a task
    runs,       \* times the campaign was started
    leftover    \* history: cells in each file when a run last kept it as it was

disk == <<manifest, file, synced>>
coordinator == <<pc, truncate, committed, next, pending, message, counter>>
workers == <<tasks, results, proc, pool>>
vars == <<disk, coordinator, workers, runs, leftover>>

NoProcess == [state |-> "none", chunk |-> 0, matched |-> 0, buffer |-> <<>>, served |-> 0]
NewProcess == [NoProcess EXCEPT !.state = "idle"]

NoMessage == [type |-> "none"]
Error(c) == [type |-> "error", chunk |-> c]

Running == {"resume", "submit", "wait", "control", "refill"}

Smaller(a, b) == IF a < b THEN a ELSE b

Init ==
    /\ manifest = EmptyManifest
    /\ file = [p \in Pid |-> <<>>]
    /\ synced = [p \in Pid |-> 0]
    /\ pc = "down"
    /\ truncate = {}
    /\ committed = {}
    /\ next = 0
    /\ pending = <<>>
    /\ message = NoMessage
    /\ counter = [matched |-> 0, chunks |-> 0]
    /\ tasks = <<>>
    /\ results = {}
    /\ proc = [p \in Pid |-> NoProcess]
    /\ pool = {}
    /\ runs = 0
    /\ leftover = [p \in Pid |-> 0]

-----------------------------------------------------------------------------
(* The coordinator: Engine.run, _resume and SpawnExecutor.execute *)

\* With nothing committed _resume keeps the files; otherwise it cuts them one
\* after the other, in the order os.listdir happens to give.
Start ==
    /\ pc \in {"down", "done"}
    /\ runs < MaxRuns
    /\ runs' = runs + 1
    /\ committed' = CommittedIds(manifest)
    /\ IF committed' = {}
       THEN /\ pc' = "submit"
            /\ truncate' = {}
            /\ leftover' = [p \in Pid |-> Len(file[p])]
       ELSE /\ pc' = "resume"
            /\ truncate' = {p \in Pid : file[p] # <<>>}
            /\ leftover' = [p \in Pid |-> Smaller(leftover[p], Len(file[p]))]
    /\ next' = 0
    /\ pending' = <<>>
    /\ message' = NoMessage
    /\ counter' = [matched |-> 0, chunks |-> 0]
    /\ UNCHANGED <<disk, workers>>

\* (An operator named "..._Mutant" is a plausible mistake in the definition that
\* follows it; no specification uses it.)
ResumeOffset_Mutant(p) ==
    IF CommitLinesOf(manifest, p) = {} THEN Len(file[p]) ELSE CommittedOffset(manifest, p)
ResumeOffset(p) == CommittedOffset(manifest, p)

TruncateFile(p) ==
    /\ pc = "resume"
    /\ p \in truncate
    /\ truncate' = truncate \ {p}
    /\ file' = [file EXCEPT ![p] = TruncateTo(@, ResumeOffset(p))]
    /\ synced' = [synced EXCEPT ![p] = Smaller(@, ResumeOffset(p))]
    /\ leftover' = [leftover EXCEPT ![p] = Smaller(@, ResumeOffset(p))]
    /\ UNCHANGED <<manifest, pc, committed, next, pending, message, counter, workers, runs>>

Resumed ==
    /\ pc = "resume"
    /\ truncate = {}
    /\ pc' = "submit"
    /\ UNCHANGED <<disk, truncate, committed, next, pending, message, counter, workers,
                   runs, leftover>>

Yielded_Mutant(c) == c \in next .. NumChunks /\ c \notin committed

\* The chunk next(iterator) returns: the first one not committed before.
Yielded(c) ==
    /\ c \in next .. NumChunks - 1
    /\ c \notin committed
    /\ \A d \in next .. c - 1 : d \in committed

\* next(iterator) records the chunk as distributed; apply_async queues it.
Submit(c) ==
    /\ Yielded(c)
    /\ next' = c + 1
    /\ manifest' = AppendEntry(manifest, Distributed(c))
    /\ pending' = Append(pending, c)
    /\ tasks' = Append(tasks, c)

Exhausted == \A c \in next..NumChunks : ~Yielded(c)

RoomInFlight_Mutant == Len(pending) <= InFlight
RoomInFlight == Len(pending) < InFlight

FirstBatches ==
    /\ pc = "submit"
    /\ RoomInFlight
    /\ \E c \in next..NumChunks : Submit(c)
    /\ UNCHANGED <<file, synced, pc, truncate, committed, message, counter, results, proc,
                   pool, runs, leftover>>

Submitted ==
    /\ pc = "submit"
    /\ ~RoomInFlight \/ Exhausted
    /\ pc' = "wait"
    /\ UNCHANGED <<disk, truncate, committed, next, pending, message, counter, workers,
                   runs, leftover>>

\* Results in the order they come (imap_unordered).
Get_Mutant ==
    /\ pc = "wait"
    /\ \E m \in results :
          /\ m.type = "committed"
          /\ message' = m
          /\ results' = results \ {m}
          /\ pending' = SelectSeq(pending, LAMBDA c : c # m.chunk)
    /\ pc' = "control"
    /\ UNCHANGED <<disk, truncate, committed, next, counter, tasks, proc, pool, runs,
                   leftover>>

\* pending.popleft().get() returns the worker's message.
Get ==
    /\ pc = "wait"
    /\ pending # <<>>
    /\ \E m \in results :
          /\ m.chunk = Head(pending)
          /\ m.type = "committed"
          /\ message' = m
          /\ results' = results \ {m}
    /\ pending' = Tail(pending)
    /\ pc' = "control"
    /\ UNCHANGED <<disk, truncate, committed, next, counter, tasks, proc, pool, runs,
                   leftover>>

\* on_control: the message has the fields of the manifest entry.
OnControl ==
    /\ pc = "control"
    /\ counter' = [matched |-> counter.matched + message.count, chunks |-> counter.chunks + 1]
    /\ manifest' = AppendEntry(manifest, message)
    /\ pc' = "refill"
    /\ message' = NoMessage
    /\ UNCHANGED <<file, synced, truncate, committed, next, pending, workers, runs, leftover>>

Refill ==
    /\ pc = "refill"
    /\ \/ \E c \in next..NumChunks : Submit(c)
       \/ Exhausted /\ UNCHANGED <<manifest, next, pending, tasks>>
    /\ pc' = "wait"
    /\ UNCHANGED <<file, synced, truncate, committed, message, counter, results, proc, pool,
                   runs, leftover>>

-----------------------------------------------------------------------------
(* A worker process: _spawn_run_batch and its NdjsonWorkerSink *)

\* An idle process takes the next task, or a process the pool has started in a
\* free place takes its first.  The sink is opened then, for appending.
Take(p) ==
    /\ pc \in Running
    /\ tasks # <<>>
    /\ \/ p \in pool /\ proc[p].state = "idle"
       \/ proc[p].state = "none" /\ Cardinality(pool) < Workers
    /\ pool' = pool \cup {p}
    /\ proc' = [proc EXCEPT ![p] =
                   [(IF @.state = "none" THEN NewProcess ELSE @)
                        EXCEPT !.state = "run", !.chunk = Head(tasks)]]
    /\ tasks' = Tail(tasks)
    /\ UNCHANGED <<disk, coordinator, results, runs, leftover>>

\* k rows go through the sink's buffer, which is emptied whenever it is full.
Write(p, k) ==
    LET cells   == proc[p].buffer \o [r \in 1..k |-> Row(proc[p].chunk, r)]
        flushed == (Len(cells) \div FlushRows) * FlushRows
    IN /\ file' = [file EXCEPT ![p] = @ \o SubSeq(cells, 1, flushed)]
       /\ proc' = [proc EXCEPT ![p].buffer = SubSeq(cells, flushed + 1, Len(cells)),
                               ![p].matched = k,
                               ![p].state = "write"]

RunBatch(p) ==
    /\ proc[p].state = "run"
    /\ \E k \in 0..MaxMatched : Write(p, k)
    /\ UNCHANGED <<manifest, synced, coordinator, tasks, results, pool, runs, leftover>>

\* The process after one more task: replaced once it has served its share.
Served(q) ==
    IF q.served + 1 = MaxTasksPerChild
    THEN NoProcess
    ELSE [q EXCEPT !.state = "idle", !.served = @ + 1]

PoolAfter(p) == IF proc'[p] = NoProcess THEN pool \ {p} ELSE pool

\* An exception, after the first rows were written or before any was: the pool
\* returns it as the result and the process lives on, its buffer as it is.
Raise(p) ==
    /\ proc[p].state = "write"
    /\ p \in pool
    /\ runs < MaxRuns
    /\ proc' = [proc EXCEPT ![p] = Served(@)]
    /\ pool' = PoolAfter(p)
    /\ results' = results \cup {Error(proc[p].chunk)}
    /\ UNCHANGED <<disk, coordinator, tasks, runs, leftover>>

Flushed_Mutant(q) == q
Flushed(q) == [q EXCEPT !.buffer = <<>>]

\* sink.commit: flush, fsync, tell.
SyncSink_Mutant(p) ==
    /\ file' = [file EXCEPT ![p] = @ \o proc[p].buffer]
    /\ UNCHANGED synced

SyncSink(p) ==
    /\ file' = [file EXCEPT ![p] = @ \o proc[p].buffer]
    /\ synced' = [synced EXCEPT ![p] = Len(file'[p])]

CommitSink(p) ==
    /\ proc[p].state = "write"
    /\ p \in pool
    /\ SyncSink(p)
    /\ results' = results \cup {Committed(proc[p].chunk, p, Len(file'[p]), proc[p].matched)}
    /\ proc' = [proc EXCEPT ![p] = Served(Flushed(@))]
    /\ pool' = PoolAfter(p)
    /\ UNCHANGED <<manifest, coordinator, tasks, runs, leftover>>

-----------------------------------------------------------------------------
(* The end of a run *)

\* Any prefix of a file survives that contains what was synced, possibly with a
\* result line cut short after it; what a process had buffered is lost.
SurvivingFiles(p) ==
    {SubSeq(file[p], 1, n) : n \in synced[p]..Len(file[p])}
    \cup {Append(SubSeq(file[p], 1, n), Torn) : n \in synced[p]..Len(file[p]) - 1}

FilesCut ==
    file' \in {f \in [Pid -> UNION {SurvivingFiles(p) : p \in Pid}] :
                  \A p \in Pid : f[p] \in SurvivingFiles(p)}

MemoryLost ==
    /\ truncate' = {}
    /\ committed' = {}
    /\ next' = 0
    /\ pending' = <<>>
    /\ message' = NoMessage
    /\ counter' = [matched |-> 0, chunks |-> 0]

PoolTerminated ==
    /\ tasks' = <<>>
    /\ results' = {}
    /\ proc' = [p \in Pid |-> IF p \in pool THEN NoProcess ELSE proc[p]]
    /\ pool' = {}

AllProcessesStop ==
    /\ tasks' = <<>>
    /\ results' = {}
    /\ proc' = [p \in Pid |-> NoProcess]
    /\ pool' = {}

\* The deque is empty: leaving the with block terminates the pool.
Finish ==
    /\ pc = "wait"
    /\ pending = <<>>
    /\ pc' = "done"
    /\ PoolTerminated
    /\ UNCHANGED <<disk, truncate, committed, next, pending, message, counter, runs, leftover>>

\* Results collected by a callback, with no error_callback.
GetError_Mutant == FALSE

\* get() re-raises the exception of the task: the with block terminates the pool
\* and the store is closed.
GetError ==
    /\ pc = "wait"
    /\ pending # <<>>
    /\ Error(Head(pending)) \in results
    /\ pc' = "down"
    /\ MemoryLost
    /\ FilesCut
    /\ PoolTerminated
    /\ UNCHANGED <<manifest, synced, runs, leftover>>

\* The entry the next append to the manifest writes, if an append is next.
EntryUnderway ==
    {Distributed(c) : c \in {d \in next..NumChunks : pc \in {"submit", "refill"} /\ Yielded(d)}}
    \cup {m \in {message} : pc = "control"}

SurvivingManifests ==
    {manifest} \cup {PartialAppend(manifest, e, cut) : e \in EntryUnderway,
                                                      cut \in PartialWrites}

\* The machine stops, or the processes are all killed (or interrupted).
Crash ==
    /\ pc \in Running
    /\ runs < MaxRuns
    /\ pc' = "down"
    /\ MemoryLost
    /\ manifest' \in SurvivingManifests
    /\ FilesCut
    /\ AllProcessesStop
    /\ UNCHANGED <<synced, runs, leftover>>

-----------------------------------------------------------------------------
Coordinate ==
    \/ \E p \in Pid : TruncateFile(p)
    \/ Resumed
    \/ FirstBatches
    \/ Submitted
    \/ Get
    \/ OnControl
    \/ Refill
    \/ GetError
    \/ Finish

Process(p) == RunBatch(p) \/ CommitSink(p)

Next ==
    \/ Start
    \/ Coordinate
    \/ \E p \in Pid : Take(p) \/ Process(p) \/ Raise(p)
    \/ Crash

\* The coordinator runs while it is alive and is started again; some process
\* takes a waiting task when one is free, and a process that has one works on it.
Fairness ==
    /\ WF_vars(Start)
    /\ WF_vars(Coordinate)
    /\ WF_vars(\E p \in Pid : Take(p))
    /\ \A p \in Pid : WF_vars(Process(p))

Spec == Init /\ [][Next]_vars /\ Fairness

-----------------------------------------------------------------------------
(* Worse luck, in specifications of its own *)

\* The operating system kills one worker process.  The pool replaces it and
\* does not give its task to another.
WorkerDies(p) ==
    /\ p \in pool
    /\ proc' = [proc EXCEPT ![p] = NoProcess]
    /\ pool' = pool \ {p}
    /\ file' \in {[file EXCEPT ![p] = cells] : cells \in SurvivingFiles(p)}
    /\ UNCHANGED <<manifest, synced, coordinator, tasks, results, runs, leftover>>

SpecWorkerDeath ==
    Init /\ [][Next \/ \E p \in Pid : WorkerDies(p)]_vars /\ Fairness

\* Only the coordinator is killed.  An idle worker finds its queue closed; a busy
\* one finishes its batch, and dies when it cannot return the result.
CoordinatorKilled ==
    /\ pc \in Running
    /\ runs < MaxRuns
    /\ pc' = "down"
    /\ proc' = [p \in Pid |-> IF proc[p].state = "idle" THEN NoProcess ELSE proc[p]]
    /\ pool' = {}
    /\ tasks' = <<>>
    /\ results' = {}
    /\ MemoryLost
    /\ UNCHANGED <<disk, runs, leftover>>

OrphanCommits(p) ==
    /\ p \notin pool
    /\ proc[p].state = "write"
    /\ SyncSink(p)
    /\ proc' = [proc EXCEPT ![p] = NoProcess]
    /\ UNCHANGED <<manifest, coordinator, tasks, results, pool, runs, leftover>>

SpecOrphans ==
    Init /\ [][Next \/ CoordinatorKilled \/ \E p \in Pid : OrphanCommits(p)]_vars

-----------------------------------------------------------------------------
(* Properties *)

Entry == Entries(Chunk, Pid, 0..MaxMatched)

TypeOK ==
    /\ manifest \in Manifests(Entry)
    /\ file \in [Pid -> Seq(Cell)]
    /\ synced \in [Pid -> Nat]
    /\ \A p \in Pid : synced[p] \in 0..Len(file[p])
    /\ pc \in {"down", "done"} \cup Running
    /\ truncate \subseteq Pid
    /\ committed \subseteq Chunk
    /\ next \in 0..NumChunks
    /\ pending \in Seq(Chunk)
    /\ message \in Entry \cup {NoMessage}
    /\ counter \in [matched : Nat, chunks : Nat]
    /\ tasks \in Seq(Chunk)
    /\ results \subseteq Entry \cup {Error(c) : c \in Chunk}
    /\ proc \in [Pid -> [state : {"none", "idle", "run", "write"},
                         chunk : Nat, matched : 0..MaxMatched,
                         buffer : Seq(RowCell), served : 0..MaxTasksPerChild - 1]]
    /\ pool \subseteq Pid /\ Cardinality(pool) <= Workers
    /\ runs \in 0..MaxRuns
    /\ leftover \in [Pid -> Nat]

\* The cells of a file that are the output: beyond what a run with nothing
\* committed left there, up to the last committed offset, and to the end of the
\* file once a run is done.
VisibleFrom(p) == leftover[p] + 1
VisibleTo(p)   == IF pc = "done" THEN Len(file[p]) ELSE CommittedOffset(manifest, p)

\* A checkpoint never runs ahead of the output it speaks for, in any worker's
\* file (CheckpointStore: "output is made durable before the checkpoint
\* advances").
CommittedDurable == \A e \in Commits(manifest) : e.offset <= synced[e.file]

\* Workers finish out of order, but chunks are checkpointed in source order: at
\* every moment, after every crash, what is committed is a prefix of the source.
CommittedInOrder ==
    \A e \in Commits(manifest) : \A c \in 0..e.chunk : c \in CommittedIds(manifest)

\* Batches queued or being run never exceed in_flight_batches ("submission is
\* bounded to in_flight_batches"), and every one of them is waited for.
BoundedInFlight ==
    /\ Len(tasks) + Cardinality({p \in pool : proc[p].state \in {"run", "write"}}) <= InFlight
    /\ \A p \in pool : proc[p].state \in {"run", "write"} =>
           \E i \in DOMAIN pending : pending[i] = proc[p].chunk

\* A campaign that ends has every chunk committed, and the worker files hold
\* beyond the leftovers complete rows only, none of them twice, in one file or
\* in two.
ExactlyOnce ==
    pc = "done" =>
        /\ CommittedIds(manifest) = Chunk
        /\ \A p \in Pid : \A i \in VisibleFrom(p)..VisibleTo(p) :
              /\ file[p][i] \in RowCell
              /\ \A q \in Pid : \A j \in VisibleFrom(q)..VisibleTo(q) :
                    file[p][i] = file[q][j] => p = q /\ i = j

\* The output as its reader sees it: of each file the part beyond the leftovers up
\* to the last committed offset, and the whole file once a run is done; a row
\* counts as often as it is there.
VisibleCells ==
    UNION {{[file |-> p, cell |-> i] : i \in VisibleFrom(p)..VisibleTo(p)} : p \in Pid}
CellAt(v) == file[v.file][v.cell]
VisibleRows ==
    [row \in {CellAt(v) : v \in VisibleCells} |->
        Cardinality({v \in VisibleCells : CellAt(v) = row})]

Promised == INSTANCE ExactlyOnceOutput WITH
    committed <- CommittedIds(manifest),
    output    <- VisibleRows,
    finished  <- pc = "done"

\* Whatever the workers' interleaving, and whichever of them failed half-way
\* through a batch, the rows of a chunk appear all at once when the coordinator
\* checkpoints it, and the rows of a failed batch never do.
KeepsPromise == Promised!Spec

\* A run does not wait forever.
EveryRunEnds == pc \in Running ~> pc \in {"done", "down"}
=============================================================================
