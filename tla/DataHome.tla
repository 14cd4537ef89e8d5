------------------------------ MODULE DataHome ------------------------------
(***************************************************************************)
(* A tag's data home: the generation scheduler (generational/scheduler.py) *)
(* as a thread of the trainer (generational/data_home.py), the files the   *)
(* two share (generational/lifecycle.py) and the trainer's loop around     *)
(* them (leave_inference/trainer.py).  Generators deliver chunks into      *)
(* staging; the scheduler moves them into generations; the trainer trains  *)
(* on complete ones and evicts old ones; the controller copies those of a  *)
(* remote home.                                                            *)
(*                                                                         *)
(* Each step is at most one change of the disk (a rename, a ledger line, a *)
(* manifest), so a crash between two steps is a crash between two changes. *)
(* Every readable chunk holds one unit of games; the trainer stops         *)
(* (max_rows) after `Last` generations.                                    *)
(***************************************************************************)
EXTENDS Integers, FiniteSetsExt

CONSTANTS
  Chunks,         \* the chunks the generators deliver
  NoChunk,
  HeldOut,        \* those whose name's hash holds them out (is_held_out)
  Damaged,        \* those whose header cannot be read
  Sidecars,       \* whether each chunk carries a sidecar file
  Target,         \* chunks that fill a generation (games_per_generation)
  HoldoutChunks,  \* chunks that fill the held-out set
  OpenAhead,      \* open_ahead
  Window,         \* the trainer's window; 0 keeps every generation
  Last,           \* generations the trainer trains
  Remote,         \* whether the controller pulls the generations
  Redelivery,     \* whether deliveries repeat
  MaxStops        \* how often the runner may be stopped or crash

Held == -1
Gens == 0 .. Last + OpenAhead

\* "One directory with a generation's manifest": the held-out set.
Dirs == Gens \cup {Held}

ASSUME ChunkAssumption ==
  /\ HeldOut \subseteq Chunks
  /\ Damaged \subseteq Chunks
  /\ NoChunk \notin Chunks
  /\ Sidecars \in BOOLEAN
  /\ Remote \in BOOLEAN
  /\ Redelivery \in BOOLEAN

ASSUME SizeAssumption ==
  /\ Target \in Nat \ {0}
  /\ {HoldoutChunks, OpenAhead, Window, Last, MaxStops} \subseteq Nat

VARIABLES
  \* The disk.
  staging,      \* the .slog files in staging
  stagingSide,  \* the sidecars in staging
  bad,          \* the chunks quarantined
  slog,         \* per directory, its .slog files
  side,         \* per directory, its sidecars
  made,         \* the directories that exist
  status,       \* per directory, its manifest's status
  ledger,       \* the ingest ledger
  pulled,       \* the generations with an acknowledgement (ACK_NAME)
  model,        \* the checkpoint's generation_index
  cursor,       \* the published one (train_state.json)
  gate,         \* the published gate on the generators
  \* The scheduler thread.
  thread,       \* where it is
  rest,         \* staged duplicates and chunks without sidecar it has to clear
  batch,        \* staged chunks it has to assign
  job,          \* the chunk whose files it is moving
  seen,         \* the cursor as it read it
  open,         \* the generation it is filling
  \* The training thread.
  trainer,      \* where it is
  index,        \* its state's generation_index
  reading,      \* the generations its epoch reads
  doomed,       \* the generations it has to evict
  \* Elsewhere.
  sent,         \* the chunks delivered
  copies,       \* the generations the controller holds a copy of
  \* History, read by no action that models code.
  spent,        \* the chunks whose .slog was deleted for good, as intended
  gone,         \* the generations whose eviction has begun
  stops         \* how often the runner has ended

disk == <<staging, stagingSide, bad, slog, side, made, status, ledger,
          pulled, model, cursor, gate>>
scheduling == <<thread, rest, batch, job, seen, open>>
training == <<trainer, index, reading, doomed>>
others == <<sent, copies, spent, gone, stops>>
vars == <<disk, scheduling, training, others>>

-----------------------------------------------------------------------------
\* Views of the directories.

\* The move of one chunk's files: what becomes of it, where it goes, and
\* which file is next.
Jobs == [do : {"assign", "drop", "duplicate", "quarantine"}, chunk : Chunks,
         dir : Dirs, part : {"side", "slog"}]
NoJob == [do |-> "none", chunk |-> NoChunk, dir |-> Held, part |-> "slog"]

\* Mutant: the sidecar is not moved with its .slog.
JobWithoutSidecar(do, c, d) == [do |-> do, chunk |-> c, dir |-> d, part |-> "slog"]

\* _chunk_files: the sidecar, if any, then the .slog.
Job(do, c, d) ==
  [do |-> do, chunk |-> c, dir |-> d, part |-> IF Sidecars THEN "side" ELSE "slog"]

OpenGens == {g \in Gens : status[g] = "generating"}

\* complete_indices_upto
CompleteUpto(i) == {g \in Gens : g <= i /\ status[g] = "complete"}

\* window_dirs: the most recent `Window` complete generations up to i.
WindowGens(i) ==
  LET complete == CompleteUpto(i)
  IN IF Window = 0 THEN complete
     ELSE {g \in complete : Cardinality({h \in complete : h > g}) < Window}

\* Mutant: existing directories are not looked at.
NextIndexAtCursor == seen

\* _next_index: past every existing directory, never behind the cursor read.
NextIndex == Max({seen} \cup {g + 1 : g \in made \ {Held}})

-----------------------------------------------------------------------------
\* Deliveries into staging: a chunk's sidecar before its .slog.

DeliverSide(c) ==
  /\ Sidecars
  /\ c \notin sent \cup stagingSide
  /\ stagingSide' = stagingSide \cup {c}
  /\ UNCHANGED <<staging, bad, slog, side, made, status, ledger, pulled, model,
                 cursor, gate, scheduling, training, others>>

DeliverSlog(c) ==
  /\ c \notin sent
  /\ Sidecars => c \in stagingSide
  /\ staging' = staging \cup {c}
  /\ sent' = sent \cup {c}
  /\ UNCHANGED <<stagingSide, bad, slog, side, made, status, ledger, pulled, model,
                 cursor, gate, scheduling, training, copies, spent, gone, stops>>

\* A collection or relay delivers a file again after its delete failed; the
\* sidecar's may have succeeded.
Redeliver(c) ==
  /\ Redelivery
  /\ c \in sent
  /\ \/ Sidecars /\ stagingSide' = stagingSide \cup {c} /\ staging' = staging
     \/ staging' = staging \cup {c} /\ stagingSide' = stagingSide
  /\ UNCHANGED <<bad, slog, side, made, status, ledger, pulled, model,
                 cursor, gate, scheduling, training, others>>

-----------------------------------------------------------------------------
\* The scheduler's tick.

\* Mutant: the ledger is not read.
TickStartsUnledgered ==
  /\ thread = "idle"
  /\ batch' = {c \in staging : Sidecars => c \in stagingSide}
  /\ rest' = staging \ batch'
  /\ thread' = "sorting"
  /\ UNCHANGED <<disk, job, seen, open, training, others>>

\* _staged_chunks, the listing: chunks to assign, and the rest.
TickStarts ==
  /\ thread = "idle"
  /\ batch' = {c \in staging : c \notin ledger /\ (Sidecars => c \in stagingSide)}
  /\ rest' = staging \ batch'
  /\ thread' = "sorting"
  /\ UNCHANGED <<disk, job, seen, open, training, others>>

\* A ledgered chunk is a duplicate and is deleted, one without its sidecar is
\* quarantined.
SortChunk(c) ==
  /\ thread = "sorting"
  /\ job = NoJob
  /\ c \in rest
  /\ rest' = rest \ {c}
  /\ job' = Job(IF c \in ledger THEN "duplicate" ELSE "quarantine", c, Held)
  /\ UNCHANGED <<disk, thread, batch, seen, open, training, others>>

Sorted ==
  /\ thread = "sorting"
  /\ job = NoJob
  /\ rest = {}
  /\ thread' = "routing"
  /\ UNCHANGED <<disk, rest, batch, job, seen, open, training, others>>

\* Mutant: the ledger takes every held-out chunk at once.
RouteHeldOutLedgersAll(c) ==
  /\ thread = "routing"
  /\ job = NoJob
  /\ c \in batch \cap HeldOut
  /\ batch' = batch \ {c}
  /\ ledger' = ledger \cup (batch \cap HeldOut)
  /\ job' = Job(IF status[Held] = "complete" THEN "drop" ELSE "assign", c, Held)
  /\ UNCHANGED <<staging, stagingSide, bad, slog, side, made, status, pulled, model,
                 cursor, gate, thread, rest, seen, open, training, others>>

\* _route_held_out, one held-out chunk: ledgered, then moved into the set, or
\* deleted when the set is complete.
RouteHeldOut(c) ==
  /\ thread = "routing"
  /\ job = NoJob
  /\ c \in batch \cap HeldOut
  /\ batch' = batch \ {c}
  /\ ledger' = ledger \cup {c}
  /\ job' = Job(IF status[Held] = "complete" THEN "drop" ELSE "assign", c, Held)
  /\ UNCHANGED <<staging, stagingSide, bad, slog, side, made, status, pulled, model,
                 cursor, gate, thread, rest, seen, open, training, others>>

\* The set's first chunk has its manifest written.
OpenHeldOut ==
  /\ job.do = "assign"
  /\ job.dir = Held
  /\ status[Held] = "none"
  /\ made' = made \cup {Held}
  /\ status' = [status EXCEPT ![Held] = "generating"]
  /\ UNCHANGED <<staging, stagingSide, bad, slog, side, ledger, pulled, model,
                 cursor, gate, scheduling, training, others>>

\* Mutant: off by one.
CountHeldOutLate ==
  /\ thread = "counting"
  /\ thread' = "routing"
  /\ status' = IF Cardinality(slog[Held]) <= HoldoutChunks THEN status
               ELSE [status EXCEPT ![Held] = "complete"]
  /\ UNCHANGED <<staging, stagingSide, bad, slog, side, made, ledger, pulled, model,
                 cursor, gate, rest, batch, job, seen, open, training, others>>

\* After each chunk the set is complete if it is full.  An unreadable header
\* raises here, which ends the thread (DataHome._run).
CountHeldOut ==
  /\ thread = "counting"
  /\ IF Cardinality(slog[Held]) < HoldoutChunks
       THEN thread' = "routing" /\ status' = status
       ELSE IF slog[Held] \cap Damaged # {}
              THEN thread' = "failed" /\ status' = status
              ELSE /\ thread' = "routing"
                   /\ status' = [status EXCEPT ![Held] = "complete"]
  /\ UNCHANGED <<staging, stagingSide, bad, slog, side, made, ledger, pulled, model,
                 cursor, gate, rest, batch, job, seen, open, training, others>>

\* Mutant: the checkpoint's cursor is read, not the published one.
RoutedByCheckpoint ==
  /\ thread = "routing"
  /\ job = NoJob
  /\ batch \cap HeldOut = {}
  /\ seen' = model
  /\ thread' = "draining"
  /\ UNCHANGED <<disk, rest, batch, job, open, training, others>>

\* The held-out chunks are routed; the trainer's cursor is read.
Routed ==
  /\ thread = "routing"
  /\ job = NoJob
  /\ batch \cap HeldOut = {}
  /\ seen' = cursor
  /\ thread' = "draining"
  /\ UNCHANGED <<disk, rest, batch, job, open, training, others>>

\* _drain: the lowest open generation is filled.
FillOpen ==
  /\ thread = "draining"
  /\ OpenGens # {}
  /\ open' = Min(OpenGens)
  /\ thread' = "filling"
  /\ UNCHANGED <<disk, rest, batch, job, seen, training, others>>

\* None is open and none may be: the generators are parked.
ParkGenerators ==
  /\ thread = "draining"
  /\ OpenGens = {}
  /\ NextIndex > seen + OpenAhead
  /\ gate' = "ahead"
  /\ thread' = "idle"
  /\ UNCHANGED <<staging, stagingSide, bad, slog, side, made, status, ledger, pulled,
                 model, cursor, rest, batch, job, seen, open, training, others>>

\* Mutant: the bound on the index is off by one.
MakeDirectoryAhead ==
  /\ thread = "draining"
  /\ OpenGens = {}
  /\ NextIndex <= seen + OpenAhead + 1
  /\ NextIndex \in Gens
  /\ open' = NextIndex
  /\ made' = made \cup {NextIndex}
  /\ thread' = "opening"
  /\ UNCHANGED <<staging, stagingSide, bad, slog, side, status, ledger, pulled, model,
                 cursor, gate, rest, batch, job, seen, training, others>>

\* open_generation (write_manifest): the directory, ...
MakeDirectory ==
  /\ thread = "draining"
  /\ OpenGens = {}
  /\ NextIndex <= seen + OpenAhead
  /\ open' = NextIndex
  /\ made' = made \cup {NextIndex}
  /\ thread' = "opening"
  /\ UNCHANGED <<staging, stagingSide, bad, slog, side, status, ledger, pulled, model,
                 cursor, gate, rest, batch, job, seen, training, others>>

\* ... then its manifest.
WriteManifest ==
  /\ thread = "opening"
  /\ status' = [status EXCEPT ![open] = "generating"]
  /\ thread' = "filling"
  /\ UNCHANGED <<staging, stagingSide, bad, slog, side, made, ledger, pulled, model,
                 cursor, gate, rest, batch, job, seen, open, training, others>>

\* Mutant: the header is not read.
FillChunkUnread(c) ==
  /\ thread = "filling"
  /\ job = NoJob
  /\ c \in batch
  /\ Cardinality(slog[open]) < Target
  /\ batch' = batch \ {c}
  /\ ledger' = ledger \cup {c}
  /\ job' = Job("assign", c, open)
  /\ UNCHANGED <<staging, stagingSide, bad, slog, side, made, status, pulled, model,
                 cursor, gate, thread, rest, seen, open, training, others>>

\* _fill, one staged chunk: quarantined if unreadable, else ledgered and moved.
FillChunk(c) ==
  /\ thread = "filling"
  /\ job = NoJob
  /\ c \in batch
  /\ Cardinality(slog[open]) < Target
  /\ batch' = batch \ {c}
  /\ ledger' = IF c \in Damaged THEN ledger ELSE ledger \cup {c}
  /\ job' = Job(IF c \in Damaged THEN "quarantine" ELSE "assign", c, open)
  /\ UNCHANGED <<staging, stagingSide, bad, slog, side, made, status, pulled, model,
                 cursor, gate, thread, rest, seen, open, training, others>>

\* mark_complete, and on to the next generation.
MarkComplete ==
  /\ thread = "filling"
  /\ job = NoJob
  /\ Cardinality(slog[open]) >= Target
  /\ status' = [status EXCEPT ![open] = "complete"]
  /\ thread' = "draining"
  /\ UNCHANGED <<staging, stagingSide, bad, slog, side, made, ledger, pulled, model,
                 cursor, gate, rest, batch, job, seen, open, training, others>>

\* Mutant: parked generators stay parked.
TickEndsParked ==
  /\ thread = "filling"
  /\ job = NoJob
  /\ batch = {}
  /\ Cardinality(slog[open]) < Target
  /\ thread' = "idle"
  /\ UNCHANGED <<disk, rest, batch, job, seen, open, training, others>>

\* Staging is drained: the tick ends and its state is published.
TickEnds ==
  /\ thread = "filling"
  /\ job = NoJob
  /\ batch = {}
  /\ Cardinality(slog[open]) < Target
  /\ gate' = "open"
  /\ thread' = "idle"
  /\ UNCHANGED <<staging, stagingSide, bad, slog, side, made, status, ledger, pulled,
                 model, cursor, rest, batch, job, seen, open, training, others>>

-----------------------------------------------------------------------------
\* The files of the job's chunk, the sidecar first and the .slog last.

Moving == job # NoJob /\ (job.do = "assign" => status[job.dir] # "none")

MoveSide ==
  /\ Moving
  /\ job.part = "side"
  /\ stagingSide' = stagingSide \ {job.chunk}
  /\ side' = IF job.do = "assign" THEN [side EXCEPT ![job.dir] = @ \cup {job.chunk}]
                                  ELSE side
  /\ job' = [do |-> job.do, chunk |-> job.chunk, dir |-> job.dir, part |-> "slog"]
  /\ UNCHANGED <<staging, bad, slog, made, status, ledger, pulled, model,
                 cursor, gate, thread, rest, batch, seen, open, training, others>>

MoveSlog ==
  /\ Moving
  /\ job.part = "slog"
  /\ staging' = staging \ {job.chunk}
  /\ slog' = IF job.do = "assign" THEN [slog EXCEPT ![job.dir] = @ \cup {job.chunk}]
                                  ELSE slog
  /\ bad' = IF job.do = "quarantine" THEN bad \cup {job.chunk} ELSE bad
  /\ spent' = IF job.do = "drop" THEN spent \cup {job.chunk} ELSE spent
  /\ thread' = IF job.do = "assign" /\ job.dir = Held THEN "counting" ELSE thread
  /\ job' = NoJob
  /\ UNCHANGED <<stagingSide, side, made, status, ledger, pulled, model, cursor, gate,
                 rest, batch, seen, open, training, sent, copies, gone, stops>>

-----------------------------------------------------------------------------
\* The trainer: wait_for_generation, an epoch over the window, checkpoint,
\* cursor, eviction.

\* The runner starts: the checkpoint is resumed, its cursor published and the
\* data home started.
Resume ==
  /\ trainer = "down"
  /\ index' = model
  /\ cursor' = model
  /\ trainer' = "waiting"
  /\ thread' = "idle"
  /\ UNCHANGED <<staging, stagingSide, bad, slog, side, made, status, ledger, pulled,
                 model, gate, rest, batch, job, seen, open, reading, doomed, others>>

\* The wait is over.
TrainGeneration ==
  /\ trainer = "waiting"
  /\ index < Last
  /\ status[index] = "complete"
  /\ reading' = WindowGens(index)
  /\ trainer' = "training"
  /\ UNCHANGED <<disk, scheduling, index, doomed, others>>

\* checkpoint.save
SaveCheckpoint ==
  /\ trainer = "training"
  /\ index' = index + 1
  /\ model' = index + 1
  /\ reading' = {}
  /\ trainer' = "saved"
  /\ UNCHANGED <<staging, stagingSide, bad, slog, side, made, status, ledger, pulled,
                 cursor, gate, scheduling, doomed, others>>

\* Mutant: the window's last generation is evicted with those before it.
PublishCursorEvictsMore ==
  /\ trainer = "saved"
  /\ cursor' = index
  /\ doomed' = IF Window = 0 THEN {} ELSE CompleteUpto(index - 1) \ {index - 1}
  /\ trainer' = "evicting"
  /\ UNCHANGED <<staging, stagingSide, bad, slog, side, made, status, ledger, pulled,
                 model, gate, scheduling, index, reading, others>>

\* write_train_state, then evict_beyond_window finds what to evict.
PublishCursor ==
  /\ trainer = "saved"
  /\ cursor' = index
  /\ doomed' = CompleteUpto(index - 1) \ WindowGens(index - 1)
  /\ trainer' = "evicting"
  /\ UNCHANGED <<staging, stagingSide, bad, slog, side, made, status, ledger, pulled,
                 model, gate, scheduling, index, reading, others>>

\* The next generation to evict: they go oldest first.
Victim(g) == trainer = "evicting" /\ doomed # {} /\ g = Min(doomed)

\* A remote home keeps what the controller has not pulled.
KeepUnpulled(g) ==
  /\ Victim(g)
  /\ Remote
  /\ g \notin pulled
  /\ doomed' = doomed \ {g}
  /\ UNCHANGED <<disk, scheduling, trainer, index, reading, others>>

\* rmtree: some of the directory's files go, in any order, ...
RemoveFiles(g, keptSlogs, keptSides) ==
  /\ Victim(g)
  /\ Remote => g \in pulled
  /\ keptSlogs \subseteq slog[g]
  /\ keptSides \subseteq side[g]
  /\ trainer' = "removing"
  /\ slog' = [slog EXCEPT ![g] = keptSlogs]
  /\ side' = [side EXCEPT ![g] = keptSides]
  /\ \E kept \in {status[g], "none"} : status' = [status EXCEPT ![g] = kept]
  /\ \E kept \in {pulled, pulled \ {g}} : pulled' = kept
  /\ spent' = spent \cup (slog[g] \ keptSlogs)
  /\ gone' = gone \cup {g}
  /\ UNCHANGED <<staging, stagingSide, bad, made, ledger, model, cursor, gate,
                 scheduling, index, reading, doomed, sent, copies, stops>>

\* ... then all, and the directory.
RemoveDirectory(g) ==
  /\ trainer = "removing"
  /\ g = Min(doomed)
  /\ slog' = [slog EXCEPT ![g] = {}]
  /\ side' = [side EXCEPT ![g] = {}]
  /\ status' = [status EXCEPT ![g] = "none"]
  /\ pulled' = pulled \ {g}
  /\ made' = made \ {g}
  /\ spent' = spent \cup slog[g]
  /\ doomed' = doomed \ {g}
  /\ trainer' = "evicting"
  /\ UNCHANGED <<staging, stagingSide, bad, ledger, model, cursor, gate,
                 scheduling, index, reading, sent, copies, gone, stops>>

Evicted ==
  /\ trainer = "evicting"
  /\ doomed = {}
  /\ trainer' = "waiting"
  /\ UNCHANGED <<disk, scheduling, index, reading, doomed, others>>

\* The runner ends, and its threads with it, wherever they are.
RunnerEnds(state) ==
  /\ trainer' = state
  /\ thread' = "off"
  /\ rest' = {}
  /\ batch' = {}
  /\ job' = NoJob
  /\ seen' = 0
  /\ open' = 0
  /\ index' = 0
  /\ reading' = {}
  /\ doomed' = {}
  /\ stops' = stops + 1
  /\ UNCHANGED <<disk, sent, copies, spent, gone>>

\* max_rows is reached.
Finish ==
  /\ trainer = "waiting"
  /\ index >= Last
  /\ RunnerEnds("done")

\* DataHome.check raises the home thread's failure while the trainer waits.
HomeFailed ==
  /\ trainer = "waiting"
  /\ index < Last
  /\ status[index] # "complete"
  /\ thread = "failed"
  /\ stops < MaxStops
  /\ RunnerEnds("down")

\* A crash, or the operator's pause.
Stop ==
  /\ trainer \notin {"down", "done"}
  /\ stops < MaxStops
  /\ RunnerEnds("down")

-----------------------------------------------------------------------------
\* The controller, of a remote home: it copies a complete generation, then
\* acknowledges the copy in the home.

PullGeneration(g) ==
  /\ Remote
  /\ status[g] = "complete"
  /\ g \notin pulled
  /\ copies' = copies \cup {g}
  /\ UNCHANGED <<disk, scheduling, training, sent, spent, gone, stops>>

Acknowledge(g) ==
  /\ g \in copies \cap made
  /\ pulled' = pulled \cup {g}
  /\ UNCHANGED <<staging, stagingSide, bad, slog, side, made, status, ledger, model,
                 cursor, gate, scheduling, training, others>>

-----------------------------------------------------------------------------

Init ==
  /\ staging = {}
  /\ stagingSide = {}
  /\ bad = {}
  /\ slog = [d \in Dirs |-> {}]
  /\ side = [d \in Dirs |-> {}]
  /\ made = {}
  /\ status = [d \in Dirs |-> "none"]
  /\ ledger = {}
  /\ pulled = {}
  /\ model = 0
  /\ cursor = 0
  /\ gate = "open"
  /\ thread = "off"
  /\ rest = {}
  /\ batch = {}
  /\ job = NoJob
  /\ seen = 0
  /\ open = 0
  /\ trainer = "down"
  /\ index = 0
  /\ reading = {}
  /\ doomed = {}
  /\ sent = {}
  /\ copies = {}
  /\ spent = {}
  /\ gone = {}
  /\ stops = 0

Deliveries == \E c \in Chunks : DeliverSide(c) \/ DeliverSlog(c) \/ Redeliver(c)

Scheduler ==
  \/ TickStarts \/ Sorted \/ OpenHeldOut \/ CountHeldOut \/ Routed
  \/ FillOpen \/ ParkGenerators \/ MakeDirectory \/ WriteManifest
  \/ MarkComplete \/ TickEnds \/ MoveSide \/ MoveSlog
  \/ \E c \in Chunks : SortChunk(c) \/ RouteHeldOut(c) \/ FillChunk(c)

Trainer ==
  \/ Resume \/ TrainGeneration \/ SaveCheckpoint \/ PublishCursor
  \/ Evicted \/ Finish \/ HomeFailed
  \/ \E g \in Gens : KeepUnpulled(g) \/ RemoveDirectory(g)
  \/ \E g \in Gens, S, T \in SUBSET Chunks : RemoveFiles(g, S, T)

Controller == \E g \in Gens : PullGeneration(g) \/ Acknowledge(g)

Next == Deliveries \/ Scheduler \/ Trainer \/ Controller \/ Stop

Spec == Init /\ [][Next]_vars
=============================================================================
