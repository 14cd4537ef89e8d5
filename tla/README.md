# Verification of Scribblez's training control plane

Scribblez trains Scrabble networks: C++ workers generate self-play games, Python
trainers learn from them, and a dashboard process decides which training *tag*
(a named task) runs on which machine. This directory holds TLA+ models of the
parts of that program where order, crashes and concurrency decide whether it is
correct, the TLC runs that check them, and proofs that TLAPS checks.

To check it: `tlc -config X.cfg M` for a run of PROJECT.json's "runs", and
`tlapm X.tla` for each of `MatchPathsProofs`, `TagQueueProofs`,
`TagQueueSlotProofs`, `TagQueueLifeProofs`, `DataHomeProofs`, `SshSlotProofs`,
`HomeMovesProofs` and `MatchDispatchProofs`.

## 1. The system

Paths are under `src/py/scribblez/` unless they begin with `cloud/`.

| Component | State it keeps | Operations | Talks to | Hard behaviour |
|---|---|---|---|---|
| Tag queue (`dashboard/tag_queue.py`, `queue.py`) | the queue's entries, each tag's bundle build, the drains in flight | enqueue, dequeue, move, release, requeue, stop all cloud spending; the pass (`tick`): drop stale entries, advance builds, rentals, advance leases, place, rent | pool, slots, rentals, build and drain threads | a pass is many commits, a restart may fall between any two; drains and builds are threads whose results a later pass reads |
| Machine pool and rentals (`dashboard/pool.py`, `pool_rentals.py`) | machines, each with its lease; capacity entries; retiring rentals | rent, launch, recover a launch, terminate idle and retiring rentals, capacity edits | provider (Vast, RunPod), tag queue | the record precedes the instance, the listing lags, an instance may vanish with its lease |
| Placement (`dashboard/placement.py`) | none (pure) | `refusal`, `match` | tag queue | an augmenting path moves earlier entries |
| Worker manager (`dashboard/workers.py`) | slots of each task: wanted, finished, failed; container observations, crash and pull counters | add, start, pause, remove, redeploy; per pass: observe, collect, start, stop, park, replace, note exits; seed, sweep and move a data home | containers over ssh, local processes, data homes | observations are read before an await and used after it; commands of several remote steps fail after any of them |
| Dashboard process (`dashboard/api.py`, `master_api.py`) | the event loop, the periodic pass, the boot pass | HTTP commands, the reconcile pass | all of the above | commands interleave with a pass at its offloads, and the boot pass with the periodic one; the process restarts |
| Control store (`dashboard/control_store.py`, `tasks.py`, `control_db.py`) | one database of tasks, pool and queue | transactions | all of the above | a transaction that raises still commits what it wrote |
| Data plane (`generational/scheduler.py`, `lifecycle.py`, `data_home.py`) | staging directory, ledger, generation directories, held-out set | stage, drain, fill, gate, evict | generators (through ssh sinks), trainer, controller | rename-based moves, a crash between ledger and rename, redelivered chunks |
| State pair and cursor (`generational/state_pair.py`, `checkpoint.py`) | model file, cursor file, snapshot pairs | install, take seed, deliver, prune | trainer, controller | two renames are not one; pairs arrive late and twice |
| Trainer loop (`leave_inference/trainer.py`, `position_eval/trainer.py`) | train state: cursor, rows, window | wait for a generation, train, checkpoint, publish, deliver, evict | data plane | a restart between checkpoint, published cursor and delivery |
| SSH transfer (`cloud/ssh_transfer.py`, `ssh_machine.py`, `sinks.py`) | per container: output, pulled, acknowledged | pull, relay, sweep, acknowledge | worker manager, containers | lost links; a command that timed out may have been carried out |
| Bundles and bootstrap (`cloud/bundles.py`, `worker_entrypoint.py`) | a task's pinned bundle; in the container, its payload and exit code | build, pin, unpack, run | worker manager | a container created without its payload |
| Match evaluation (`match_eval/dispatch.py`, `runner.py`) | the worker's inbox and marks; results on their way; rows | assign, ingest, clear, finish | match slot, trainer's exports | the inbox is the only ledger of assignments, results lag behind marks |
| Game engine, agents, lexicon, neural serving (C++), statistics and viewers | | | | numeric or presentational: not modelled |

### How they meet

One thread, the *writer* (`WorkerManager.offload`), runs every operator command
whole and every step of the reconcile pass; a pass is a series of steps, and
between two of them a command, or a step of the boot pass, may run. What the
writer does reaches the control store in commits. Outside the writer's control:
the bundle build thread, the drain threads and each slot's transfer thread,
which work on copies and leave a result for a later pass to read; the worker
processes and containers, which exit on their own; the cloud provider, whose
instances disappear; links, which fail under a command; and the dashboard's own
restart, which forgets all threads and the pass in progress and keeps what was
committed.

A tag's life: the operator enqueues it; the pass gives it a machine by
augmenting-path matching in queue order, or rents one; placing it leases the
machine to it and creates one slot per role; its slots run until all finish or
one fails; then the lease is *releasing*: a drain waits until the workers are
down and sweeps their output, and the pass removes the slots and ends the
lease. A requeued tag goes back to the head of the queue; a failed one *holds*
its machine until a queued tag wants it.

A chunk's life: a generator finishes it in its container; the slot's transfer
thread copies it here and deletes it there; where the tag's *data home* is on
another machine it is relayed there and deleted here; the home's scheduler
ledgers it and moves it into the open generation; the trainer reads the
complete generation, checkpoints, publishes its cursor and delivers checkpoint
and cursor as a pair, which a pull installs here; complete generations are
copied here and acknowledged, and the home evicts what is acknowledged and
beyond the window. When the home moves or is lost, the next one is seeded from
the copies here.

### What must hold

- **Tag queue.** A tag is in one place: idle, queued once, or leased one
  machine. It never drops out of that custody unless the operator or its own
  end took it out. Slots exist only under their tag's lease. A lease ends only
  for a reason its slots show. A release discards no output. Releases end, queued tags run.
- **Placement.** A matching; an earlier entry is never left unserved for a
  later one; no machine idles that an entry could use; moving entries along a
  path loses none.
- **Rentals.** Never two leases for one tag across half-made launches.
- **Worker slots.** Output is deleted from a container only when it is safe at
  home. An observation that may be acted on is true. A trainer is finished only
  with its last output here. The container ends as the last command wants it.
- **Data plane.** A chunk is in at most one generation; a generation seen
  complete stays complete; eviction never takes what the trainer or the
  controller still needs.
- **State pair.** A reader never sees a cursor ahead of its weights, and the
  copy here never goes back.
- **Moving homes.** No chunk is assigned twice or lost, and the window is whole
  wherever the trainer resumes.
- **Match evaluation.** No generation is played again while its result is on
  its way; every due generation is matched; the slot is finished only then.

## 2. Plan

The most important behaviour, the tag queue, comes first; then the data plane
its workers share; then what connects the two.

| Step | Modules | Question | State |
|---|---|---|---|
| 1 | `Placement`, `MatchPaths`, `MatchPathsProofs` | what a placement must be, and that the search for augmenting paths finds one | done |
| 2 | `TagLifecycle`, `TagQueue`, `TagQueueProps` | the queue, pass, rentals, drains, builds, workers, restarts | done |
| 3 | `TagQueueProofs` | no tag is placed twice, queued twice, or queued and placed | done |
| 4 | `GenerationFlow`, `DataHome`, `DataHomeProps` | scheduler, ledger, trainer, eviction, stops | done |
| 5 | `DataHomeProofs` | a chunk is used once, one generation is open, pacing, completion is final | done |
| 6 | `SshSlot`, `SshSlotProps`, `SshSlotProofs` | observation, start, stop, park, replacement and collection of one container, with commands and a second pass between the observation and its use | done |
| 7 | `HomeMoves`, `HomeMovesProps`, `HomeMovesProofs` | a data home placed, fed, copied, replaced, moved and lost; the cursor rule | done |
| 8 | `MatchDispatch`, `MatchDispatchProps`, `MatchDispatchProofs` | assignment, marks, results and their ledger | done |
| 9 | `ControlStore` | readers' copies, transactions that raise, the one-time import | planned |
| 10 | liveness of a home | how the controller judges a heartbeat and sets the gate that `SshSlot` lets change at will | planned |
| 11 | `TagQueueSlotProofs`, `TagQueueLifeProofs` | slots and drains under a lease; why leases end, custody, and each step of `TagQueue` as one of `TagLifecycle` | done |
| 12 | `DataHomeProofs` | losses, whole windows, the held-out set, and each step of `DataHome` as one of `GenerationFlow` | done |
| 13 | `HomeMovesProofs` | that a moving home loses no chunk (`ChunkKept`) and resumes with its window whole (`WindowWhole`) | done |

Abstract specifications: `TagLifecycle` (what the operator is promised about a
tag) and `GenerationFlow` (what trainers are promised about chunks) are what
`TagQueue` and `DataHome` are shown to implement. `HomeMoves` and `DataHome`
divide one subject: `DataHome` follows the scheduler inside the volume file by
file on one machine that stops; `HomeMoves` has one step per scheduler pass over
a chunk and models what happens between machines. `SshSlot` and `TagQueue`
divide another: `TagQueue` knows of a slot that it is alive or down and has
output; `SshSlot` has the container.

## 3. Modules and the code

### `Placement`, `MatchPaths`: dashboard/placement.py

`Placement` says which plans a pass may make: matchings of entries to free
machines that serve exactly the entries queue order entitles (`Served`).
`MatchPaths` is the algorithm, `match` with its recursive helper `assign`, as a
state machine: the recursion is a stack of calls (`calls`), each at an entry
and a machine; a step is one turn of the loop in the innermost call (`Skip`,
`FindFree`, `Descend`) or its return (`Claim` for True, `GiveUp` for False), and
`AssignNext` is the loop over the queue. `seen` is shared by the calls of one
search and keeps what failed branches added, as in the code. Every eligibility
relation is an initial state. `TagQueue` uses the declarative definition: it
places by any matching of `Placement`, and `ServesInQueueOrder` says that
`match` returns one. The hardware arithmetic of `refusal` is a relation,
`Fits`.

### `TagQueue`: tag_queue.py, queue.py, pool.py, pool_rentals.py, workers.py

*State.* `queue`, `pool`, `lease`, `capacity`, `cap`, `retiring`, `slot`,
`host`, `exists`, `pinned` are what the control store holds. `builds`, `drain`,
`left` are the threads' futures, `at`, `todo`, `plan`, `gone`, `carry`,
`added` the writer's place in the code; a restart (`Crash`) forgets both
groups. `work`, `out`, `inst`, `busy` are the workers, the output in their
containers, the provider's instances and slots run by hand.

*Actions.* Each operator command is one action (`Enqueue`, `Dequeue`, `Move`,
`Release`, `Requeue`, `StopCloud`...), enabled when the writer is at `"idle"`:
commands are whole. A pass is the sequence `tick` runs: drop stale entries,
advance builds, rentals, one `AdvanceLease` per leased machine, then placement
and renting. Where the code commits more than once inside a step, the step is
split there (`losing`/`lost` for `_lose_rental`, `starting` for a reservation,
`launching`/`launched` for a rental, `PauseFailed` before `FailLease`), so that
`Crash` may fall between the commits; and where a step may raise after some of
them there is an action for that (`ReservationRaises`, `RentalRaises`,
`FinishPartway`, `DrainRaises`). Drains run slot by slot (`DrainSlot`) against workers that go on
exiting and operators that go on starting and pausing slots. `Operator` and
`Faults` choose what a run explores.

*Refinement.* `TagLifecycle` knows a tag as idle, queued, placed, returning,
ending or held, on one machine at most. `Life` maps leases and entries to it.

### `SshSlot`: workers.py, ssh_transfer.py, ssh_machine.py, worker_entrypoint.py

One slot whose worker is a container on another machine.

*State.* Outside: the container `box` (state, bundle, whether it is `fit`, that
is has what its worker needs, exit code, finished output it holds), the `link`,
`made` and `ended`. Here: the files at `home`, those a Remove `dropped`, the
record as the writer holds it (`slot`) and as saved (`disk`), the pinned
`bundle`, the scheduler's gate. In the dashboard's memory: the observation
(`probe`, `why`), `crashes`, `watched`, the transfer thread's `pull` and the
place of each `pass` with the observation it carries.

*Actions.* A pass is `Begin`, `Observe`, `Collect`, then one of the steps of
`_reconcile_worker` by intent and by what the pass *saw* (`Unpause`,
`StopForBundle`, `GivesUp`, `Restart`, `Replace`, `Create`, `Park`,
`StopPaused`, `StopRunning`, `Leave`). Two passes may be in progress, the
boot pass and the periodic one. `Run` is `_run_ssh_container` with the remote
command it may fail at (`RunEnds`). The pull is `PullLists`, `PullCopies`,
`PullDeletes`, and `PullFails` at any of them, the delete carried out or not.
Commands are `Add`, `Start`, `Pause`, `Remove`, `Discard`, `Refused`,
`Redeploy`, `Gate`, `Lift`, `FinishRole`; those that look first share `Looks`
with the pass. `Ages` is the observation's time to live, `LinkReturns` is in
two steps because a machine just found unreachable is not asked again at once.

### `DataHome`: scheduler.py, lifecycle.py, data_home.py, trainer.py

*State.* The disk: `staging` and its sidecars, `slog` and `side` of each
directory, `made` (directories) and `status` (manifests), `ledger`, `pulled`
(acknowledgements), `model` (checkpoint), `cursor` (train_state.json), `gate`.
The scheduler's thread: `thread`, `rest`, `batch`, `job`, `seen`, `open`. The
training thread: `trainer`, `index`, `reading`, `doomed`. The held-out set is
the directory `Held` beside the generations. `spent`, `gone`, `stops` are
history that no action of the code reads.

*Actions.* The tick is followed change by change: `TickStarts` lists staging,
`SortChunk` removes duplicates and quarantines chunks without sidecar,
`RouteHeldOut`, `OpenHeldOut`, `CountHeldOut` fill the held-out set, `Routed`
reads the cursor, then `FillOpen`, `ParkGenerators`, or `MakeDirectory` and
`WriteManifest`, `FillChunk` per chunk, `MarkComplete`, `TickEnds`. A chunk's
files move in `MoveSide` and `MoveSlog`; the ledger line is written before, by
the action that creates the `job`. The trainer runs `Resume`,
`TrainGeneration`, `SaveCheckpoint`, `PublishCursor`, then evicts:
`RemoveFiles` leaves any subset of a directory's files (rmtree's order is
not fixed), `RemoveDirectory` ends it. `Stop` may fall between any two of
these and drops both threads' state.

*Refinement.* `GenerationFlow` has generations that are none, open, complete,
evicted, that take unused chunks while open, and a cursor that moves over
complete ones.

### `HomeMoves`: workers.py, ssh_transfer.py, state_pair.py, lifecycle.py, trainer.py

A tag's data in two places: the tree `here` and the volume `vol` of the home's
machine, each with staging, generations, ledger, checkpoint and cursor; the
volume also has acknowledgements, delivered pairs (`out`) and a pushed seed.
Generations trained stand for the rows the cursor rule compares.

Three actors. The container's `trainer` takes its seed (`TakeSeed`,
`AwaitsSeed`), trains, publishes, delivers pairs on a thread of its own
(`PushPair`, `DropOlder`), evicts and exits; the home's scheduler is `Open` and
`Assign`. The `transfer` thread pulls and installs pairs (checkpoint, then
cursor), relays chunks, copies a generation, acknowledges it, trims the copies
here. The blocking thread `op` places a home (`SeedVolume`, `Create`, `Start`,
`PushSeed`), removes one (`SweepPairs`, `SweepGenerations`, `SweepRest`,
`RemoveContainer`, `RemoveVolume`), replaces and finishes it. Each of these is
one remote command, and `CommandFails`, `TransferFails`, `DashboardCrash` and
`LoseHome` fall between any two. `into`, `lost`, `forgotten`, `unswept` and
`struck` are history for the properties.

### `MatchDispatch`: match_eval/dispatch.py, runner.py, dashboard/slot_files.py

*State.* The match slot's container (`inbox`, `marks`, `out`, `worker`), results
`here`, rows (`recorded`) and `quarantined` ones, the collection (`pull`), the
pass's `tick`. Of the training: generations `made` and those whose delivery was
taken off the queue (`sent`), exports awaiting collection (`outbox`), the pair
delivered (`pairs`), and here the exports (`exported`, a set: `models/` may have
holes), the `cursor` and whether the trainer's slot is finished (`trained`).

*Actions.* The tick is taken apart where it changes something or runs a remote
command (`Begin`, `Ingest`, `Unlink`, `Choose`, `List`, `Clear`, `Put`, `Busy`,
`Finish`, `TickFails`), so that the worker, the collection and faults come
between. The trainer saves a generation (`Save`: `export_onnx` writes the export
into `models/`, then checkpoint and cursor are written and the delivery is
queued), its delivery thread finds the export in place and delivers the pair
(`Send`) or finds it collected already and dies (`SendFails`), a collection takes
exports and installs pairs (`Collect`, `Install`), and with the last generation
saved and the queue drained the trainer exits 0 and is swept
(`TrainerFinishes`). `Interrupt` drops what is queued; `LoseHome` drops what is
not here.

*Faults*: a failing command, a stopped worker, a container replaced, a container
lost, a restart, a result that cannot be read, a trainer interrupted with
deliveries queued, a training home lost.

What an interruption drops is the pair and the record, never the export: the
only sink is `LocalSink`, whose `deliver_output` moves nothing (cloud/sinks.py:112-121),
and the collection takes the files of `models/` by listing the directory
(`TRAINER_OUTPUT_DIRS`, workers.py:2670-2672). This is why the slot is not
finished early although `_trainer_finished` reads a flag and `_outstanding`
compares the cursor with the last export only.

`*Props` modules hold the properties, `MC*` modules only name the values TLC
uses.

## 4. Runs

Ten runs pass and two show a disagreement. Bounds are the smallest in which
the question's interleavings all occur.

| Run | Instance | Shows |
|---|---|---|
| `match_paths` | all relations of 3 entries and 3 machines | the search returns a matching that serves exactly the entries queue order entitles, leaves no usable machine idle, and takes no entry's machine even while a path is half rewritten; 3 is the least in which a path has two moves |
| `owned` | 2 tags of 2 roles, one ssh machine; worker crashes, fatal exits, failed drains, removals that raise midway, restarts, a hand-run worker, the machine removed | custody, causes of release, return to the head, one tag's workers at a time, slots only under a lease, a drain's result still true when used, the abstract lifecycle |
| `rentals` | 2 tags that fit 2 rentable machines unevenly; instances, listing, provider, builds and slot starts fail, restarts | no tag placed twice, a release that discards nothing, the inductive invariant of section 6 |
| `fair` | 2 tags, one machine; tags created, enqueued, released and deleted, slots removed, fatal exits, restarts (worker crashes are in `owned`) | releases end, queued tags run |
| `home_stops` | 3 chunks with sidecars, 2 held out and one of these damaged; redelivery, 1 stop | chunks used once, the held-out set bounded, one chunk lost to a stop at most; the inductive invariant of section 6 |
| `home_window` | remote home, 3 generations, window of 2, 2 stops | what the trainer reads is whole, pacing, finality of completion, the abstract flow |
| `home_fair` | 4 chunks, one damaged; 2 generations, 1 stop, `OpenAhead` 0 | the trainer reaches its last generation unless `Orphaned`; damaged chunks stay out of generations |
| `ssh_slot` | either role, 2 overlapping passes, 1 file, 2 bundles, 2 commands of any kind, 1 failure | no output lost, observations true, finished trainers delivered, the container converges to what was last wanted |
| `home_moves` | 2 generations of one chunk behind a window of one, 1 pause, 1 fault of any kind | the cursor rule, acknowledgements, chunks neither doubled nor lost, whole windows, the last state arrives |
| `match_dispatch` | 2 generations, both due, 2 faults of any of 8 kinds, the trainer's interruption and the loss of its home among them | marks have their results, none in transit is assigned again, all due are matched before the slot is finished |
| `home_finish`, `home_missing` | as `home_moves`, nothing fails | the disagreements below |

A second tag is needed for competition and a third adds only queue order, which
`match_paths` covers; a second machine for `OneLeasePerTag`; two roles for a tag
half started or half drained. In the data home two generations past the window
exercise eviction, one chunk per generation makes each move a completion, and
two stops reach every place a stop's leftovers meet another stop. One slot's
output is a set whose files do not interact, so one file and a batch of one
show what a pull may lose; two commands put one between a look and its use and
another after; one failure meets every step, and two overlapping passes are all
there can be. Of moving homes, a second pause or fault adds only repetitions:
after each the home is where one placement finds it. In match evaluation two
generations make an older and a newer export, mark and result, two faults an
interruption of the trainer with one of the worker or the dashboard; three
generations of which every second is due pass too (1389363 states). Each property
has a mutant of the code that its run refutes, so none holds for lack of
states.

`CHECK_DEADLOCK FALSE` in every cfg: the trainer may be done, all chunks
delivered, a slot removed with no command left, or the queue empty.

### Disagreements found

| Run | What TLC shows |
|---|---|
| `home_finish` | a trainer paused between its last checkpoint and the delivery of that pair (trainer.py:222) delivers none when it is started again, exits 0, and is noted finished with the cursor here one generation short; docs/master_dashboard.md:354-357 says it counts as finished only with "the cursor that completes the tag" swept; a lost race for the export (Known gaps, Match evaluation) ends the same way without a pause |
| `home_missing` | removing a trainer whose container is missing (a replacement removed it and could not create the next) removes the home's volume unswept (workers.py:1712); `_rehome` relies on "swept here when its trainer was removed" (workers.py:1140-1141) |

### Known gaps

The models contain more behaviours of the code that its words exclude. A
property that one of them breaks is checked without it, or allows for it by
name.

*Queue and pool.*

- A restart between `_lose_rental`'s commits (tag_queue.py:614-620) leaves the
  tag neither leased nor queued, which its docstring (604-606) excludes and
  `_finish_release` guards against with a transaction. `CustodyKept` is
  therefore checked where no rented instance is lost (`owned`), and proved where
  none is or no restart comes (`LossesWhole`).
- `_recover_launch` (pool_rentals.py:232) drops a leased machine from the pool
  under its slots once its capacity entry is gone, although "its rented machines
  stay until their tags finish" (workers.py:1858). After it a tag may be in
  nobody's hands, slots may be without a lease, and, the machine's name being
  given again, two tags' workers be alive on one machine. `SlotsUnderLease` and
  `OneTagAlive` are checked in `owned`, which has no capacity entry, and proved,
  as the refinement is, for rentals whose entry is not removed (`NoneDropped`).
- Two restarts during `_start_slots` leave slots paused under a running lease
  (tag_queue.py:583), although it is "idempotent, so a reserved lease a restart
  interrupted is completed": no run claims that a tag starts whole.
- A slot started during its release (master_api.py:568) runs behind the drain,
  and its output goes with its container. Starting is several switches of
  `Operator` by the phase of the lease (`StartCommand`), and the passing runs
  do not have `"start_releasing"`.
- remove_worker takes slots from a leased tag, and a lease without slots counts
  as finished: `EndsWithCause` is checked and proved without that command.

*Data home.*

- A stop between a generation's mkdir and its manifest (lifecycle.py:72)
  leaves an index nobody fills and everybody numbers past: the trainer waits
  for ever. `home_fair` says what is left of liveness beside it:
  `Orphaned`, or the trainer finishes.
- A stop between the renames of sidecar and .slog (scheduler.py:265) leaves a
  sidecar whose .slog the policy_set trainer asks for (policy_set/dataset.py:40-42),
  where the code says "nothing reads [it] without its .slog". `WindowWhole` of
  `DataHome` speaks of chunks with their .slog.
- A stop between the move that fills the held-out set and its completion
  (scheduler.py:302) lets one chunk more in, where the docstring has it take
  "the first `holdout_chunks` such chunks": `HeldOutBounded` allows one per stop.
- Held-out chunks are moved unread (scheduler.py:299): a damaged one joins the
  set, and the count that completes the set then raises, which ends the home's
  thread (`HomeFailed`). `DamagedNeverAssigned` therefore speaks of the
  generations only; `home_stops` has such a chunk.

*An ssh slot.*

- A count of zero made by a pull before an outage is recorded after it
  (`Collect` follows `Observed`'s `ForgetEmpty`), which `_forget_empty`'s
  docstring (workers.py:296-305) excludes. The sweep before a replacement saves
  the files all the same, so `OutputKept` holds.
- A Start that finds the old container's exit 0 notes the slot finished and
  pauses it again; the operator has to press it twice.
- Losing the link between `docker create` and `docker start` leaves a container
  whose exit code reads 0: a trainer that never ran may be noted finished, or be
  started without its payload, and then crashes. `Converges` counts the former
  as what the record wants. With its trainer, such a tag's match slot is finished
  as well; `MatchDispatch` has trainers that ran.
- A pass looks the slot up and evaluates its intent on the event loop
  (workers.py:2186, 2211-2213), and only then queues the step that enforces it. A command
  already in the executor's queue runs in between: a Pause may be followed by
  one start of the container, which the next pass stops, and a slot removed just
  then, wanted and with no container, may be given one that nobody tracks. In
  `SshSlot` the step itself reads the slot and its intent.
- A create refused because the name is taken has noted the new bundle already:
  the record names a bundle the container does not run until the next pass.

*Moving homes.*

- A sweep that runs while the transfer thread installs a pair or unlinks relayed
  chunks (`Overlap`) may put the cursor ahead of the weights or delete what was
  just swept; the runs have `Overlap = FALSE`. The window is between two renames.
- A dashboard crash between the removal of a pair there and its installation
  here loses that pair; `StateArrives` allows for it when it was the last.
- A placement whose seed could not be pushed leaves a trainer that waits for it
  (and gives up after 600 s): `StateArrives` allows for it.
- With a lost home goes its ledger: a chunk relayed again into the next one may
  be assigned twice. `ChunkOnce` excepts exactly those (`forgotten`).

*Match evaluation.*

- `match_every_generations` 0 disables matches (`Every = 0`), and the slot of
  such a tag is finished with the training.
- A quarantined generation's .bad file never goes away, so each later mark of it
  counts as spent at once: a second, good result may still be in transit while
  the generation is offered again. `NoReplayInTransit` excepts generations once
  quarantined.
- A collection takes an export as soon as it is written, and the delivery thread
  asserts a little later that it is still there (cloud/sinks.py:119, called from
  position_eval/trainer.py:207). If the collection is first, the thread ends,
  the runner crashes at its next submission or at its end and resumes past that
  generation, whose pair and record never come. `SendFails` is that race; exports
  and matches survive it. In `HomeMoves` it is one of the ways the trainer
  crashes, which `StateArrives` names.
- The clause of `_outstanding` that compares exports with the cursor
  (dispatch.py:225-227) never decides in the model: a listing is sorted, so an
  export comes before its pair. It is kept as the code has it.

## 5. Fairness

*TagQueue.* A pass is scheduled periodically and its steps follow each other on
one thread: WF on `Tick`. Drain and build threads run what is submitted: WF.
Each pass visits every slot, but between visits the writer is busy, which
disables the visit: SF on starting, stopping and noting exits. A worker ends
by itself: WF. Nothing is assumed of operators, faults or the provider. The
liveness properties hold unless the dashboard restarts for ever: each restart
forgets the drains and builds in flight. `RestartsForever` excludes the crashes
that coincide with the end of a quiet pass, which change nothing.

*DataHome.* Both threads run (WF on the whole `Scheduler` and `Trainer`), a
stopped runner is started again (`Resume`, a part of `Trainer`: the reconcile
pass respawns it), the controller pulls, and generators deliver while the gate
is open, the only time they run. Deliveries are WF on their conjunction with
the gate: a parked generator that never resumes is thereby a counterexample,
which the mutant `TickEndsParked` confirms. `home_fair` sets `OpenAhead` to 0,
where parking happens at every generation, and has as many whole chunks as
generations and stops, since a stop may lose one, and a damaged one beside.

*SshSlot.* Passes come periodically and go on (WF per pass), observations age,
a transfer goes on or fails, an outage ends (WF). A pass may leave a stopped
container alone while its restart backs off; SF on giving up, restarting,
replacing and creating says that the backoff ends and that not every pass
falls within it. Workers need not produce or finish, and commands and faults
are bounded, so `Converges` says what happens after the last of them.

*HomeMoves.* WF on each step of the trainer and scheduler, on the transfer
thread, and on the blocking thread's restart, finish, placement and removal: a
removed trainer is placed again. The operator need not pause, replace or remove.

*MatchDispatch.* WF on the tick, the collection, the container's start and the
worker: each is polled for ever. WF on the training: the trainer goes on to its
last row, its delivery thread to the end of its queue, and what it delivered is
collected or swept. `Faults` are bounded.

## 6. What is proved

`tlapm` checks every step; nothing is assumed but the constants' assumptions
(`SizesAssumption`, `PoolAssumption`, `NullAssumption`, `ChunkAssumption`,
`SizeAssumption`, `SlotAssumption`, `MovesAssumption`, `MatchAssumption`, which
TLC evaluates on every run), and the library's theorems on well-foundedness,
sequences and finite sets.

**MatchPathsProofs**, for every queue, number of machines and eligibility
relation: `SearchInvariant`, and from it `QueueOrderServed`, `NoneIdles` and
`PlacementNeverLost`. A search is correct because of what holds halfway through
it, so `SearchInv` is about the stack: the calls follow a path of distinct
machines, each held by the next call's entry (`Path`, `FromNext`); while a path
is being rewritten the holders are a matching but for the machine about to be
claimed, whose holder has another (`Matching`), hence nobody's place is lost; and
until a machine is found, each machine tried is held by an entry that is still
trying or has tried everything that fits it (`Explored`). When the first call
fails, the new entry and the holders of the machines tried are one entry more
than the machines that fit any of them, so by the pigeonhole principle they
cannot all be served (`TooManyEntries`, `SearchFails`); this is also why one
`seen` set may serve a whole search. `QueueOrdered` keeps the verdict on every
entry decided so far. `ServedIs` shows that the recursive function `Served`
computes that set: the function of its prefixes solves the equation, so the
equation has a solution, and the least place where another one differed is
refuted. `SearchInv` was checked by TLC on five sizes up to 4 entries and 3
machines (119992 states).

**TagQueueProofs**, for all sets of tags, machines and roles, all commands and
faults: `TypeCorrect`, `PlacementInvariant`, and from it `NeverPlacedTwice`,
`NeverQueuedTwice`, `NeverQueuedAndPlaced`. `OneLeasePerTag` is not inductive:
a rental is leased before its entry leaves the queue, a restart there leaves a
tag that is queued and leased, and only `tick`'s first steps take the entry out.
So `PlacementInv` relates what is doubly known to where the writer is
(`StaleEntriesGone`), says that a queued tag has no slots (so that a release or
a lost rental may queue it again), that a tag in the writer's hands is nowhere
else (`LostTagOut`), and that plans and half-made slots are still true when
used (`PlannedPooled`, `AddedThere`). One lemma per group of actions shows each part
preserved.

**TagQueueSlotProofs**, about the same `Spec`: `SlotsInvariant`,
`RequeuedFirst`, `SlotsHaveLease`, `OneTagPerMachine`, `DrainsStayTrue`,
`ReleasesDiscardNothing`. `SlotsInv`, which the run `rentals` checks, adds to
`PlacementInv` where a slot may be (`SlotsWhole`, `SlotsAtLease`: on its tag's
machine while there is a lease), what the writer carries from one commit to a
later one (`PlanFree`, `EntriesExist`: what is about to be placed still has its
task, its machine is still free; `RentalReserved`, `StartingReserved`: what is
being rented or started is still reserved), and `RequeueReleases`. A lease
behind every slot (`SlotsUnderLease`) and hence one tag's workers on a machine
(`OneTagAlive`) follow where a capacity entry in use is not removed
(`NoneDropped`), as removing it drops rentals that slots may stand on already.
For drains, `Unwanted` says that no slot of a held or releasing tag is wanted,
and `DrainedSoFar` that the slots a drain is done with are down and empty, while
it runs and until a pass reads its result; a slot becomes
wanted only as its tag is placed or by the operator (`BecomesWanted`), which is
why `DrainsStayTrue` and `ReleasesDiscardNothing` assume that the operator
starts no slot of a held or releasing tag (`NoneRestarted`).

**TagQueueLifeProofs**: `LeaseEndsWithCause`, `NoTagForgotten` and the
refinement `QueueImplementsLifecycle`. `LeaseChangesBy` and `LeaseEndsBy` reduce
the program's steps to what they do to a lease; the lemmas `FreeStep`,
`PhaseStep`, `BeginStep` and `EndStep` map each kind to a step of `TagLifecycle`
or a stutter. `RunningWhole` (a running lease has its whole layout) is what
makes an end a cause, and holds unless the operator removes slots of a leased
tag (`NoneRemoved`), or a restart falls between the three commits of
`_lose_rental`. That takes a lost instance and a restart: `LossesWhole` excludes
one of the two, and `LossSeen` says what follows where no instance is lost.

The four hypotheses `NoneDropped`, `NoneRestarted`, `NoneRemoved`, `LossesWhole`
restrict the constants `Operator` and `Faults`, not the states: without each, TLC
finds the scenario named beside it violating the property (Known gaps), and the
runs check the properties on instances that meet them.

**DataHomeProofs**, for all sets of chunks, sizes, windows and numbers of
stops: `TypeCorrect`, `DataHomeInvariant`, `ChunkUsedOnce`,
`OneGenerationOpen`, `GeneratorsPaced`, `CompletionIsFinal`. `ChunkOnce` needs
`Ledgered`: all that is or was in a directory is in the ledger, nothing to be
assigned is, and the chunk being moved is in no directory; redelivery then
only makes duplicates. `OneOpen` needs `Structure`: a manifest implies its
directory, which `_next_index` numbers past, and what is being opened has no
manifest yet although the trainer evicts at the same time. `PacedAhead` needs
`CursorsOrdered`: the copy of the cursor the scheduler paces by is never ahead
of the published one, nor that one of the checkpoint a stop falls back to.
`TrainerKnows` says which of the trainer's stages exclude which others. The
types rest on `MinDef` and `MaxDef`: the least open generation and the next
index are generations, from well-foundedness of the naturals.

From `HomeInv`, which `HomeInvariant` shows inductive on top of `DataHomeInv`,
follow `LossBounded`, `DamagedKeptOut`, `WindowsWhole` and `HeldOutSetBounded`,
and the refinement `HomeImplementsFlow`. It accounts for every chunk delivered
(staged, quarantined, in a directory, evicted, in a move, or lost to a counted
stop), says that a generation never holds more than its count, a complete one
all of it, and each chunk there its sidecar, that the published cursor is at
most one behind the checkpoint's, and that everything behind it is complete or
was evicted from behind the window: what a resumed trainer asks for is there. The held-out bound
assumes that `holdout_chunks` is not 0 or nothing is held out; the code takes a
first held-out chunk before it counts. In `HomeImplementsFlow` a stop is the
abstract step that drops the chunk of the move it cut short.

**SshSlotProofs**, for all numbers of files, bundles, commands and failures,
any set of overlapping passes and any batch: `SlotInvariant`, and from it
`OutputNeverLost`, `ObservationsCurrent`, `FinishedDelivered`. `OutputKept`
needs `PulledIsHome` (what a pull is about to delete there is here, although
the container may be replaced or swept between its list, copy and delete) and
`GoneHoldsNothing`. `ProbeCurrent` is inductive: each command that changes the
container forgets the observation in the same step. `FinishedIsHome` needs
`FinishedIsOver`: a slot noted finished, in memory or on disk, is not wanted
running, so that nothing starts it but a Start, which unnotes it; and a trainer
that exited 0, or is noted finished, makes no more output.

**HomeMovesProofs**, for all numbers of chunks, generations, pauses and faults,
any target, window and pace, where no sweep meets a half-installed pair
(`~Overlap`, as in the runs): `MovesInvariant`, and from it `CursorRule`,
`NeverGoesBack`, `AckedSafe`, `AssignedOnceOnly`, and further `KeptInvariant`,
`ChunkNeverLost` and `ResumesWhole`. The invariant `MovesInv` adds to
these properties what they rest on. `CursorBehindWeights` needs `PairKnown` (an
installation between its two renames has put a checkpoint at least as new as the
cursor, which a sweep in between could undo, hence `~Overlap`) and `TrainerKnows`
(the trainer saves before it publishes and does neither before it resumed).
`AckedIsHere` needs `AckedComplete`: a generation is copied, acknowledged and from
then on neither filled nor opened again (`NextIndexNew`), and the trim here takes
only what is more than the window behind the cursor (`TrimLemma`, by counting).
`ChunkOnce` needs `Ledgered`: a placed home's ledger contains the one here, so a
chunk that is assigned was in none; a swept home's contains nothing else, so its
volume may go. `StagesKnown` says how far a removal or placement has got.

`ChunkKept` and `WindowWhole` speak of two trees, of which either may be missing
the other's files at any time, so their invariant `KeptInv` follows each thing
from place to place. What a generation holds was assigned to it, on both sides
(`Traced`). Each generation here that a resumed home could read is at a placed
home as well, at least as far along, unless the home evicted it behind its own
window (`Followed`). A chunk in a ledger is in a generation or one the cursor here
has passed (`LedgerKept`), and one in the ledger here is so here.
Steps that delete are safe because of what was done before: a staging copy here
is dropped only for a chunk in the home's ledger, a relayed chunk is unlinked
only once it is staged or kept there (`RelayedKept`), and a volume is removed only
after the sweep took what had no copy (`SweptSoFar`); a volume lost without a
sweep is what `forgotten` and the properties except. For windows, each pair in
existence (the trainer's, the undelivered ones, those being installed, seeds,
both trees') has its window complete at the home or here (`WindowSomewhere`),
and a home that is seeded or has a checkpoint has it there (`WindowAtHome`): a
trainer reads only its volume. TLC checked each part of `KeptInv` as an
invariant of four instances (two with two faults or a deeper pace, no window,
two chunks per generation) before it was proved. `Overlap` stays excluded: a
sweep during a half-made installation may break the cursor rule (Known gaps).

**MatchDispatchProofs**, for any number of generations and faults and any
cadence: `TypeCorrect`, `FinishedIsMatched`, `MarkKeepsResult`,
`NothingInTransitAssigned`. They follow from `LedgerInv`, which says where a
generation with a result is known: one whose result waits in the container is in
the inbox, marked or settled; one whose result waits here while a tick runs and
the container is up is so too, or among the files the tick listed. What the tick
is about to unlink is recorded; what it is about to put is not, and is none of its
files; what it clears is settled; and a container it found idle has nothing in its
inbox and no mark but those it clears. `FinishedIsMatched` needs the training side
as well, `DeliveryInv`: every generation saved has its export here or in the
`outbox`, whatever deliveries were dropped; what is in the outbox is not behind
the cursor here; and a trainer is noted finished only with all generations made
and the outbox empty, which the last sweep sees to. When the tick then finds
nothing pending, all exports that are due have rows, and the exports are all there
are (`NothingOutstanding`).

Only model-checked: the liveness properties `ReleaseEnds`, `QueuedRuns`,
`TrainerFinishesUnlessOrphaned`, `Converges`, `StateArrives` and
`AllMatched`, which rest on fairness and hence on ENABLED, outside the
prover's reach; and the two properties the code violates. Every other property
the runs check is a theorem, some under the hypotheses named above.

## 7. What is not modelled

*In TagQueue*: warnings and refusal texts, spend, spot prices, host moves,
task-owned machines, several capacity entries, bundle contents; an instance
whose machine has no record, which `in_use` counts by its owner tag.

*In SshSlot*: local slots (TagQueue's workers stand for them), several slots on
one machine, archives and rate limits of a transfer, `train_ingest`'s reading of
what arrives, an install by check and rename that races a sweep of the same
file (both install the same bytes); a transfer thread that goes on after its slot
was removed (workers.py:976-979): it finds no container, or, the slot's name
being given again meanwhile, moves a file it had listed that is not in the new
one.

*In DataHome*: how many games a chunk holds (one unit), `update_committed`
(display only, recomputed every tick), the epoch, evaluation and delivery of
results; a failing rmtree (`ignore_errors`); the mkdir and manifest of the
held-out set are one action, because the next held-out chunk writes the manifest
again whichever of the two a stop falls before; the tree lock, since one
runner lives at a time (the controller respawns a runner it has seen dead);
`wait_for_generation`'s polling, which is the enabledness of `TrainGeneration`.

*In HomeMoves*: the held-out set, which is relayed and swept along the same path;
generators on the home's own machine, whose chunks need no relay; what a
checkpoint holds; a crash between the two renames of an installation (an older
pair of an equal cursor may then win); heartbeats and the gate.

*In MatchDispatch*: step graph and sidecars, which precede the model into the
inbox; a local match slot, which is the same without links; a full delivery queue
(`MAX_PENDING_DELIVERIES`, 2), on which the trainer waits: the run has no more than
2 queued, the proof allows any number.

*Elsewhere*: PROJECT.json's "components" gives the reason for each part left
out: the C++ engine, agents and inference, numerics, statistics and viewers,
bundle builds, HTTP, the shadow database.
