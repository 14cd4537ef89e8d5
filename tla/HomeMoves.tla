----------------------------- MODULE HomeMoves -----------------------------
(***************************************************************************)
(* A generational tag whose data home is on an ssh machine, as the home is *)
(* placed, fed, copied, replaced in place, moved and lost                  *)
(* (dashboard/workers.py, cloud/ssh_transfer.py,                           *)
(* generational/state_pair.py).  The tag's data is in two places: the tree *)
(* here, on the controller, and the volume on the home's machine.  The     *)
(* trainer's state travels as pairs (checkpoint and cursor) under the      *)
(* cursor rule, chunks are relayed there, generations are copied here, and *)
(* a removal sweeps the rest here before the volume goes.                  *)
(*                                                                         *)
(* Three actors: the trainer's container, the slot's transfer thread, and  *)
(* the controller's blocking thread, on which the operator's commands and  *)
(* reconciliation run.  DataHome models what the home's scheduler does     *)
(* inside the volume file by file; here each of its passes over one chunk  *)
(* is a step.                                                              *)
(***************************************************************************)
EXTENDS Integers, FiniteSetsExt

CONSTANTS
  MaxChunks,  \* chunks the generators deliver, named in the order of delivery
  Target,     \* chunks that fill a generation
  OpenAhead,  \* open_ahead
  Window,     \* the trainer's window; 0 keeps every generation
  Last,       \* generations the trainer trains
  Faults,     \* the faults that happen
  Overlap,    \* whether a sweep may run while the transfer thread installs a pair
  MaxPauses,  \* the operator's pauses of the trainer
  MaxFaults   \* faults

ASSUME MovesAssumption ==
  /\ Target \in Nat \ {0}
  /\ {MaxChunks, OpenAhead, Window, Last, MaxPauses, MaxFaults} \subseteq Nat
  /\ Faults \subseteq {"link", "crash", "dashboard", "lost"}
  /\ Overlap \in BOOLEAN

VARIABLES
  here,      \* the tag's tree on the controller
  vol,       \* the home's volume
  box,       \* the trainer's container, and whether it was told of a seed
  trainer,   \* the process in it: where it is, its generation_index, the pairs its
             \* delivery thread holds, and whether that has pushed the first
  transfer,  \* the slot's transfer thread
  op,        \* the blocking thread's removal or placement
  sent,      \* the chunks delivered
  pauses,    \* how often the operator paused the trainer
  faults,    \* how many faults have struck
  \* History, read by no action that models code.
  into,      \* which chunk was assigned to which generation
  lost,      \* the chunks that went with an unswept volume
  forgotten, \* those in its ledger and not in the one here
  unswept,   \* the generations complete there and not here
  struck     \* the kinds of trouble met

history == <<into, lost, forgotten, unswept, struck>>
vars == <<here, vol, box, trainer, transfer, op, sent, pauses, faults, history>>

Chunks == 1 .. MaxChunks
Gens == 0 .. Last + OpenAhead
Rows == 0 .. Last  \* generations trained stand for the rows; 0: no checkpoint

NoGen == [status |-> "none", chunks |-> {}]
NoSeed == [model |-> 0, cursor |-> 0]

\* A tree with nothing in it.
Empty == [staging |-> {}, gens |-> [g \in Gens |-> NoGen], ledger |-> {},
          model |-> 0, cursor |-> 0]

\* A volume adds the acknowledged generations, the delivered pairs, each named
\* by its rows, and the seed pushed.
EmptyVolume == [staging |-> {}, gens |-> [g \in Gens |-> NoGen], ledger |-> {},
                model |-> 0, cursor |-> 0, acked |-> {}, out |-> {}, seed |-> NoSeed]

Off == [at |-> "off", index |-> 0, queue |-> {}, pushed |-> FALSE]
Resting == [at |-> "idle", pairs |-> {}, chunks |-> {}, gen |-> 0]

-----------------------------------------------------------------------------
\* Views of a tree.

Present(tree) == {g \in Gens : tree.gens[g].status # "none"}
Complete(tree) == {g \in Gens : tree.gens[g].status = "complete"}
Opened(tree) == {g \in Gens : tree.gens[g].status = "generating"}
ChunksIn(tree) == tree.staging \cup UNION {tree.gens[g].chunks : g \in Gens}

\* evict_beyond_window's choice: complete generations up to `latest` past the
\* most recent `Window` of them.
Evictable(tree, latest) ==
  LET complete == {g \in Complete(tree) : g <= latest}
  IN IF Window = 0 THEN {}
     ELSE {g \in complete : Cardinality({h \in complete : h > g}) >= Window}

Drop(tree, gone) == [tree EXCEPT !.gens = [g \in Gens |-> IF g \in gone THEN NoGen ELSE @[g]]]

\* Mutant: a pair older than what is installed is taken.
BeatsAny(tree, cursor) == TRUE

\* The cursor rule (installed_rows, install).
Beats(tree, cursor) == tree.model = 0 \/ cursor >= tree.cursor

\* install, whole, oldest pair first: what a sweep does.
Install(tree, pairs) ==
  LET winners == {n \in pairs : Beats(tree, n)}
  IN IF winners = {} THEN tree
     ELSE [tree EXCEPT !.model = Max(winners), !.cursor = Max(winners)]

-----------------------------------------------------------------------------
\* Generators elsewhere: their chunks are collected into the staging here.

Deliver ==
  /\ sent # Chunks
  /\ LET c == Min(Chunks \ sent)
     IN /\ sent' = sent \cup {c}
        /\ here' = [here EXCEPT !.staging = @ \cup {c}]
  /\ UNCHANGED <<vol, box, trainer, transfer, op, pauses, faults, history>>

-----------------------------------------------------------------------------
\* The home: its scheduler and its trainer.

Working == box.state = "running" /\ trainer.at = "work"

\* _next_index, and the limit that parks the generators.
NextIndex == Max({vol.cursor} \cup {g + 1 : g \in Present(vol)})

Open ==
  /\ Working
  /\ Opened(vol) = {}
  /\ NextIndex <= vol.cursor + OpenAhead
  /\ NextIndex \in Gens
  /\ vol' = [vol EXCEPT !.gens[NextIndex].status = "generating"]
  /\ UNCHANGED <<here, box, trainer, transfer, op, sent, pauses, faults, history>>

\* The oldest staged chunk is dropped when the ledger has it; else it goes into
\* the open generation, which is complete once full.
Assign ==
  /\ Working
  /\ vol.staging # {}
  /\ LET c == Min(vol.staging) IN
       \/ /\ c \in vol.ledger
          /\ vol' = [vol EXCEPT !.staging = @ \ {c}]
          /\ into' = into
       \/ /\ c \notin vol.ledger
          /\ \E g \in Opened(vol) :
               LET filled == vol.gens[g].chunks \cup {c}
               IN /\ vol' = [vol EXCEPT
                       !.staging = @ \ {c}, !.ledger = @ \cup {c},
                       !.gens[g] = [status |-> IF Cardinality(filled) >= Target
                                               THEN "complete" ELSE "generating",
                                    chunks |-> filled]]
                  /\ into' = into \cup {<<c, g>>}
  /\ UNCHANGED <<here, box, trainer, transfer, op, sent, pauses, faults, lost,
                 forgotten, unswept, struck>>

\* _awaiting_seed: a trainer told of a seed starts with nothing only once it is
\* there.
AwaitsSeed == box.seeded /\ vol.model = 0 /\ vol.seed = NoSeed

\* install_seed under the cursor rule, then resume, which publishes the
\* checkpoint's cursor.
TakeSeed ==
  /\ box.state = "running"
  /\ trainer.at = "seed"
  /\ ~AwaitsSeed
  /\ LET model == IF vol.seed # NoSeed /\ Beats(vol, vol.seed.cursor)
                  THEN vol.seed.model ELSE vol.model
     IN /\ vol' = [vol EXCEPT !.model = model, !.cursor = model, !.seed = NoSeed]
        /\ trainer' = [Off EXCEPT !.at = "work", !.index = model]
  /\ UNCHANGED <<here, box, transfer, op, sent, pauses, faults, history>>

\* train_one_generation, up to the checkpoint.
Train ==
  /\ Working
  /\ trainer.index < Last
  /\ vol.gens[trainer.index].status = "complete"
  /\ trainer' = [trainer EXCEPT !.at = "publish", !.index = @ + 1]
  /\ vol' = [vol EXCEPT !.model = trainer.index + 1]
  /\ UNCHANGED <<here, box, transfer, op, sent, pauses, faults, history>>

\* The cursor, then the pair's snapshots handed to the delivery thread.
Publish ==
  /\ box.state = "running"
  /\ trainer.at = "publish"
  /\ vol' = [vol EXCEPT !.cursor = trainer.index]
  /\ trainer' = [trainer EXCEPT !.at = "evict", !.queue = @ \cup {trainer.index}]
  /\ UNCHANGED <<here, box, transfer, op, sent, pauses, faults, history>>

\* Mutant: a remote home does not wait for the acknowledgement.
EvictsUnpulled == Evictable(vol, trainer.index - 1)

\* keep_unpulled
EvictedAtHome == Evictable(vol, trainer.index - 1) \cap vol.acked

EvictAtHome ==
  /\ box.state = "running"
  /\ trainer.at = "evict"
  /\ trainer' = [trainer EXCEPT !.at = "work"]
  /\ vol' = [Drop(vol, EvictedAtHome) EXCEPT !.acked = @ \ EvictedAtHome]
  /\ UNCHANGED <<here, box, transfer, op, sent, pauses, faults, history>>

\* state_pair.deliver on the delivery thread: the pair, then the older ones go.
PushPair ==
  /\ box.state = "running"
  /\ trainer.queue # {} /\ ~trainer.pushed
  /\ vol' = [vol EXCEPT !.out = @ \cup {Min(trainer.queue)}]
  /\ trainer' = [trainer EXCEPT !.pushed = TRUE]
  /\ UNCHANGED <<here, box, transfer, op, sent, pauses, faults, history>>

DropOlder ==
  /\ box.state = "running"
  /\ trainer.pushed
  /\ vol' = [vol EXCEPT !.out = {m \in @ : m >= Min(trainer.queue)}]
  /\ trainer' = [trainer EXCEPT !.pushed = FALSE, !.queue = @ \ {Min(trainer.queue)}]
  /\ UNCHANGED <<here, box, transfer, op, sent, pauses, faults, history>>

\* drain: everything queued is delivered.
Drained ==
  IF trainer.queue = {} THEN vol
  ELSE [vol EXCEPT !.out = {m \in @ \cup trainer.queue : m >= Max(trainer.queue)}]

\* At max_rows the runner drains and exits 0.
Exit ==
  /\ Working
  /\ trainer.index = Last
  /\ vol' = Drained
  /\ trainer' = Off
  /\ box' = [box EXCEPT !.state = "exited"]
  /\ UNCHANGED <<here, transfer, op, sent, pauses, faults, history>>

-----------------------------------------------------------------------------
\* The transfer thread (_transfer_ssh): pairs, chunks, generations.

Goes(stage) == transfer' = [Resting EXCEPT !.at = stage]

\* The pull extracts the pairs ...
PullPairs ==
  /\ transfer.at = "idle"
  /\ box.state = "running"
  /\ transfer' = [Resting EXCEPT !.at = IF vol.out = {} THEN "relay" ELSE "remove",
                                 !.pairs = vol.out]
  /\ UNCHANGED <<here, vol, box, trainer, op, sent, pauses, faults, history>>

\* ... removes them there ...
RemovePulled ==
  /\ transfer.at = "remove"
  /\ box.state = "running"
  /\ vol' = [vol EXCEPT !.out = @ \ transfer.pairs]
  /\ transfer' = [transfer EXCEPT !.at = "install"]
  /\ UNCHANGED <<here, box, trainer, op, sent, pauses, faults, history>>

\* ... and installs them, oldest first: the checkpoint, then the cursor.
InstallModel ==
  /\ transfer.at = "install"
  /\ transfer.pairs # {}
  /\ LET n == Min(transfer.pairs) IN
       \/ /\ Beats(here, n)
          /\ here' = [here EXCEPT !.model = n]
          /\ transfer' = [transfer EXCEPT !.at = "cursor"]
       \/ /\ ~Beats(here, n)
          /\ transfer' = [transfer EXCEPT !.pairs = @ \ {n}]
          /\ here' = here
  /\ UNCHANGED <<vol, box, trainer, op, sent, pauses, faults, history>>

InstallCursor ==
  /\ transfer.at = "cursor"
  /\ LET n == Min(transfer.pairs)
     IN /\ here' = [here EXCEPT !.cursor = n]
        /\ transfer' = [transfer EXCEPT !.at = "install", !.pairs = @ \ {n}]
  /\ UNCHANGED <<vol, box, trainer, op, sent, pauses, faults, history>>

Installed ==
  /\ transfer.at = "install"
  /\ transfer.pairs = {}
  /\ Goes("relay")
  /\ UNCHANGED <<here, vol, box, trainer, op, sent, pauses, faults, history>>

\* relay_files: the staged chunks go there, and here only then.
Relay ==
  /\ transfer.at = "relay"
  /\ \/ /\ here.staging = {}
        /\ Goes("copy")
        /\ vol' = vol
     \/ /\ here.staging # {}
        /\ box.state = "running"
        /\ vol' = [vol EXCEPT !.staging = @ \cup here.staging]
        /\ transfer' = [Resting EXCEPT !.at = "unlink", !.chunks = here.staging]
  /\ UNCHANGED <<here, box, trainer, op, sent, pauses, faults, history>>

Unlink ==
  /\ transfer.at = "unlink"
  /\ here' = [here EXCEPT !.staging = @ \ transfer.chunks]
  /\ Goes("copy")
  /\ UNCHANGED <<vol, box, trainer, op, sent, pauses, faults, history>>

\* _pull_generations copies complete, unacknowledged generations, oldest first.
CopyGeneration ==
  /\ transfer.at = "copy"
  /\ box.state = "running"
  /\ LET ready == Complete(vol) \ vol.acked IN
       \/ /\ ready = {}
          /\ Goes("trim")
          /\ here' = here
       \/ /\ ready # {}
          /\ here' = [here EXCEPT !.gens[Min(ready)] = vol.gens[Min(ready)]]
          /\ transfer' = [Resting EXCEPT !.at = "ack", !.gen = Min(ready)]
  /\ UNCHANGED <<vol, box, trainer, op, sent, pauses, faults, history>>

Acknowledge ==
  /\ transfer.at = "ack"
  /\ box.state = "running"
  /\ vol' = [vol EXCEPT !.acked = @ \cup {transfer.gen}]
  /\ Goes("trim")
  /\ UNCHANGED <<here, box, trainer, op, sent, pauses, faults, history>>

\* Mutant: the generation at the cursor's window edge goes too.
TrimsOneMore == Evictable(here, here.cursor)

TrimmedHere == Evictable(here, here.cursor - 1)

Trim ==
  /\ transfer.at = "trim"
  /\ here' = Drop(here, TrimmedHere)
  /\ Goes("idle")
  /\ UNCHANGED <<vol, box, trainer, op, sent, pauses, faults, history>>

\* A remote command fails: the pull ends, with what was extracted still there;
\* a failed relay does not stop the copying.
Abandoned == IF transfer.at = "relay" THEN [Resting EXCEPT !.at = "copy"] ELSE Resting
Remote ==
  \/ transfer.at \in {"remove", "copy", "ack"}
  \/ transfer.at = "relay" /\ here.staging # {}

CutShort ==
  /\ Remote
  /\ box.state # "running"
  /\ transfer' = Abandoned
  /\ UNCHANGED <<here, vol, box, trainer, op, sent, pauses, faults, history>>

-----------------------------------------------------------------------------
\* The blocking thread: what reconciliation does with the container.

Free == op = "idle"

\* Whether the blocking thread may change the tree here: the transfer thread
\* runs beside it, and may be between two changes of its own.
MayTouch == Overlap \/ transfer.at \notin {"install", "cursor", "unlink"}

\* Reconcile starts a container that stopped; an operator's Start a paused one.
Restart ==
  /\ Free
  /\ box.state = "stopped"
  /\ box' = [box EXCEPT !.state = "running"]
  /\ trainer' = [Off EXCEPT !.at = "seed"]
  /\ UNCHANGED <<here, vol, transfer, op, sent, pauses, faults, history>>

\* Mutant: the last flush of a trainer that exited 0 is not swept.
NoFlush == here

Flushed == Install(here, vol.out)

\* _final_flush_collected, then _note_finished.
Finish ==
  /\ Free
  /\ MayTouch
  /\ box.state = "exited"
  /\ here' = Flushed
  /\ box' = [box EXCEPT !.state = "finished"]
  /\ UNCHANGED <<vol, trainer, transfer, op, sent, pauses, faults, history>>

\* The last generation's pair, saved and not yet handed to the delivery thread,
\* is not delivered by the restarted trainer, which has nothing left to train.
CutOff == IF trainer.at = "publish" /\ trainer.index = Last THEN {"cut"} ELSE {}

\* The operator pauses the trainer, wherever it is: it drains and exits.
Pause ==
  /\ Free
  /\ box.state = "running"
  /\ pauses < MaxPauses
  /\ pauses' = pauses + 1
  /\ box' = [box EXCEPT !.state = "stopped"]
  /\ vol' = Drained
  /\ trainer' = Off
  /\ struck' = struck \cup CutOff
  /\ UNCHANGED <<here, transfer, op, sent, faults, into, lost, forgotten, unswept>>

\* _start_or_replace: a stopped container is swept of its pairs and removed;
\* the volume stays.
Replace ==
  /\ Free
  /\ MayTouch
  /\ box.state = "stopped"
  /\ here' = Flushed
  /\ box' = [box EXCEPT !.state = "missing"]
  /\ UNCHANGED <<vol, trainer, transfer, op, sent, pauses, faults, history>>

-----------------------------------------------------------------------------
\* A home is placed (_run_ssh_container).

\* Mutant: only generations from the cursor on are seeded.
SeededFromCursor == {g \in Present(here) : g >= here.cursor}

\* _seed_home's indices: the window behind the cursor, and everything after.
Seeded == {g \in Present(here) : Window = 0 \/ g >= here.cursor - Window}

\* Mutant: the ledger is not seeded.
LedgerOfVolume == vol.ledger

SeededLedger == vol.ledger \cup here.ledger

\* Only where the volume lacks it; complete ones arrive acknowledged.
SeedVolume ==
  /\ Free
  /\ box.state \in {"none", "missing"}
  /\ LET fresh == {g \in Seeded : vol.gens[g].status = "none"}
     IN vol' = [vol EXCEPT !.gens = [g \in Gens |-> IF g \in fresh THEN here.gens[g] ELSE @[g]],
                           !.acked = @ \cup (fresh \cap Complete(here)),
                           !.ledger = SeededLedger]
  /\ box' = [state |-> "missing", seeded |-> here.model > 0]
  /\ op' = "create"
  /\ UNCHANGED <<here, trainer, transfer, sent, pauses, faults, history>>

Create ==
  /\ op = "create"
  /\ box' = [box EXCEPT !.state = "stopped"]
  /\ op' = "start"
  /\ UNCHANGED <<here, vol, trainer, transfer, sent, pauses, faults, history>>

Start ==
  /\ op = "start"
  /\ box' = [box EXCEPT !.state = "running"]
  /\ trainer' = [Off EXCEPT !.at = "seed"]
  /\ op' = IF box.seeded THEN "push" ELSE "idle"
  /\ UNCHANGED <<here, vol, transfer, sent, pauses, faults, history>>

\* _seed_state: the checkpoint, then the cursor, which marks the pair whole.
PushSeed ==
  /\ op = "push"
  /\ op' = "idle"
  /\ \/ /\ box.state = "running"
        /\ vol' = [vol EXCEPT !.seed = [model |-> here.model, cursor |-> here.cursor]]
        /\ struck' = struck
     \/ /\ box.state # "running"
        /\ vol' = vol
        /\ struck' = struck \cup {"seed"}
  /\ UNCHANGED <<here, box, trainer, transfer, sent, pauses, faults, into, lost,
                 forgotten, unswept>>

-----------------------------------------------------------------------------
\* A home leaves (_remove_slot).

\* The transfer thread's commands name a machine the home has left.
Severed == IF Remote THEN Resting ELSE transfer

\* What goes with a volume that is not swept.
Loses ==
  LET kept == ChunksIn([here EXCEPT !.staging = @ \ transfer.chunks])
  IN /\ lost' = lost \cup (ChunksIn(vol) \ kept)
     /\ forgotten' = forgotten \cup (vol.ledger \ here.ledger)
     /\ unswept' = unswept \cup (Complete(vol) \ Complete(here))

Remove ==
  /\ Free
  /\ box.state \in {"stopped", "exited", "finished"}
  /\ op' = "pairs"
  /\ UNCHANGED <<here, vol, box, trainer, transfer, sent, pauses, faults, history>>

\* A replacement may leave no container (no bundle, no image): then nothing is
\* swept, and the volume goes.
RemoveMissing ==
  /\ Free
  /\ box.state = "missing"
  /\ box' = [state |-> "none", seeded |-> FALSE]
  /\ vol' = EmptyVolume
  /\ transfer' = Severed
  /\ struck' = struck \cup {"abandoned"}
  /\ Loses
  /\ UNCHANGED <<here, trainer, op, sent, pauses, faults, into>>

SweepPairs ==
  /\ op = "pairs"
  /\ MayTouch
  /\ here' = Flushed
  /\ op' = "generations"
  /\ UNCHANGED <<vol, box, trainer, transfer, sent, pauses, faults, history>>

\* sweep_dirs: each replaces the copy here.
SweptGen(g) == IF vol.gens[g].status = "none" THEN here.gens[g] ELSE vol.gens[g]

SweepGenerations ==
  /\ op = "generations"
  /\ MayTouch
  /\ here' = [here EXCEPT !.gens = [g \in Gens |-> SweptGen(g)]]
  /\ op' = "rest"
  /\ UNCHANGED <<vol, box, trainer, transfer, sent, pauses, faults, history>>

\* The chunks still staged, and the ledger.
SweepRest ==
  /\ op = "rest"
  /\ MayTouch
  /\ here' = [here EXCEPT !.staging = @ \cup vol.staging,
                          !.ledger = IF vol.ledger = {} THEN @ ELSE vol.ledger]
  /\ op' = "container"
  /\ UNCHANGED <<vol, box, trainer, transfer, sent, pauses, faults, history>>

RemoveContainer ==
  /\ op = "container"
  /\ box' = [box EXCEPT !.state = "missing"]
  /\ transfer' = Severed
  /\ op' = "volume"
  /\ UNCHANGED <<here, vol, trainer, sent, pauses, faults, history>>

RemoveVolume ==
  /\ op = "volume"
  /\ box' = [state |-> "none", seeded |-> FALSE]
  /\ vol' = EmptyVolume
  /\ op' = "idle"
  /\ UNCHANGED <<here, trainer, transfer, sent, pauses, faults, history>>

-----------------------------------------------------------------------------
\* What goes wrong.

Strikes(kind) ==
  /\ kind \in Faults
  /\ faults < MaxFaults
  /\ faults' = faults + 1

\* A placement cut short after its container exists leaves one that waits for a
\* seed nobody pushes again.
Unseeded == IF op \in {"start", "push"} /\ box.seeded THEN {"seed"} ELSE {}

\* The link fails under a remote command of the blocking thread.
CommandFails ==
  /\ Strikes("link")
  /\ ~Free
  /\ op' = "idle"
  /\ struck' = struck \cup Unseeded
  /\ UNCHANGED <<here, vol, box, trainer, transfer, sent, pauses, into, lost,
                 forgotten, unswept>>

\* Or of the transfer thread.
TransferFails ==
  /\ Strikes("link")
  /\ Remote
  /\ transfer' = Abandoned
  /\ UNCHANGED <<here, vol, box, trainer, op, sent, pauses, history>>

\* The trainer's process dies with what its delivery thread held.
Crash ==
  /\ Strikes("crash")
  /\ box.state = "running"
  /\ box' = [box EXCEPT !.state = "stopped"]
  /\ trainer' = Off
  /\ struck' = struck \cup {"crash"}
  /\ UNCHANGED <<here, vol, transfer, op, sent, pauses, into, lost, forgotten, unswept>>

\* The dashboard dies in the middle of a removal, a placement or a transfer.
DashboardCrash ==
  /\ Strikes("dashboard")
  /\ ~Free \/ transfer.at # "idle"
  /\ op' = "idle"
  /\ transfer' = Resting
  /\ struck' = struck \cup Unseeded \cup {"dashboard"}
  /\ UNCHANGED <<here, vol, box, trainer, sent, pauses, into, lost, forgotten, unswept>>

\* The instance goes with its disk, and its slot is removed (disk_lost).
LoseHome ==
  /\ Strikes("lost")
  /\ box.state # "none"
  /\ box' = [state |-> "none", seeded |-> FALSE]
  /\ vol' = EmptyVolume
  /\ trainer' = Off
  /\ transfer' = Severed
  /\ op' = "idle"
  /\ struck' = struck \cup {"lost"}
  /\ Loses
  /\ UNCHANGED <<here, sent, pauses, into>>

-----------------------------------------------------------------------------
Init ==
  /\ here = Empty
  /\ vol = EmptyVolume
  /\ box = [state |-> "none", seeded |-> FALSE]
  /\ trainer = Off
  /\ transfer = Resting
  /\ op = "idle"
  /\ sent = {}
  /\ pauses = 0 /\ faults = 0
  /\ into = {} /\ lost = {} /\ forgotten = {} /\ unswept = {} /\ struck = {}

Home ==
  \/ Open \/ Assign \/ TakeSeed \/ Train \/ Publish \/ EvictAtHome
  \/ PushPair \/ DropOlder \/ Exit

Transfer ==
  \/ PullPairs \/ RemovePulled \/ InstallModel \/ InstallCursor \/ Installed
  \/ Relay \/ Unlink \/ CopyGeneration \/ Acknowledge \/ Trim \/ CutShort

Placement == SeedVolume \/ Create \/ Start \/ PushSeed

Removal ==
  SweepPairs \/ SweepGenerations \/ SweepRest \/ RemoveContainer \/ RemoveVolume

Operator == Pause \/ Replace \/ Remove \/ RemoveMissing

Fault == CommandFails \/ TransferFails \/ Crash \/ DashboardCrash \/ LoseHome

Next ==
  \/ Deliver \/ Home \/ Transfer \/ Restart \/ Finish \/ Placement \/ Removal
  \/ Operator \/ Fault

Spec == Init /\ [][Next]_vars
=============================================================================
