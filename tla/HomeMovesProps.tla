--------------------------- MODULE HomeMovesProps ---------------------------
(* What holds of a tag's data while its home is placed, moved and lost.      *)
EXTENDS HomeMoves

GenSort == [status : {"none", "generating", "complete"}, chunks : SUBSET Chunks]

\* The sorts of the variables.
TypeOK ==
  /\ here \in [staging : SUBSET Chunks, gens : [Gens -> GenSort], ledger : SUBSET Chunks,
               model : Rows, cursor : Rows]
  /\ vol \in [staging : SUBSET Chunks, gens : [Gens -> GenSort], ledger : SUBSET Chunks,
              model : Rows, cursor : Rows, acked : SUBSET Gens, out : SUBSET Rows,
              seed : [model : Rows, cursor : Rows]]
  /\ box \in [state : {"none", "missing", "stopped", "running", "exited", "finished"},
              seeded : BOOLEAN]
  /\ trainer \in [at : {"off", "seed", "work", "publish", "evict"}, index : Rows,
                  queue : SUBSET Rows, pushed : BOOLEAN]
  /\ transfer \in [at : {"idle", "remove", "install", "cursor", "relay", "unlink", "copy",
                         "ack", "trim"},
                   pairs : SUBSET Rows, chunks : SUBSET Chunks, gen : Gens]
  /\ op \in {"idle", "create", "start", "push", "pairs", "generations", "rest",
             "container", "volume"}
  /\ sent \subseteq Chunks
  /\ into \subseteq Chunks \X Gens

\* Neither here nor at the home does a reader see a cursor ahead of its
\* weights, wherever an installation stops (state_pair.install).
CursorBehindWeights == here.cursor <= here.model /\ vol.cursor <= vol.model

\* What the controller holds never goes back, whatever pair a pull or a sweep
\* brings, repeats or brings late (the cursor rule).
RowsNeverBack == [][here'.cursor >= here.cursor]_here

\* A generation the home believes safe is here, as it is there, for as long as
\* a home resumed from the cursor here could read it.
AckedIsHere ==
  \A g \in vol.acked :
    Window = 0 \/ g >= here.cursor - Window => here.gens[g] = vol.gens[g]

\* A chunk enters one generation, though deliveries repeat and homes change;
\* except one whose ledger line went with an unswept volume.
ChunkOnce ==
  \A c \in Chunks \ forgotten : Cardinality({g \in Gens : <<c, g>> \in into}) <= 1

\* A delivered chunk is staged or in a generation somewhere until the cursor
\* here is past its generation; except one that went with an unswept volume.
ChunkKept ==
  \A c \in sent \ lost :
    \/ c \in ChunksIn(here) \cup ChunksIn(vol)
    \/ \E g \in Gens : <<c, g>> \in into /\ g < here.cursor

\* A trainer resumes with the window behind its cursor whole, wherever its home
\* now is (ensure_window); except generations complete only on an unswept volume.
WindowWhole ==
  [][trainer.at = "seed" /\ trainer'.at = "work" =>
       \A g \in Gens :
         /\ g < trainer'.index
         /\ Window = 0 \/ g >= trainer'.index - Window
         => vol.gens[g].status = "complete" \/ g \in unswept]_trainer

\* A trainer noted finished has its last state installed here, the cursor that
\* completes the tag included.
FinishedIsHere == box.state = "finished" => here.cursor = Last

\* Removing the trainer's slot on a machine that is there takes all of its
\* volume here first.
RemovalSweeps == lost = {} \/ "lost" \in struck

-----------------------------------------------------------------------------
\* What these rest on.

\* The container's process is off unless it runs, and a removal or placement in
\* progress knows how far the container is.
StagesKnown ==
  /\ box.state # "running" => trainer.at = "off"
  /\ op \in {"create", "start", "pairs", "generations", "rest", "container", "volume"} =>
       box.state \notin {"none", "running"}
  /\ op = "volume" => box.state = "missing" /\ transfer.at # "ack"

\* Where the trainer is says how its index, the checkpoint and the published
\* cursor stand.
TrainerKnows ==
  /\ trainer.at \in {"work", "evict"} => vol.cursor = trainer.index
  /\ trainer.at = "publish" => vol.model = trainer.index

\* A pair half installed here is no older than the cursor here.
PairKnown ==
  transfer.at = "cursor" =>
    /\ transfer.pairs # {}
    /\ here.model = Min(transfer.pairs)
    /\ here.cursor <= Min(transfer.pairs)

\* All assigned is in a ledger, but for what a lost volume's alone had; the home's
\* ledger has what the one here has, and a swept home's nothing more.
Ledgered ==
  /\ \A p \in into : p[1] \in forgotten \cup here.ledger \cup vol.ledger
  /\ box.state # "none" => here.ledger \subseteq vol.ledger
  /\ op \in {"container", "volume"} => vol.ledger \subseteq here.ledger

\* A generation is acknowledged once complete, and when a copy of it is made.
AckedComplete ==
  /\ \A g \in vol.acked : vol.gens[g].status = "complete"
  /\ transfer.at = "ack" =>
       /\ transfer.gen \notin vol.acked
       /\ vol.gens[transfer.gen].status = "complete"
       /\ here.gens[transfer.gen] = vol.gens[transfer.gen]

\* ChunkOnce, chunk by chunk.
AssignedOnce ==
  \A p, q \in into : p[1] = q[1] /\ p[1] \notin forgotten => p = q

\* The inductive invariant, where no sweep runs while a pair is installed.
MovesInv ==
  /\ TypeOK
  /\ StagesKnown
  /\ TrainerKnows
  /\ PairKnown
  /\ CursorBehindWeights
  /\ Ledgered
  /\ AssignedOnce
  /\ AckedComplete
  /\ AckedIsHere

-----------------------------------------------------------------------------
\* What keeps the chunks and the window.

\* The chunks a tree has in generations.
Filed(tree) == UNION {tree.gens[g].chunks : g \in Gens}

\* A chunk whose generation the cursor here has passed.
Past(c) == \E g \in Gens : <<c, g>> \in into /\ g < here.cursor

\* A generation that a home resumed from the cursor here could read.
Wanted(g) == Window = 0 \/ g >= here.cursor - Window

\* What a generation holds was assigned to it, here and at the home.
Traced ==
  \A g \in Gens :
    /\ \A c \in here.gens[g].chunks \cup vol.gens[g].chunks : <<c, g>> \in into
    /\ here.gens[g].status = "none" => here.gens[g].chunks = {}
    /\ vol.gens[g].status = "none" => vol.gens[g].chunks = {}

\* A home not placed has nothing; one placed has each generation wanted that is
\* here, at least as far along, unless it evicted it behind its own window.
Followed ==
  /\ box.state = "none" => vol = EmptyVolume
  /\ box.state # "none" =>
       \A g \in Gens : here.gens[g].status # "none" /\ Wanted(g) =>
         \/ /\ vol.gens[g].status # "none"
            /\ here.gens[g].chunks \subseteq vol.gens[g].chunks
            /\ here.gens[g].status = "complete" => vol.gens[g].status = "complete"
         \/ /\ vol.gens[g].status = "none"
            /\ Window # 0 /\ g < vol.cursor - Window

\* A chunk in a generation here, or past; and one that is so here or at the home.
KeptHere(c) == c \in Filed(here) \/ Past(c)
Kept(c) == c \in Filed(vol) \/ KeptHere(c)

\* A chunk in a ledger is kept; one in the ledger here, here.
LedgerKept ==
  /\ \A c \in here.ledger \ lost : KeptHere(c)
  /\ \A c \in vol.ledger \ lost : Kept(c)

\* What the transfer thread is about to unlink has arrived.
RelayedKept ==
  transfer.at = "unlink" => \A c \in transfer.chunks \ lost : c \in vol.staging \/ Kept(c)

\* A sweep that has passed a stage has brought what that stage brings.
SweptSoFar ==
  /\ op \in {"rest", "container", "volume"} =>
       /\ \A c \in Filed(vol) : KeptHere(c)
       /\ \A g \in Complete(vol) : Wanted(g) => g \in Complete(here)
  /\ op \in {"container", "volume"} =>
       vol.staging \subseteq here.staging /\ transfer.at # "unlink"

\* The rows of every pair that exists: installed, offered as a seed, delivered,
\* pulled or queued.
PairsAbout ==
  {here.model, vol.model, vol.seed.model} \cup transfer.pairs \cup vol.out \cup trainer.queue

\* Behind each, every generation wanted is complete somewhere.
WindowSomewhere ==
  \A n \in PairsAbout : \A g \in Gens :
    g < n /\ Wanted(g) => g \in Complete(here) \cup Complete(vol) \cup unswept

\* Behind the home's checkpoint, and a seed it would take, they are at the home.
WindowAtHome ==
  /\ vol.seed.cursor <= vol.seed.model
  /\ \A g \in Gens : g < vol.model /\ (Window = 0 \/ g >= vol.cursor - Window) =>
       g \in Complete(vol) \cup unswept
  /\ vol.seed # NoSeed /\ Beats(vol, vol.seed.cursor) =>
       \A g \in Gens : g < vol.seed.model /\ (Window = 0 \/ g >= vol.seed.cursor - Window) =>
         g \in Complete(vol) \cup unswept

\* The inductive invariant of what is kept.
KeptInv ==
  /\ MovesInv
  /\ Traced
  /\ Followed
  /\ LedgerKept
  /\ RelayedKept
  /\ SweptSoFar
  /\ ChunkKept
  /\ WindowSomewhere
  /\ WindowAtHome

-----------------------------------------------------------------------------
\* The home's threads, the transfer thread and the blocking thread keep going,
\* and the operator places a removed trainer again.
Fairness ==
  /\ WF_vars(Deliver) /\ WF_vars(Assign)
  /\ WF_vars(Open) /\ WF_vars(TakeSeed) /\ WF_vars(Train) /\ WF_vars(Publish)
  /\ WF_vars(EvictAtHome) /\ WF_vars(PushPair) /\ WF_vars(DropOlder) /\ WF_vars(Exit)
  /\ WF_vars(Transfer) /\ WF_vars(Restart) /\ WF_vars(Finish)
  /\ WF_vars(Placement) /\ WF_vars(Removal)

FairSpec == Spec /\ Fairness

\* However often the home is paused, replaced and moved, and the link fails,
\* the state after the last generation gets here.
StateArrives == <>(here.cursor = Last \/ struck # {})
=============================================================================
