--------------------------- MODULE DataHomeProps ---------------------------
(***************************************************************************)
(* What makes a data home correct: properties of DataHome's states and     *)
(* steps, and the abstract specification it implements.                    *)
(***************************************************************************)
EXTENDS DataHome

\* The sorts of the variables.
TypeOK ==
  /\ staging \subseteq Chunks
  /\ stagingSide \subseteq Chunks
  /\ bad \subseteq Chunks
  /\ slog \in [Dirs -> SUBSET Chunks]
  /\ side \in [Dirs -> SUBSET Chunks]
  /\ made \subseteq Dirs
  /\ status \in [Dirs -> {"none", "generating", "complete"}]
  /\ ledger \subseteq Chunks
  /\ pulled \subseteq Gens
  /\ model \in 0 .. Last
  /\ cursor \in 0 .. Last
  /\ gate \in {"open", "ahead"}
  /\ thread \in {"off", "idle", "sorting", "routing", "counting", "draining", "opening",
                 "filling", "failed"}
  /\ rest \subseteq Chunks
  /\ batch \subseteq Chunks
  /\ job \in Jobs \cup {NoJob}
  /\ seen \in 0 .. Last
  /\ open \in Gens
  /\ trainer \in {"down", "waiting", "training", "saved", "evicting", "removing", "done"}
  /\ index \in 0 .. Last
  /\ reading \subseteq Gens
  /\ doomed \subseteq Gens
  /\ sent \subseteq Chunks
  /\ copies \subseteq Gens
  /\ spent \subseteq Chunks
  /\ gone \subseteq Gens
  /\ stops \in 0 .. MaxStops + 1

\* "Every .slog ... belongs to exactly one generation", or to the held-out set:
\* once a chunk has been in a directory it never enters another, nor after it
\* was deleted, redeliveries and stops between ledger and rename included.
ChunkOnce ==
  /\ \A d, e \in Dirs : slog[d] \cap slog[e] # {} => d = e
  /\ \A d \in Dirs : slog[d] \cap spent = {}

\* One generation is open at a time ("It keeps one generation open at a time"),
\* which a crash between manifests or a second runner must not change.
OneOpen == \A g, h \in OpenGens : g = h

\* The generators stay within open_ahead generations of the trainer, although
\* the scheduler reads the cursor once per tick and opens several by it.
PacedAhead == \A g \in OpenGens : g <= cursor + OpenAhead

\* What the trainer's epoch reads is its whole window: the `Window` latest
\* generations, none evicted too early or skipped, each with its full count of
\* chunks and each chunk with its sidecar, whatever a stop left half moved or
\* half evicted.
WindowWhole ==
  trainer = "training" =>
    /\ reading = {g \in Gens : g <= index /\ (Window = 0 \/ g > index - Window)}
    /\ \A g \in reading :
         /\ Cardinality(slog[g]) >= Target
         /\ Sidecars => slog[g] \subseteq side[g]

\* A damaged chunk of a generation is "quarantined as `.bad`, never assigned".
\* (The held-out set takes chunks unread.)
DamagedNeverAssigned == \A g \in Gens : slog[g] \cap Damaged = {}

\* The held-out set "takes the first `holdout_chunks` such chunks", and one more
\* at most for each stop that falls between the move that fills it, or a damaged
\* chunk in it, and its completion.
HeldOutBounded == Cardinality(slog[Held]) <= HoldoutChunks + stops

\* The ledgered chunks that are nowhere: not in a directory, not deleted for
\* good, not on their way.
Lost ==
  {c \in ledger : /\ \A d \in Dirs : c \notin slog[d]
                  /\ c \notin spent
                  /\ job.do = "duplicate" \/ job.chunk # c}

\* No chunk is lost but the one a stop caught between its ledger line and its
\* rename: every other one delivered waits in staging, or was quarantined, or
\* reached its directory.
StopLosesOne ==
  /\ sent \subseteq staging \cup bad \cup ledger
  /\ Cardinality(Lost) <= stops

\* Completion is a recorded fact: a complete directory takes no further chunk
\* and never opens again.
StaysComplete ==
  \A d \in Dirs : status[d] = "complete" => /\ slog'[d] \subseteq slog[d]
                                            /\ status'[d] # "generating"

CompleteIsFinal == [][StaysComplete]_vars

-----------------------------------------------------------------------------
\* The inductive invariant behind ChunkOnce, OneOpen, PacedAhead and
\* CompleteIsFinal.

\* Where the trainer is, and how often it has ended; its home ends with it.
TrainerKnows ==
  /\ trainer = "training" => index < Last
  /\ trainer # "done" => stops <= MaxStops
  /\ trainer = "removing" => doomed # {}
  /\ trainer \in {"down", "done"} => thread = "off"

\* What is in a directory, or was, is ledgered; what the tick has yet to assign
\* is not; and the chunk being moved is in no directory yet.
Ledgered ==
  /\ \A d \in Dirs : slog[d] \subseteq ledger
  /\ spent \subseteq ledger
  /\ batch \cap ledger = {}
  /\ job.do \in {"assign", "drop"} =>
       /\ job.chunk \in ledger \ spent
       /\ \A d \in Dirs : job.chunk \notin slog[d]

\* No cursor is ahead of the checkpoint, and the scheduler's copy is never ahead
\* of the published one.
CursorsOrdered ==
  /\ cursor <= model
  /\ seen <= cursor
  /\ trainer \notin {"down", "done"} => index = model

\* The generation the scheduler is opening, or filling; what it moves chunks
\* into; and what the trainer evicts meanwhile.
Structure ==
  /\ \A g \in Gens : status[g] # "none" => g \in made
  /\ thread = "opening" => /\ OpenGens = {}
                           /\ status[open] = "none"
                           /\ open <= cursor + OpenAhead
                           /\ open \in made \ doomed
  /\ thread = "filling" => status[open] = "generating"
  /\ job.do = "assign" => \/ thread = "routing" /\ job.dir = Held /\ status[Held] # "complete"
                          \/ thread = "filling" /\ job.dir = open
  /\ doomed \subseteq made
  /\ doomed \cap OpenGens = {}

DataHomeInv ==
  /\ TypeOK
  /\ TrainerKnows
  /\ Ledgered
  /\ ChunkOnce
  /\ CursorsOrdered
  /\ Structure
  /\ OneOpen
  /\ PacedAhead

-----------------------------------------------------------------------------
\* The rest of the inductive invariant: what DamagedNeverAssigned, StopLosesOne,
\* WindowWhole and the refinement of GenerationFlow rest on.

\* A chunk being deleted as a duplicate is ledgered, one being quarantined is
\* not, and only finitely many ever are.
Accounted ==
  /\ IsFiniteSet(ledger)
  /\ job.do = "duplicate" => job.chunk \in ledger
  /\ job.do = "quarantine" => job.chunk \notin ledger
  /\ StopLosesOne

\* What the scheduler moves into a generation was read, and there is room for
\* it; what it moves into the held-out set is held out.
Assigned ==
  /\ job.do = "assign" =>
       IF job.dir = Held THEN job.chunk \in HeldOut
                         ELSE job.chunk \notin Damaged /\ Cardinality(slog[job.dir]) < Target
  /\ slog[Held] \subseteq HeldOut
  /\ DamagedNeverAssigned
  /\ \A g \in Gens : Cardinality(slog[g]) <= Target

\* A generation that is complete, and not being evicted, is full, and each chunk
\* of a generation has its sidecar there.
Filled ==
  /\ \A g \in Gens \ gone : status[g] = "complete" => Cardinality(slog[g]) = Target
  /\ Sidecars => /\ \A g \in Gens \ gone : slog[g] \subseteq side[g]
                 /\ job.do = "assign" /\ job.part = "slog" => job.chunk \in side[job.dir]

\* The published cursor lags the checkpoint between the two writes only, and a
\* stop between them.
CursorFollows ==
  /\ cursor = model \/ cursor = model - 1
  /\ trainer = "saved" => cursor = model - 1
  /\ trainer \notin {"saved", "down", "done"} => cursor = model

\* Every generation the trainer is past is complete, or behind the window and
\* evicted; what it evicts is behind the window.
Trained ==
  /\ \A g \in Gens : g < model => status[g] = "complete" \/ g \in gone
  /\ trainer = "training" => status[index] = "complete"
  /\ \A g \in gone \cup doomed : Window > 0 /\ g + Window < model
  /\ \A g \in doomed : status[g] = "complete" \/ g \in gone
  /\ trainer = "removing" => Min(doomed) \in gone

\* A generation is opened past every other one there is, and no open one has
\* been evicted.
OpensAhead ==
  /\ thread = "opening" => /\ open >= model
                           /\ \A g \in Gens : g >= open => status[g] = "none"
  /\ OpenGens \cap gone = {}

HomeInv ==
  /\ DataHomeInv
  /\ Accounted
  /\ Assigned
  /\ Filled
  /\ CursorFollows
  /\ Trained
  /\ OpensAhead
  /\ WindowWhole

\* The held-out set has room for the chunk being moved into it, or the count
\* that follows its last one was cut short by a stop.
HeldOutRoom ==
  status[Held] # "complete" /\ thread \notin {"counting", "failed"} =>
    HeldOut = {} \/ Cardinality(slog[Held]) < HoldoutChunks + stops

HeldOutInv == HeldOutBounded /\ HeldOutRoom

-----------------------------------------------------------------------------
\* DataHome implements GenerationFlow.

Phase(g) ==
  IF g \in gone THEN "evicted"
  ELSE IF status[g] = "generating" THEN "open" ELSE status[g]

Used == ledger \ (IF job.do \in {"assign", "drop"} THEN {job.chunk} ELSE {})
Content == [d \in Dirs |-> IF d \in gone THEN {} ELSE slog[d]]
GenPhases == [g \in Gens |-> Phase(g)]

Flow == INSTANCE GenerationFlow WITH
  used <- Used, content <- Content, phase <- GenPhases, cursor <- cursor

\* Each step of the data home is a step, or a stutter, of the abstract flow of
\* chunks through generations.
ImplementsFlow == Flow!Spec

-----------------------------------------------------------------------------
\* Liveness: both threads run, a stopped runner is started again, the
\* controller pulls, and generators that are not parked deliver.

Fairness ==
  /\ WF_vars(Scheduler)
  /\ WF_vars(Trainer)
  /\ WF_vars(Controller)
  /\ \A c \in Chunks : WF_vars(gate = "open" /\ (DeliverSide(c) \/ DeliverSlog(c)))

FairSpec == Spec /\ Fairness

\* A stop left a generation's directory without its manifest.
Orphaned == \E g \in made \ {Held} : status[g] = "none" /\ g >= model /\ thread # "opening"

\* The trainer reaches its last generation: it never waits for one that the
\* scheduler will not open or not fill, and parked generators are released.
TrainerFinishes == <>(trainer = "done")

\* The same, unless a stop fell between a directory and its manifest.
TrainerFinishesUnlessOrphaned == <>Orphaned \/ TrainerFinishes
=============================================================================
