--------------------------- MODULE DataHomeProofs ---------------------------
(***************************************************************************)
(* Proofs about a data home, for every set of chunks, target, window, pace *)
(* and number of stops: its state keeps its type, each chunk enters one    *)
(* directory, one generation is open at a time and within open_ahead of    *)
(* the trainer, a complete generation stays complete, a stop loses at most *)
(* the chunk it caught, the held-out set outgrows its size by one per stop *)
(* at most, damaged chunks reach no generation, the trainer reads whole    *)
(* windows, and the data home implements GenerationFlow.                   *)
(***************************************************************************)
EXTENDS DataHomeProps, FiniteSetTheorems, WellFoundedInduction, TLAPS

-----------------------------------------------------------------------------
\* The least and the greatest generation of a set.

\* A set of naturals has a least element, which Min names.
LEMMA MinDef ==
  ASSUME NEW S, S \subseteq Nat, S # {}
  PROVE  Min(S) \in S /\ \A y \in S : Min(S) <= y
<1> DEFINE R == OpToRel(<, Nat)
<1>1. \A x, y \in Nat : x < y => <<x, y>> \in R
  BY DEF OpToRel
<1>2. IsWellFoundedOn(R, Nat)
  BY NatLessThanWellFounded
<1> HIDE DEF R
<1>3. PICK x \in S : \A y \in S : ~(<<y, x>> \in R)
  BY <1>2, WFMin
<1>4. ASSUME NEW y \in S PROVE x <= y
  <2>1. x \in Nat /\ y \in Nat
    OBVIOUS
  <2>2. ~(y < x)
    BY <1>1, <1>3, <2>1
  <2>3. QED
    BY <2>1, <2>2
<1>5. QED
  BY <1>3, <1>4 DEF Min

\* A bounded set of naturals has a greatest element, which Max names.
LEMMA MaxDef ==
  ASSUME NEW S, NEW n \in Nat, S \subseteq 0 .. n, S # {}
  PROVE  Max(S) \in S /\ \A y \in S : y <= Max(S)
<1> DEFINE T == {n - y : y \in S}
<1>1. T \subseteq Nat /\ T # {}
  <2>1. ASSUME NEW y \in S PROVE n - y \in Nat
    <3>1. y \in 0 .. n
      OBVIOUS
    <3>2. QED
      BY <3>1
  <2>2. QED
    BY <2>1
<1>2. Min(T) \in T /\ \A z \in T : Min(T) <= z
  BY <1>1, MinDef
<1>3. PICK x \in S : Min(T) = n - x
  BY <1>2
<1>4. ASSUME NEW y \in S PROVE y <= x
  <2>1. n - x <= n - y
    BY <1>2, <1>3
  <2>2. x \in Int /\ y \in Int
    OBVIOUS
  <2>3. QED
    BY <2>1, <2>2
<1>5. x \in S /\ \A y \in S : x >= y
  BY <1>4
<1>6. QED
  BY <1>5 DEF Max

-----------------------------------------------------------------------------
\* Types.

\* The sizes, and the directories.
LEMMA SizeFacts ==
  /\ Last \in Nat /\ OpenAhead \in Nat /\ MaxStops \in Nat
  /\ 0 \in Gens /\ Gens \subseteq Nat
  /\ Gens \subseteq Dirs /\ Held \in Dirs /\ Held \notin Gens
BY SizeAssumption DEF Gens, Dirs, Held

\* The next index is past every generation there is, and a generation if the
\* trainer is near enough.
LEMMA NextIndexDef ==
  ASSUME TypeOK, NextIndex <= seen + OpenAhead
  PROVE  /\ NextIndex \in Gens
         /\ NextIndex \notin made
<1> DEFINE S == {seen} \cup {g + 1 : g \in made \ {Held}}
           n == Last + OpenAhead + 1
<1>1. made \ {Held} \subseteq Gens /\ seen \in 0 .. Last
  BY DEF TypeOK, Dirs
<1>2. S \subseteq 0 .. n /\ S # {} /\ n \in Nat
  BY <1>1, SizeFacts DEF Gens
<1>3. Max(S) \in S /\ \A y \in S : y <= Max(S)
  <2> HIDE DEF S, n
  <2>1. QED
    BY <1>2, MaxDef
<1>4. NextIndex = Max(S)
  BY DEF NextIndex
<1>5. NextIndex \in Gens
  BY <1>1, <1>2, <1>3, <1>4, SizeFacts DEF Gens
<1>6. ASSUME NextIndex \in made PROVE FALSE
  <2>1. NextIndex \in made \ {Held}
    BY <1>5, <1>6, SizeFacts
  <2>2. NextIndex + 1 \in S
    BY <2>1
  <2>3. NextIndex + 1 <= NextIndex
    BY <1>3, <1>4, <2>2
  <2>4. QED
    BY <1>5, <2>3, SizeFacts
<1>7. QED
  BY <1>5, <1>6

\* Every step preserves the types.
LEMMA TypeStep ==
  ASSUME TypeOK, TrainerKnows, [Next]_vars
  PROVE  TypeOK'
<1>1. ASSUME NEW c \in Chunks, DeliverSide(c) PROVE TypeOK'
  BY <1>1 DEF TypeOK, DeliverSide, scheduling, training, others
<1>2. ASSUME NEW c \in Chunks, DeliverSlog(c) PROVE TypeOK'
  BY <1>2 DEF TypeOK, DeliverSlog, scheduling, training
<1>3. ASSUME NEW c \in Chunks, Redeliver(c) PROVE TypeOK'
  BY <1>3 DEF TypeOK, Redeliver, scheduling, training, others
<1>4. ASSUME NEW c \in Chunks, SortChunk(c) PROVE TypeOK'
  BY <1>4 DEF TypeOK, SortChunk, disk, training, others, Job, Jobs, Dirs
<1>5. ASSUME NEW c \in Chunks, RouteHeldOut(c) PROVE TypeOK'
  BY <1>5 DEF TypeOK, RouteHeldOut, training, others, Job, Jobs, Dirs
<1>6. ASSUME NEW c \in Chunks, FillChunk(c) PROVE TypeOK'
  BY <1>6 DEF TypeOK, FillChunk, training, others, Job, Jobs, Dirs
<1>7. ASSUME TickStarts PROVE TypeOK'
  BY <1>7 DEF TypeOK, TickStarts, disk, training, others
<1>8. ASSUME Sorted PROVE TypeOK'
  BY <1>8 DEF TypeOK, Sorted, disk, training, others
<1>9. ASSUME OpenHeldOut PROVE TypeOK'
  BY <1>9, SizeFacts DEF TypeOK, OpenHeldOut, scheduling, training, others
<1>10. ASSUME CountHeldOut PROVE TypeOK'
  BY <1>10 DEF TypeOK, CountHeldOut, training, others
<1>11. ASSUME Routed PROVE TypeOK'
  BY <1>11 DEF TypeOK, Routed, disk, training, others
<1>12. ASSUME FillOpen PROVE TypeOK'
  <2>1. OpenGens \subseteq Nat /\ OpenGens # {} /\ OpenGens \subseteq Gens
    BY <1>12, SizeFacts DEF FillOpen, OpenGens
  <2>2. open' \in Gens
    BY <1>12, <2>1, MinDef DEF FillOpen
  <2>3. QED
    BY <1>12, <2>2 DEF TypeOK, FillOpen, disk, training, others
<1>13. ASSUME ParkGenerators PROVE TypeOK'
  BY <1>13 DEF TypeOK, ParkGenerators, training, others
<1>14. ASSUME MakeDirectory PROVE TypeOK'
  <2>1. NextIndex \in Gens
    BY <1>14, NextIndexDef DEF MakeDirectory
  <2>2. QED
    BY <1>14, <2>1, SizeFacts DEF TypeOK, MakeDirectory, training, others
<1>15. ASSUME WriteManifest PROVE TypeOK'
  BY <1>15 DEF TypeOK, WriteManifest, training, others
<1>16. ASSUME MarkComplete PROVE TypeOK'
  BY <1>16 DEF TypeOK, MarkComplete, training, others
<1>17. ASSUME TickEnds PROVE TypeOK'
  BY <1>17 DEF TypeOK, TickEnds, training, others
<1>18. ASSUME MoveSide PROVE TypeOK'
  BY <1>18 DEF TypeOK, MoveSide, training, others, Jobs, Moving
<1>19. ASSUME MoveSlog PROVE TypeOK'
  BY <1>19 DEF TypeOK, MoveSlog, training, Jobs, Moving
<1>20. ASSUME Resume PROVE TypeOK'
  BY <1>20 DEF TypeOK, Resume, others
<1>21. ASSUME TrainGeneration PROVE TypeOK'
  BY <1>21 DEF TypeOK, TrainGeneration, disk, scheduling, others, WindowGens, CompleteUpto
<1>22. ASSUME SaveCheckpoint PROVE TypeOK'
  BY <1>22, SizeAssumption DEF TypeOK, SaveCheckpoint, scheduling, others, TrainerKnows
<1>23. ASSUME PublishCursor PROVE TypeOK'
  BY <1>23 DEF TypeOK, PublishCursor, scheduling, others, WindowGens, CompleteUpto
<1>24. ASSUME Evicted PROVE TypeOK'
  BY <1>24 DEF TypeOK, Evicted, disk, scheduling, others
<1>25. ASSUME Finish PROVE TypeOK'
  <2>1. stops \in Nat /\ stops <= MaxStops
    BY <1>25 DEF Finish, TypeOK, TrainerKnows
  <2>2. stops' \in 0 .. MaxStops + 1
    BY <1>25, <2>1, SizeFacts DEF Finish, RunnerEnds
  <2>3. QED
    BY <1>25, <2>2, SizeFacts DEF Finish, RunnerEnds, TypeOK, disk
<1>26. ASSUME HomeFailed PROVE TypeOK'
  <2>1. stops \in Nat /\ stops <= MaxStops
    BY <1>26 DEF HomeFailed, TypeOK, TrainerKnows
  <2>2. stops' \in 0 .. MaxStops + 1
    BY <1>26, <2>1, SizeFacts DEF HomeFailed, RunnerEnds
  <2>3. QED
    BY <1>26, <2>2, SizeFacts DEF HomeFailed, RunnerEnds, TypeOK, disk
<1>27. ASSUME Stop PROVE TypeOK'
  <2>1. stops \in Nat /\ stops <= MaxStops
    BY <1>27 DEF Stop, TypeOK, TrainerKnows
  <2>2. stops' \in 0 .. MaxStops + 1
    BY <1>27, <2>1, SizeFacts DEF Stop, RunnerEnds
  <2>3. QED
    BY <1>27, <2>2, SizeFacts DEF Stop, RunnerEnds, TypeOK, disk
<1>28. ASSUME NEW g \in Gens, KeepUnpulled(g) PROVE TypeOK'
  BY <1>28 DEF TypeOK, KeepUnpulled, disk, scheduling, others
<1>29. ASSUME NEW g \in Gens, RemoveDirectory(g) PROVE TypeOK'
  <2>1. /\ slog' \in [Dirs -> SUBSET Chunks]
        /\ side' \in [Dirs -> SUBSET Chunks]
        /\ status' \in [Dirs -> {"none", "generating", "complete"}]
    BY <1>29 DEF TypeOK, RemoveDirectory
  <2>2. /\ pulled' \subseteq Gens
        /\ made' \subseteq Dirs
        /\ spent' \subseteq Chunks
        /\ doomed' \subseteq Gens
        /\ trainer' = "evicting"
    BY <1>29, SizeFacts DEF TypeOK, RemoveDirectory
  <2>3. UNCHANGED <<staging, stagingSide, bad, ledger, model, cursor, gate, scheduling,
                    index, reading, sent, copies, gone, stops>>
    BY <1>29 DEF RemoveDirectory
  <2>4. QED
    BY <2>1, <2>2, <2>3 DEF TypeOK, scheduling
<1>30. ASSUME NEW g \in Gens, PullGeneration(g) PROVE TypeOK'
  BY <1>30 DEF TypeOK, PullGeneration, disk, scheduling, training
<1>31. ASSUME NEW g \in Gens, Acknowledge(g) PROVE TypeOK'
  BY <1>31 DEF TypeOK, Acknowledge, scheduling, training, others
<1>32. ASSUME NEW g \in Gens, NEW S \in SUBSET Chunks, NEW T \in SUBSET Chunks,
              RemoveFiles(g, S, T)
       PROVE  TypeOK'
  <2>1. /\ slog' \in [Dirs -> SUBSET Chunks]
        /\ side' \in [Dirs -> SUBSET Chunks]
        /\ spent' \subseteq Chunks
    <3>1. slog[g] \subseteq Chunks
      BY SizeFacts DEF TypeOK
    <3>2. QED
      BY <1>32, <3>1 DEF TypeOK, RemoveFiles
  <2>5. gone' \subseteq Gens /\ pulled' \subseteq Gens
    BY <1>32 DEF TypeOK, RemoveFiles
  <2>2. status' \in [Dirs -> {"none", "generating", "complete"}]
    BY <1>32 DEF TypeOK, RemoveFiles
  <2>3. trainer' = "removing"
    BY <1>32 DEF RemoveFiles
  <2>4. UNCHANGED <<staging, stagingSide, bad, made, ledger, model, cursor, gate, scheduling,
                    index, reading, doomed, sent, copies, stops>>
    BY <1>32 DEF RemoveFiles
  <2>6. QED
    BY <2>1, <2>2, <2>3, <2>4, <2>5 DEF TypeOK, scheduling
<1>33. CASE UNCHANGED vars
  BY <1>33 DEF vars, disk, scheduling, training, others, TypeOK
<1>34. QED
  BY <1>1, <1>2, <1>3, <1>4, <1>5, <1>6, <1>7, <1>8, <1>9, <1>10, <1>11, <1>12, <1>13,
     <1>14, <1>15, <1>16, <1>17, <1>18, <1>19, <1>20, <1>21, <1>22, <1>23, <1>24, <1>25,
     <1>26, <1>27, <1>28, <1>29, <1>30, <1>31, <1>32, <1>33
     DEF Next, Deliveries, Scheduler, Trainer, Controller
-----------------------------------------------------------------------------
\* The runner's cursors.

\* Every step preserves what the trainer knows and the order of the cursors.
LEMMA CursorsStep ==
  ASSUME TypeOK, TrainerKnows, CursorsOrdered, Structure, [Next]_vars
  PROVE  TrainerKnows' /\ CursorsOrdered'
<1>1. ASSUME NEW c \in Chunks, DeliverSide(c) PROVE TrainerKnows' /\ CursorsOrdered'
  BY <1>1 DEF DeliverSide, TrainerKnows, CursorsOrdered, scheduling, training, others
<1>2. ASSUME NEW c \in Chunks, DeliverSlog(c) PROVE TrainerKnows' /\ CursorsOrdered'
  BY <1>2 DEF DeliverSlog, TrainerKnows, CursorsOrdered, scheduling, training
<1>3. ASSUME NEW c \in Chunks, Redeliver(c) PROVE TrainerKnows' /\ CursorsOrdered'
  BY <1>3 DEF Redeliver, TrainerKnows, CursorsOrdered, scheduling, training, others
<1>4. ASSUME NEW c \in Chunks, SortChunk(c) PROVE TrainerKnows' /\ CursorsOrdered'
  BY <1>4 DEF SortChunk, TrainerKnows, CursorsOrdered, disk, training, others
<1>5. ASSUME NEW c \in Chunks, RouteHeldOut(c) PROVE TrainerKnows' /\ CursorsOrdered'
  BY <1>5 DEF RouteHeldOut, TrainerKnows, CursorsOrdered, training, others
<1>6. ASSUME NEW c \in Chunks, FillChunk(c) PROVE TrainerKnows' /\ CursorsOrdered'
  BY <1>6 DEF FillChunk, TrainerKnows, CursorsOrdered, training, others
<1>7. ASSUME TickStarts PROVE TrainerKnows' /\ CursorsOrdered'
  BY <1>7 DEF TickStarts, TrainerKnows, CursorsOrdered, disk, training, others
<1>8. ASSUME Sorted PROVE TrainerKnows' /\ CursorsOrdered'
  BY <1>8 DEF Sorted, TrainerKnows, CursorsOrdered, disk, training, others
<1>9. ASSUME OpenHeldOut PROVE TrainerKnows' /\ CursorsOrdered'
  BY <1>9 DEF OpenHeldOut, TrainerKnows, CursorsOrdered, scheduling, training, others
<1>10. ASSUME CountHeldOut PROVE TrainerKnows' /\ CursorsOrdered'
  BY <1>10 DEF CountHeldOut, TrainerKnows, CursorsOrdered, training, others
<1>11. ASSUME Routed PROVE TrainerKnows' /\ CursorsOrdered'
  BY <1>11 DEF TypeOK, Routed, TrainerKnows, CursorsOrdered, disk, training, others
<1>12. ASSUME FillOpen PROVE TrainerKnows' /\ CursorsOrdered'
  BY <1>12 DEF FillOpen, TrainerKnows, CursorsOrdered, disk, training, others
<1>13. ASSUME ParkGenerators PROVE TrainerKnows' /\ CursorsOrdered'
  BY <1>13 DEF ParkGenerators, TrainerKnows, CursorsOrdered, training, others
<1>14. ASSUME MakeDirectory PROVE TrainerKnows' /\ CursorsOrdered'
  BY <1>14 DEF MakeDirectory, TrainerKnows, CursorsOrdered, training, others
<1>15. ASSUME WriteManifest PROVE TrainerKnows' /\ CursorsOrdered'
  BY <1>15 DEF WriteManifest, TrainerKnows, CursorsOrdered, training, others
<1>16. ASSUME MarkComplete PROVE TrainerKnows' /\ CursorsOrdered'
  BY <1>16 DEF MarkComplete, TrainerKnows, CursorsOrdered, training, others
<1>17. ASSUME TickEnds PROVE TrainerKnows' /\ CursorsOrdered'
  BY <1>17 DEF TickEnds, TrainerKnows, CursorsOrdered, training, others
<1>18. ASSUME MoveSide PROVE TrainerKnows' /\ CursorsOrdered'
  BY <1>18 DEF MoveSide, TrainerKnows, CursorsOrdered, training, others
<1>19. ASSUME MoveSlog PROVE TrainerKnows' /\ CursorsOrdered'
  BY <1>19 DEF MoveSlog, TrainerKnows, CursorsOrdered, training, Structure
<1>20. ASSUME Resume PROVE TrainerKnows' /\ CursorsOrdered'
  BY <1>20 DEF TypeOK, Resume, TrainerKnows, CursorsOrdered, others
<1>21. ASSUME TrainGeneration PROVE TrainerKnows' /\ CursorsOrdered'
  BY <1>21 DEF TrainGeneration, TrainerKnows, CursorsOrdered, disk, scheduling, others
<1>22. ASSUME SaveCheckpoint PROVE TrainerKnows' /\ CursorsOrdered'
  BY <1>22 DEF TypeOK, SaveCheckpoint, TrainerKnows, CursorsOrdered, scheduling, others
<1>23. ASSUME PublishCursor PROVE TrainerKnows' /\ CursorsOrdered'
  BY <1>23 DEF TypeOK, PublishCursor, TrainerKnows, CursorsOrdered, scheduling, others
<1>24. ASSUME Evicted PROVE TrainerKnows' /\ CursorsOrdered'
  BY <1>24 DEF Evicted, TrainerKnows, CursorsOrdered, disk, scheduling, others
<1>25. ASSUME Finish PROVE TrainerKnows' /\ CursorsOrdered'
  BY <1>25 DEF TypeOK, Finish, TrainerKnows, CursorsOrdered, disk, RunnerEnds
<1>26. ASSUME HomeFailed PROVE TrainerKnows' /\ CursorsOrdered'
  BY <1>26, SizeFacts DEF TypeOK, HomeFailed, TrainerKnows, CursorsOrdered, disk, RunnerEnds
<1>27. ASSUME Stop PROVE TrainerKnows' /\ CursorsOrdered'
  BY <1>27, SizeFacts DEF TypeOK, Stop, TrainerKnows, CursorsOrdered, disk, RunnerEnds
<1>28. ASSUME NEW g \in Gens, KeepUnpulled(g) PROVE TrainerKnows' /\ CursorsOrdered'
  BY <1>28 DEF KeepUnpulled, TrainerKnows, CursorsOrdered, disk, scheduling, others, Victim
<1>29. ASSUME NEW g \in Gens, RemoveDirectory(g) PROVE TrainerKnows' /\ CursorsOrdered'
  BY <1>29 DEF RemoveDirectory, TrainerKnows, CursorsOrdered, scheduling
<1>30. ASSUME NEW g \in Gens, PullGeneration(g) PROVE TrainerKnows' /\ CursorsOrdered'
  BY <1>30 DEF PullGeneration, TrainerKnows, CursorsOrdered, disk, scheduling, training
<1>31. ASSUME NEW g \in Gens, Acknowledge(g) PROVE TrainerKnows' /\ CursorsOrdered'
  BY <1>31 DEF Acknowledge, TrainerKnows, CursorsOrdered, scheduling, training, others
<1>32. ASSUME NEW g \in Gens, NEW S \in SUBSET Chunks, NEW T \in SUBSET Chunks,
              RemoveFiles(g, S, T)
       PROVE  TrainerKnows' /\ CursorsOrdered'
  BY <1>32 DEF RemoveFiles, TrainerKnows, CursorsOrdered, scheduling, Victim
<1>33. CASE UNCHANGED vars
  BY <1>33 DEF vars, disk, scheduling, training, others, TrainerKnows, CursorsOrdered
<1>34. QED
  BY <1>1, <1>2, <1>3, <1>4, <1>5, <1>6, <1>7, <1>8, <1>9, <1>10, <1>11, <1>12, <1>13,
     <1>14, <1>15, <1>16, <1>17, <1>18, <1>19, <1>20, <1>21, <1>22, <1>23, <1>24, <1>25,
     <1>26, <1>27, <1>28, <1>29, <1>30, <1>31, <1>32, <1>33
     DEF Next, Deliveries, Scheduler, Trainer, Controller
-----------------------------------------------------------------------------
\* The chunks.

\* Every step keeps each chunk in one directory, and the ledger ahead of it.
LEMMA ChunksStep ==
  ASSUME TypeOK, Ledgered, ChunkOnce, [Next]_vars
  PROVE  Ledgered' /\ ChunkOnce'
<1>1. ASSUME NEW c \in Chunks, DeliverSide(c) PROVE Ledgered' /\ ChunkOnce'
  BY <1>1 DEF DeliverSide, Ledgered, ChunkOnce, scheduling, others
<1>2. ASSUME NEW c \in Chunks, DeliverSlog(c) PROVE Ledgered' /\ ChunkOnce'
  BY <1>2 DEF DeliverSlog, Ledgered, ChunkOnce, scheduling
<1>3. ASSUME NEW c \in Chunks, Redeliver(c) PROVE Ledgered' /\ ChunkOnce'
  BY <1>3 DEF Redeliver, Ledgered, ChunkOnce, scheduling, others
<1>4. ASSUME NEW c \in Chunks, SortChunk(c) PROVE Ledgered' /\ ChunkOnce'
  BY <1>4 DEF SortChunk, Ledgered, ChunkOnce, disk, others, Job
<1>5. ASSUME NEW c \in Chunks, RouteHeldOut(c) PROVE Ledgered' /\ ChunkOnce'
  BY <1>5 DEF RouteHeldOut, Ledgered, ChunkOnce, others, Job
<1>6. ASSUME NEW c \in Chunks, FillChunk(c) PROVE Ledgered' /\ ChunkOnce'
  BY <1>6 DEF FillChunk, Ledgered, ChunkOnce, others, Job
<1>7. ASSUME TickStarts PROVE Ledgered' /\ ChunkOnce'
  BY <1>7 DEF TickStarts, Ledgered, ChunkOnce, disk, others
<1>8. ASSUME Sorted PROVE Ledgered' /\ ChunkOnce'
  BY <1>8 DEF Sorted, Ledgered, ChunkOnce, disk, others
<1>9. ASSUME OpenHeldOut PROVE Ledgered' /\ ChunkOnce'
  BY <1>9 DEF OpenHeldOut, Ledgered, ChunkOnce, scheduling, others
<1>10. ASSUME CountHeldOut PROVE Ledgered' /\ ChunkOnce'
  BY <1>10 DEF CountHeldOut, Ledgered, ChunkOnce, others
<1>11. ASSUME Routed PROVE Ledgered' /\ ChunkOnce'
  BY <1>11 DEF Routed, Ledgered, ChunkOnce, disk, others
<1>12. ASSUME FillOpen PROVE Ledgered' /\ ChunkOnce'
  BY <1>12 DEF FillOpen, Ledgered, ChunkOnce, disk, others
<1>13. ASSUME ParkGenerators PROVE Ledgered' /\ ChunkOnce'
  BY <1>13 DEF ParkGenerators, Ledgered, ChunkOnce, others
<1>14. ASSUME MakeDirectory PROVE Ledgered' /\ ChunkOnce'
  BY <1>14 DEF MakeDirectory, Ledgered, ChunkOnce, others
<1>15. ASSUME WriteManifest PROVE Ledgered' /\ ChunkOnce'
  BY <1>15 DEF WriteManifest, Ledgered, ChunkOnce, others
<1>16. ASSUME MarkComplete PROVE Ledgered' /\ ChunkOnce'
  BY <1>16 DEF MarkComplete, Ledgered, ChunkOnce, others
<1>17. ASSUME TickEnds PROVE Ledgered' /\ ChunkOnce'
  BY <1>17 DEF TickEnds, Ledgered, ChunkOnce, others
<1>18. ASSUME MoveSide PROVE Ledgered' /\ ChunkOnce'
  BY <1>18 DEF MoveSide, Ledgered, ChunkOnce, others
<1>19. ASSUME MoveSlog PROVE Ledgered' /\ ChunkOnce'
  BY <1>19 DEF MoveSlog, Ledgered, ChunkOnce, NoJob
<1>20. ASSUME Resume PROVE Ledgered' /\ ChunkOnce'
  BY <1>20 DEF Resume, Ledgered, ChunkOnce, others
<1>21. ASSUME TrainGeneration PROVE Ledgered' /\ ChunkOnce'
  BY <1>21 DEF TrainGeneration, Ledgered, ChunkOnce, disk, scheduling, others
<1>22. ASSUME SaveCheckpoint PROVE Ledgered' /\ ChunkOnce'
  BY <1>22 DEF SaveCheckpoint, Ledgered, ChunkOnce, scheduling, others
<1>23. ASSUME PublishCursor PROVE Ledgered' /\ ChunkOnce'
  BY <1>23 DEF PublishCursor, Ledgered, ChunkOnce, scheduling, others
<1>24. ASSUME Evicted PROVE Ledgered' /\ ChunkOnce'
  BY <1>24 DEF Evicted, Ledgered, ChunkOnce, disk, scheduling, others
<1>25. ASSUME Finish PROVE Ledgered' /\ ChunkOnce'
  BY <1>25 DEF Finish, Ledgered, ChunkOnce, disk, RunnerEnds, NoJob
<1>26. ASSUME HomeFailed PROVE Ledgered' /\ ChunkOnce'
  BY <1>26 DEF HomeFailed, Ledgered, ChunkOnce, disk, RunnerEnds, NoJob
<1>27. ASSUME Stop PROVE Ledgered' /\ ChunkOnce'
  BY <1>27 DEF Stop, Ledgered, ChunkOnce, disk, RunnerEnds, NoJob
<1>28. ASSUME NEW g \in Gens, KeepUnpulled(g) PROVE Ledgered' /\ ChunkOnce'
  BY <1>28 DEF KeepUnpulled, Ledgered, ChunkOnce, disk, scheduling, others
<1>29. ASSUME NEW g \in Gens, RemoveDirectory(g) PROVE Ledgered' /\ ChunkOnce'
  BY <1>29, SizeFacts DEF TypeOK, RemoveDirectory, Ledgered, ChunkOnce, scheduling
<1>30. ASSUME NEW g \in Gens, PullGeneration(g) PROVE Ledgered' /\ ChunkOnce'
  BY <1>30 DEF PullGeneration, Ledgered, ChunkOnce, disk, scheduling
<1>31. ASSUME NEW g \in Gens, Acknowledge(g) PROVE Ledgered' /\ ChunkOnce'
  BY <1>31 DEF Acknowledge, Ledgered, ChunkOnce, scheduling, others
<1>32. ASSUME NEW g \in Gens, NEW S \in SUBSET Chunks, NEW T \in SUBSET Chunks,
              RemoveFiles(g, S, T)
       PROVE  Ledgered' /\ ChunkOnce'
  BY <1>32, SizeFacts DEF TypeOK, RemoveFiles, Ledgered, ChunkOnce, scheduling
<1>33. CASE UNCHANGED vars
  BY <1>33 DEF vars, disk, scheduling, others, Ledgered, ChunkOnce
<1>34. QED
  BY <1>1, <1>2, <1>3, <1>4, <1>5, <1>6, <1>7, <1>8, <1>9, <1>10, <1>11, <1>12, <1>13,
     <1>14, <1>15, <1>16, <1>17, <1>18, <1>19, <1>20, <1>21, <1>22, <1>23, <1>24, <1>25,
     <1>26, <1>27, <1>28, <1>29, <1>30, <1>31, <1>32, <1>33
     DEF Next, Deliveries, Scheduler, Trainer, Controller
-----------------------------------------------------------------------------
\* The generations.

\* Every step keeps one generation open, near the trainer, and what the
\* scheduler fills apart from what the trainer evicts.
LEMMA StructureStep ==
  ASSUME TypeOK, TrainerKnows, CursorsOrdered, Structure, OneOpen, PacedAhead, [Next]_vars
  PROVE  Structure' /\ OneOpen' /\ PacedAhead'
<1>1. ASSUME NEW c \in Chunks, DeliverSide(c) PROVE Structure' /\ OneOpen' /\ PacedAhead'
  BY <1>1 DEF DeliverSide, Structure, OneOpen, PacedAhead, OpenGens, scheduling, training
<1>2. ASSUME NEW c \in Chunks, DeliverSlog(c) PROVE Structure' /\ OneOpen' /\ PacedAhead'
  BY <1>2 DEF DeliverSlog, Structure, OneOpen, PacedAhead, OpenGens, scheduling, training
<1>3. ASSUME NEW c \in Chunks, Redeliver(c) PROVE Structure' /\ OneOpen' /\ PacedAhead'
  BY <1>3 DEF Redeliver, Structure, OneOpen, PacedAhead, OpenGens, scheduling, training
<1>4. ASSUME NEW c \in Chunks, SortChunk(c) PROVE Structure' /\ OneOpen' /\ PacedAhead'
  BY <1>4 DEF SortChunk, Structure, OneOpen, PacedAhead, OpenGens, disk, training, Job
<1>5. ASSUME NEW c \in Chunks, RouteHeldOut(c) PROVE Structure' /\ OneOpen' /\ PacedAhead'
  BY <1>5 DEF RouteHeldOut, Structure, OneOpen, PacedAhead, OpenGens, training, Job
<1>6. ASSUME NEW c \in Chunks, FillChunk(c) PROVE Structure' /\ OneOpen' /\ PacedAhead'
  BY <1>6 DEF FillChunk, Structure, OneOpen, PacedAhead, OpenGens, training, Job
<1>7. ASSUME TickStarts PROVE Structure' /\ OneOpen' /\ PacedAhead'
  BY <1>7 DEF TickStarts, Structure, OneOpen, PacedAhead, OpenGens, disk, training
<1>8. ASSUME Sorted PROVE Structure' /\ OneOpen' /\ PacedAhead'
  BY <1>8 DEF Sorted, Structure, OneOpen, PacedAhead, OpenGens, disk, training
<1>9. ASSUME OpenHeldOut PROVE Structure' /\ OneOpen' /\ PacedAhead'
  BY <1>9, SizeFacts
     DEF OpenHeldOut, Structure, OneOpen, PacedAhead, OpenGens, scheduling, training
<1>10. ASSUME CountHeldOut PROVE Structure' /\ OneOpen' /\ PacedAhead'
  BY <1>10, SizeFacts
     DEF TypeOK, CountHeldOut, Structure, OneOpen, PacedAhead, OpenGens, training
<1>11. ASSUME Routed PROVE Structure' /\ OneOpen' /\ PacedAhead'
  BY <1>11 DEF Routed, Structure, OneOpen, PacedAhead, OpenGens, disk, training, NoJob
<1>12. ASSUME FillOpen PROVE Structure' /\ OneOpen' /\ PacedAhead'
  <2>1. OpenGens \subseteq Nat /\ OpenGens # {} /\ OpenGens \subseteq Gens
    BY <1>12, SizeFacts DEF FillOpen, OpenGens
  <2>2. open' \in OpenGens
    BY <1>12, <2>1, MinDef DEF FillOpen
  <2>3. status'[open'] = "generating"
    BY <1>12, <2>2 DEF FillOpen, OpenGens, disk
  <2>4. UNCHANGED <<status, made, cursor, job, doomed>> /\ thread' = "filling"
        /\ thread = "draining"
    BY <1>12 DEF FillOpen, disk, training
  <2>5. QED
    BY <2>3, <2>4 DEF Structure, OneOpen, PacedAhead, OpenGens
<1>13. ASSUME ParkGenerators PROVE Structure' /\ OneOpen' /\ PacedAhead'
  BY <1>13 DEF ParkGenerators, Structure, OneOpen, PacedAhead, OpenGens, training
<1>14. ASSUME MakeDirectory PROVE Structure' /\ OneOpen' /\ PacedAhead'
  <2>1. NextIndex \in Gens /\ NextIndex \notin made /\ NextIndex <= seen + OpenAhead
    BY <1>14, NextIndexDef DEF MakeDirectory
  <2>2. status[NextIndex] = "none" /\ NextIndex \notin doomed
    BY <2>1 DEF Structure
  <2>3. NextIndex <= cursor + OpenAhead
    BY <2>1, SizeFacts DEF CursorsOrdered, TypeOK
  <2>4. /\ open' = NextIndex /\ made' = made \cup {NextIndex}
        /\ UNCHANGED <<status, cursor, job, doomed>>
        /\ thread = "draining" /\ thread' = "opening" /\ OpenGens = {}
    BY <1>14 DEF MakeDirectory, training
  <2>5. QED
    BY <2>2, <2>3, <2>4 DEF Structure, OneOpen, PacedAhead, OpenGens
<1>15. ASSUME WriteManifest PROVE Structure' /\ OneOpen' /\ PacedAhead'
  BY <1>15 DEF TypeOK, WriteManifest, Structure, OneOpen, PacedAhead, OpenGens, training
<1>16. ASSUME MarkComplete PROVE Structure' /\ OneOpen' /\ PacedAhead'
  BY <1>16 DEF MarkComplete, Structure, OneOpen, PacedAhead, OpenGens, training, NoJob
<1>17. ASSUME TickEnds PROVE Structure' /\ OneOpen' /\ PacedAhead'
  BY <1>17 DEF TickEnds, Structure, OneOpen, PacedAhead, OpenGens, training, NoJob
<1>18. ASSUME MoveSide PROVE Structure' /\ OneOpen' /\ PacedAhead'
  BY <1>18 DEF MoveSide, Structure, OneOpen, PacedAhead, OpenGens, training
<1>19. ASSUME MoveSlog PROVE Structure' /\ OneOpen' /\ PacedAhead'
  BY <1>19 DEF MoveSlog, Structure, OneOpen, PacedAhead, OpenGens, training, NoJob
<1>20. ASSUME Resume PROVE Structure' /\ OneOpen' /\ PacedAhead'
  BY <1>20, SizeFacts
     DEF TypeOK, Resume, Structure, OneOpen, PacedAhead, OpenGens, CursorsOrdered,
         TrainerKnows
<1>21. ASSUME TrainGeneration PROVE Structure' /\ OneOpen' /\ PacedAhead'
  BY <1>21 DEF TrainGeneration, Structure, OneOpen, PacedAhead, OpenGens, disk, scheduling
<1>22. ASSUME SaveCheckpoint PROVE Structure' /\ OneOpen' /\ PacedAhead'
  BY <1>22 DEF SaveCheckpoint, Structure, OneOpen, PacedAhead, OpenGens, scheduling
<1>23. ASSUME PublishCursor PROVE Structure' /\ OneOpen' /\ PacedAhead'
  <2>1. cursor <= cursor' /\ cursor \in Nat /\ cursor' \in Nat
    BY <1>23 DEF PublishCursor, CursorsOrdered, TypeOK
  <2>2. doomed' \subseteq {g \in Gens : status[g] = "complete"}
    BY <1>23 DEF PublishCursor, CompleteUpto
  <2>3. UNCHANGED <<status, made, thread, open, job>>
    BY <1>23 DEF PublishCursor, scheduling
  <2>4. \A h \in Gens : h <= cursor + OpenAhead => h <= cursor' + OpenAhead
    <3>1. \A a, b, k, n \in Nat : a <= b /\ n <= a + k => n <= b + k
      OBVIOUS
    <3>2. OpenAhead \in Nat /\ Gens \subseteq Nat
      BY SizeFacts
    <3>3. QED
      BY <2>1, <3>1, <3>2
  <2>5. open \in Gens
    BY DEF TypeOK
  <2>6. QED
    BY <2>2, <2>3, <2>4, <2>5 DEF Structure, OneOpen, PacedAhead, OpenGens
<1>24. ASSUME Evicted PROVE Structure' /\ OneOpen' /\ PacedAhead'
  BY <1>24 DEF Evicted, Structure, OneOpen, PacedAhead, OpenGens, disk, scheduling
<1>25. ASSUME Finish PROVE Structure' /\ OneOpen' /\ PacedAhead'
  BY <1>25 DEF Finish, Structure, OneOpen, PacedAhead, OpenGens, disk, RunnerEnds, NoJob
<1>26. ASSUME HomeFailed PROVE Structure' /\ OneOpen' /\ PacedAhead'
  BY <1>26 DEF HomeFailed, Structure, OneOpen, PacedAhead, OpenGens, disk, RunnerEnds, NoJob
<1>27. ASSUME Stop PROVE Structure' /\ OneOpen' /\ PacedAhead'
  BY <1>27 DEF Stop, Structure, OneOpen, PacedAhead, OpenGens, disk, RunnerEnds, NoJob
<1>28. ASSUME NEW g \in Gens, KeepUnpulled(g) PROVE Structure' /\ OneOpen' /\ PacedAhead'
  BY <1>28 DEF KeepUnpulled, Structure, OneOpen, PacedAhead, OpenGens, disk, scheduling
<1>29. ASSUME NEW g \in Gens, RemoveDirectory(g) PROVE Structure' /\ OneOpen' /\ PacedAhead'
  <2>1. doomed \subseteq Nat /\ doomed # {}
    BY <1>29, SizeFacts DEF RemoveDirectory, TrainerKnows, TypeOK
  <2>2. g \in doomed
    BY <1>29, <2>1, MinDef DEF RemoveDirectory
  <2>3. \A h \in Dirs : h # g => status'[h] = status[h]
    BY <1>29 DEF RemoveDirectory
  <2>4. status'[g] = "none"
    BY <1>29, SizeFacts DEF RemoveDirectory, TypeOK
  <2>5. status[g] # "generating"
    BY <2>2 DEF Structure, OpenGens
  <2>6. made' = made \ {g} /\ doomed' = doomed \ {g}
    BY <1>29 DEF RemoveDirectory
  <2>7. UNCHANGED <<thread, open, job, cursor>>
    BY <1>29 DEF RemoveDirectory, scheduling
  <2>8. open \in Gens
    BY DEF TypeOK
  <2>9. OpenGens' = OpenGens
    BY <2>3, <2>4, <2>5, SizeFacts DEF OpenGens
  <2>10. Structure'
    <3>1. \A h \in Gens : status'[h] # "none" => h \in made'
      <4>1. ASSUME NEW h \in Gens, status'[h] # "none" PROVE h \in made'
        <5>1. CASE h = g
          BY <2>2, <2>4, <2>6, <4>1, <5>1
        <5>2. CASE h # g
          BY <2>3, <2>6, <4>1, <5>2, SizeFacts DEF Structure
        <5>3. QED
          BY <5>1, <5>2
      <4>2. QED
        BY <4>1
    <3>2. thread = "opening" => status'[open] = "none" /\ open \in made' \ doomed'
      BY <2>2, <2>3, <2>4, <2>6, <2>8, SizeFacts DEF Structure
    <3>3. thread = "filling" => status'[open] = "generating"
      BY <2>3, <2>5, <2>8, SizeFacts DEF Structure
    <3>4. status'[Held] = status[Held]
      BY <2>3, SizeFacts
    <3>5. doomed' \subseteq made' /\ doomed' \subseteq doomed
      BY <2>6 DEF Structure
    <3>6. QED
      BY <2>7, <2>9, <3>1, <3>2, <3>3, <3>4, <3>5 DEF Structure
  <2>11. QED
    BY <2>7, <2>9, <2>10 DEF OneOpen, PacedAhead
<1>30. ASSUME NEW g \in Gens, PullGeneration(g) PROVE Structure' /\ OneOpen' /\ PacedAhead'
  BY <1>30
     DEF PullGeneration, Structure, OneOpen, PacedAhead, OpenGens, disk, scheduling,
         training
<1>31. ASSUME NEW g \in Gens, Acknowledge(g) PROVE Structure' /\ OneOpen' /\ PacedAhead'
  BY <1>31 DEF Acknowledge, Structure, OneOpen, PacedAhead, OpenGens, scheduling, training
<1>32. ASSUME NEW g \in Gens, NEW S \in SUBSET Chunks, NEW T \in SUBSET Chunks,
              RemoveFiles(g, S, T)
       PROVE  Structure' /\ OneOpen' /\ PacedAhead'
  <2>1. doomed \subseteq Nat /\ doomed # {}
    BY <1>32, SizeFacts DEF RemoveFiles, Victim, TypeOK
  <2>2. g \in doomed
    BY <1>32, <2>1, MinDef DEF RemoveFiles, Victim
  <2>3. \A h \in Dirs : h # g => status'[h] = status[h]
    BY <1>32 DEF RemoveFiles
  <2>4. status'[g] \in {status[g], "none"}
    BY <1>32 DEF RemoveFiles
  <2>5. status[g] # "generating"
    BY <2>2 DEF Structure, OpenGens
  <2>6. UNCHANGED <<made, doomed>>
    BY <1>32 DEF RemoveFiles
  <2>7. UNCHANGED <<thread, open, job, cursor>>
    BY <1>32 DEF RemoveFiles, scheduling
  <2>8. open \in Gens
    BY DEF TypeOK
  <2>9. OpenGens' = OpenGens
    BY <2>3, <2>4, <2>5, SizeFacts DEF OpenGens
  <2>10. Structure'
    <3>1. \A h \in Gens : status'[h] # "none" => h \in made'
      <4>1. ASSUME NEW h \in Gens, status'[h] # "none" PROVE h \in made'
        <5>1. CASE h = g
          BY <2>2, <2>4, <2>6, <4>1, <5>1 DEF Structure
        <5>2. CASE h # g
          BY <2>3, <2>6, <4>1, <5>2, SizeFacts DEF Structure
        <5>3. QED
          BY <5>1, <5>2
      <4>2. QED
        BY <4>1
    <3>2. thread = "opening" => status'[open] = "none" /\ open \in made' \ doomed'
      BY <2>2, <2>3, <2>4, <2>6, <2>8, SizeFacts DEF Structure
    <3>3. thread = "filling" => status'[open] = "generating"
      BY <2>3, <2>5, <2>8, SizeFacts DEF Structure
    <3>4. status'[Held] = status[Held]
      BY <2>3, SizeFacts
    <3>5. doomed' \subseteq made' /\ doomed' \subseteq doomed
      BY <2>6 DEF Structure
    <3>6. QED
      BY <2>7, <2>9, <3>1, <3>2, <3>3, <3>4, <3>5 DEF Structure
  <2>11. QED
    BY <2>7, <2>9, <2>10 DEF OneOpen, PacedAhead
<1>33. CASE UNCHANGED vars
  BY <1>33 DEF vars, disk, scheduling, training, Structure, OneOpen, PacedAhead, OpenGens
<1>34. QED
  BY <1>1, <1>2, <1>3, <1>4, <1>5, <1>6, <1>7, <1>8, <1>9, <1>10, <1>11, <1>12, <1>13,
     <1>14, <1>15, <1>16, <1>17, <1>18, <1>19, <1>20, <1>21, <1>22, <1>23, <1>24, <1>25,
     <1>26, <1>27, <1>28, <1>29, <1>30, <1>31, <1>32, <1>33
     DEF Next, Deliveries, Scheduler, Trainer, Controller
-----------------------------------------------------------------------------
\* The theorems.

\* No step adds a chunk to a complete directory or opens it again.
LEMMA FinalStep ==
  ASSUME TypeOK, Structure, [Next]_vars
  PROVE  StaysComplete
<1>1. ASSUME OpenHeldOut PROVE StaysComplete
  BY <1>1 DEF OpenHeldOut, StaysComplete
<1>2. ASSUME WriteManifest PROVE StaysComplete
  BY <1>2 DEF WriteManifest, Structure, StaysComplete
<1>3. ASSUME CountHeldOut PROVE StaysComplete
  BY <1>3 DEF CountHeldOut, TypeOK, StaysComplete
<1>4. ASSUME MarkComplete PROVE StaysComplete
  BY <1>4 DEF MarkComplete, StaysComplete
<1>5. ASSUME MoveSlog PROVE StaysComplete
  BY <1>5 DEF MoveSlog, Structure, StaysComplete
<1>6. ASSUME NEW g \in Gens, RemoveDirectory(g) PROVE StaysComplete
  BY <1>6 DEF RemoveDirectory, StaysComplete
<1>7. ASSUME NEW g \in Gens, NEW S \in SUBSET Chunks, NEW T \in SUBSET Chunks,
             RemoveFiles(g, S, T)
      PROVE  StaysComplete
  BY <1>7 DEF RemoveFiles, StaysComplete
<1>8. ASSUME TickStarts \/ Sorted \/ Routed \/ FillOpen \/
            ParkGenerators \/ MakeDirectory \/ TickEnds \/ MoveSide
      PROVE  UNCHANGED <<slog, status>>
  BY <1>8
     DEF TickStarts, Sorted, Routed, FillOpen, ParkGenerators, MakeDirectory, TickEnds,
         MoveSide, disk
<1>9. ASSUME NEW c \in Chunks, SortChunk(c) \/ RouteHeldOut(c) \/ FillChunk(c)
      PROVE  UNCHANGED <<slog, status>>
  BY <1>9 DEF SortChunk, RouteHeldOut, FillChunk, disk
<1>10. ASSUME NEW c \in Chunks, DeliverSide(c) \/ DeliverSlog(c) \/ Redeliver(c)
      PROVE  UNCHANGED <<slog, status>>
  BY <1>10 DEF DeliverSide, DeliverSlog, Redeliver
<1>11. ASSUME Resume \/ TrainGeneration \/ SaveCheckpoint \/ PublishCursor \/
            Evicted \/ Finish \/ HomeFailed \/ Stop
      PROVE  UNCHANGED <<slog, status>>
  BY <1>11
     DEF Resume, TrainGeneration, SaveCheckpoint, PublishCursor, Evicted, Finish,
         HomeFailed, Stop, disk, RunnerEnds
<1>12. ASSUME NEW g \in Gens, KeepUnpulled(g) \/ PullGeneration(g) \/ Acknowledge(g)
      PROVE  UNCHANGED <<slog, status>>
  BY <1>12 DEF KeepUnpulled, PullGeneration, Acknowledge, disk
<1>13. ASSUME UNCHANGED <<slog, status>> PROVE StaysComplete
  BY <1>13 DEF StaysComplete
<1>14. UNCHANGED vars => UNCHANGED <<slog, status>>
  BY DEF vars, disk
<1>15. QED
  BY <1>1, <1>2, <1>3, <1>4, <1>5, <1>6, <1>7, <1>8, <1>9, <1>10, <1>11, <1>12, <1>13, <1>14
     DEF Next, Deliveries, Scheduler, Trainer, Controller

\* The initial states satisfy the inductive invariant.
LEMMA InitInv == Init => DataHomeInv
<1> SUFFICES ASSUME Init PROVE DataHomeInv
  OBVIOUS
<1>1. TypeOK
  BY SizeFacts DEF Init, TypeOK
<1>2. TrainerKnows /\ Ledgered /\ ChunkOnce /\ CursorsOrdered
  BY SizeFacts DEF Init, TrainerKnows, Ledgered, ChunkOnce, CursorsOrdered, NoJob
<1>3. Structure /\ OneOpen /\ PacedAhead
  BY SizeFacts DEF Init, Structure, OneOpen, PacedAhead, OpenGens, NoJob
<1>4. QED
  BY <1>1, <1>2, <1>3 DEF DataHomeInv

\* The inductive invariant, for every home: types, cursors, chunks and
\* generations, each kept by every step given the others.
THEOREM DataHomeInvariant == Spec => []DataHomeInv
<1>1. DataHomeInv /\ [Next]_vars => DataHomeInv'
  <2> SUFFICES ASSUME DataHomeInv, [Next]_vars PROVE DataHomeInv'
    OBVIOUS
  <2>1. TypeOK'
    BY TypeStep DEF DataHomeInv
  <2>2. TrainerKnows' /\ CursorsOrdered'
    BY CursorsStep DEF DataHomeInv
  <2>3. Ledgered' /\ ChunkOnce'
    BY ChunksStep DEF DataHomeInv
  <2>4. Structure' /\ OneOpen' /\ PacedAhead'
    BY StructureStep DEF DataHomeInv
  <2>5. QED
    BY <2>1, <2>2, <2>3, <2>4 DEF DataHomeInv
<1>2. QED
  BY <1>1, InitInv, PTL DEF Spec

\* Every variable keeps its type.
THEOREM TypeCorrect == Spec => []TypeOK
<1>1. DataHomeInv => TypeOK
  BY DEF DataHomeInv
<1>2. QED
  BY <1>1, DataHomeInvariant, PTL

\* A chunk enters one directory, once, and never returns from deletion: however
\* often its file is delivered again and wherever the runner stops between the
\* ledger line and the rename.
THEOREM ChunkUsedOnce == Spec => []ChunkOnce
<1>1. DataHomeInv => ChunkOnce
  BY DEF DataHomeInv
<1>2. QED
  BY <1>1, DataHomeInvariant, PTL

\* One generation is open at a time, across every stop between a directory and
\* its manifest.
THEOREM OneGenerationOpen == Spec => []OneOpen
<1>1. DataHomeInv => OneOpen
  BY DEF DataHomeInv
<1>2. QED
  BY <1>1, DataHomeInvariant, PTL

\* The generation being filled is within open_ahead of the trainer, although
\* the scheduler decides by a cursor it read at the start of its tick.
THEOREM GeneratorsPaced == Spec => []PacedAhead
<1>1. DataHomeInv => PacedAhead
  BY DEF DataHomeInv
<1>2. QED
  BY <1>1, DataHomeInvariant, PTL

\* A complete generation, or held-out set, takes no chunk and never opens again.
THEOREM CompletionIsFinal == Spec => CompleteIsFinal
<1>1. DataHomeInv /\ [Next]_vars => [StaysComplete]_vars
  BY FinalStep DEF DataHomeInv
<1>2. QED
  BY <1>1, DataHomeInvariant, PTL DEF Spec, CompleteIsFinal

-----------------------------------------------------------------------------
\* Counting.

\* A subset of a finite set has no more elements.
LEMMA Fewer ==
  ASSUME NEW S, IsFiniteSet(S), NEW T, T \subseteq S
  PROVE  /\ IsFiniteSet(T) /\ Cardinality(T) \in Nat /\ Cardinality(S) \in Nat
         /\ Cardinality(T) <= Cardinality(S)
BY FS_Subset, FS_CardinalityType

\* One element more.
LEMMA OneMore ==
  ASSUME NEW S, IsFiniteSet(S), NEW x, NEW T, T \subseteq S \cup {x}
  PROVE  /\ IsFiniteSet(T) /\ Cardinality(T) \in Nat /\ Cardinality(S) \in Nat
         /\ Cardinality(T) <= Cardinality(S) + 1
<1>1. /\ IsFiniteSet(S \cup {x})
      /\ Cardinality(S \cup {x}) \in Nat
      /\ Cardinality(S) \in Nat
      /\ Cardinality(S \cup {x}) <= Cardinality(S) + 1
  BY FS_AddElement, FS_CardinalityType
<1>2. QED
  BY <1>1, Fewer

\* The chunks of a directory are finitely many.
LEMMA FewChunks ==
  ASSUME TypeOK, Ledgered, Accounted, NEW d \in Dirs
  PROVE  IsFiniteSet(slog[d]) /\ Cardinality(slog[d]) \in Nat
BY Fewer DEF Ledgered, Accounted

\* The trainer evicts the least generation of those it has to.
LEMMA VictimDoomed ==
  ASSUME TypeOK, TrainerKnows, NEW g \in Gens,
         Victim(g) \/ RemoveDirectory(g)
  PROVE  g \in doomed /\ g = Min(doomed)
<1>1. doomed \subseteq Nat /\ doomed # {} /\ g = Min(doomed)
  BY SizeFacts DEF Victim, RemoveDirectory, TrainerKnows, TypeOK
<1>2. QED
  BY <1>1, MinDef

\* A generation being evicted is not the one a chunk is moved into.
LEMMA VictimClosed ==
  ASSUME TypeOK, TrainerKnows, Structure, NEW g \in Gens,
         Victim(g) \/ RemoveDirectory(g), job.do = "assign"
  PROVE  job.dir # g
<1>1. g \in doomed /\ status[g] # "generating"
  BY VictimDoomed DEF Structure, OpenGens
<1>2. QED
  BY <1>1, SizeFacts DEF Structure

-----------------------------------------------------------------------------
\* What a stop loses.

\* Where no more chunks are lost, no more stops are needed.
LEMMA NoMoreLost ==
  ASSUME Accounted, Lost' \subseteq Lost, stops' = stops, TypeOK
  PROVE  Cardinality(Lost') <= stops'
<1>1. Lost \subseteq ledger
  BY DEF Lost
<1>2. IsFiniteSet(Lost)
  BY <1>1, Fewer DEF Accounted
<1>3. Cardinality(Lost') <= Cardinality(Lost) /\ Cardinality(Lost') \in Nat
      /\ Cardinality(Lost) \in Nat
  BY <1>2, Fewer
<1>4. Cardinality(Lost) <= stops /\ stops \in Nat
  BY DEF Accounted, StopLosesOne, TypeOK
<1>5. QED
  BY <1>3, <1>4

\* A stop loses the chunk of a pending move, at most.
LEMMA StopLost ==
  ASSUME TypeOK, Accounted, NEW state, RunnerEnds(state)
  PROVE  Accounted'
<1>1. UNCHANGED <<ledger, slog, spent, sent, staging, bad>> /\ job' = NoJob
      /\ stops' = stops + 1
  BY DEF RunnerEnds, disk
<1>2. Lost' \subseteq Lost \cup {job.chunk}
  BY <1>1 DEF Lost
<1>3. Lost \subseteq ledger
  BY DEF Lost
<1>4. IsFiniteSet(Lost)
  BY <1>3, Fewer DEF Accounted
<1>5. Cardinality(Lost') <= Cardinality(Lost) + 1 /\ Cardinality(Lost') \in Nat
      /\ Cardinality(Lost) \in Nat
  BY <1>2, <1>4, OneMore
<1>6. Cardinality(Lost) <= stops /\ stops \in Nat
  BY DEF Accounted, StopLosesOne, TypeOK
<1>7. Cardinality(Lost') <= stops'
  BY <1>1, <1>5, <1>6
<1>8. QED
  BY <1>1, <1>7 DEF Accounted, StopLosesOne, NoJob

\* Every step accounts for every chunk.
LEMMA AccountsStep ==
  ASSUME TypeOK, TrainerKnows, Ledgered, Structure, Accounted, [Next]_vars
  PROVE  Accounted'
<1>1. ASSUME UNCHANGED <<ledger, job, slog, spent, bad, stops, sent>>,
             staging \subseteq staging'
      PROVE  Accounted'
  BY <1>1 DEF Accounted, StopLosesOne, Lost
<1>2. ASSUME NEW c \in Chunks, DeliverSlog(c) PROVE Accounted'
  <2>1. Lost' = Lost /\ stops' = stops
    BY <1>2 DEF DeliverSlog, scheduling, Lost
  <2>2. Cardinality(Lost') <= stops'
    BY <2>1, NoMoreLost
  <2>3. QED
    BY <1>2, <2>2 DEF DeliverSlog, scheduling, Accounted, StopLosesOne
<1>3. ASSUME NEW c \in Chunks, SortChunk(c) PROVE Accounted'
  <2>1. /\ UNCHANGED <<ledger, slog, spent, bad, stops, sent, staging>>
        /\ job = NoJob
        /\ job' = Job(IF c \in ledger THEN "duplicate" ELSE "quarantine", c, Held)
    BY <1>3 DEF SortChunk, disk, others
  <2>2. Lost' \subseteq Lost
    BY <2>1, ChunkAssumption DEF Lost, NoJob, TypeOK
  <2>3. Cardinality(Lost') <= stops'
    BY <2>1, <2>2, NoMoreLost
  <2>4. QED
    BY <2>1, <2>3 DEF Accounted, StopLosesOne, Job
<1>4. ASSUME NEW c \in Chunks, RouteHeldOut(c) \/ FillChunk(c) PROVE Accounted'
  <2>1. /\ UNCHANGED <<slog, spent, bad, stops, sent, staging>>
        /\ job = NoJob
        /\ c \notin ledger
    BY <1>4 DEF RouteHeldOut, FillChunk, others, Ledgered
  <2>2. \/ /\ ledger' = ledger \cup {c}
           /\ job'.chunk = c /\ job'.do \in {"assign", "drop"}
        \/ /\ ledger' = ledger
           /\ job'.chunk = c /\ job'.do = "quarantine"
    BY <1>4 DEF RouteHeldOut, FillChunk, Job
  <2>3. Lost' \subseteq Lost
    BY <2>1, <2>2, ChunkAssumption DEF Lost, NoJob, TypeOK
  <2>4. Cardinality(Lost') <= stops'
    BY <2>1, <2>3, NoMoreLost
  <2>5. IsFiniteSet(ledger')
    BY <2>2, OneMore DEF Accounted
  <2>6. QED
    BY <2>1, <2>2, <2>4, <2>5 DEF Accounted, StopLosesOne
<1>5. ASSUME MoveSide PROVE Accounted'
  <2>1. /\ UNCHANGED <<ledger, slog, spent, bad, stops, sent, staging>>
        /\ job'.do = job.do /\ job'.chunk = job.chunk
    BY <1>5 DEF MoveSide, others
  <2>2. QED
    BY <2>1 DEF Accounted, StopLosesOne, Lost
<1>6. ASSUME MoveSlog PROVE Accounted'
  <2>1. /\ UNCHANGED <<ledger, stops, sent>>
        /\ job' = NoJob /\ job \in Jobs
        /\ staging' = staging \ {job.chunk}
        /\ bad' = IF job.do = "quarantine" THEN bad \cup {job.chunk} ELSE bad
        /\ spent' = IF job.do = "drop" THEN spent \cup {job.chunk} ELSE spent
        /\ slog' = IF job.do = "assign" THEN [slog EXCEPT ![job.dir] = @ \cup {job.chunk}]
                                        ELSE slog
    BY <1>6 DEF MoveSlog, Moving, TypeOK
  <2>2. job.do \in {"assign", "drop", "duplicate", "quarantine"} /\ job.dir \in Dirs
    BY <2>1 DEF Jobs
  <2>3. \A d \in Dirs : slog[d] \subseteq slog'[d]
    BY <2>1 DEF TypeOK
  <2>4. job.do = "assign" => job.chunk \in slog'[job.dir]
    BY <2>1, <2>2 DEF TypeOK
  <2>5. Lost' \subseteq Lost
    BY <2>1, <2>2, <2>3, <2>4 DEF Lost, Accounted
  <2>6. Cardinality(Lost') <= stops'
    BY <2>1, <2>5, NoMoreLost
  <2>7. sent' \subseteq staging' \cup bad' \cup ledger'
    BY <2>1, <2>2 DEF Accounted, StopLosesOne, Ledgered
  <2>8. QED
    BY <2>1, <2>6, <2>7 DEF Accounted, StopLosesOne, NoJob
<1>7. ASSUME NEW g \in Gens, NEW S \in SUBSET Chunks, NEW T \in SUBSET Chunks,
             RemoveFiles(g, S, T)
      PROVE  Accounted'
  <2>1. /\ UNCHANGED <<ledger, job, bad, stops, sent, staging>>
        /\ slog' = [slog EXCEPT ![g] = S]
        /\ spent' = spent \cup (slog[g] \ S)
    BY <1>7 DEF RemoveFiles, scheduling
  <2>2. Lost' \subseteq Lost
    BY <2>1, SizeFacts DEF Lost, TypeOK
  <2>3. Cardinality(Lost') <= stops'
    BY <2>1, <2>2, NoMoreLost
  <2>4. QED
    BY <2>1, <2>3 DEF Accounted, StopLosesOne
<1>8. ASSUME NEW g \in Gens, RemoveDirectory(g) PROVE Accounted'
  <2>1. /\ UNCHANGED <<ledger, job, bad, stops, sent, staging>>
        /\ slog' = [slog EXCEPT ![g] = {}]
        /\ spent' = spent \cup slog[g]
    BY <1>8 DEF RemoveDirectory, scheduling
  <2>2. Lost' \subseteq Lost
    BY <2>1, SizeFacts DEF Lost, TypeOK
  <2>3. Cardinality(Lost') <= stops'
    BY <2>1, <2>2, NoMoreLost
  <2>4. QED
    BY <2>1, <2>3 DEF Accounted, StopLosesOne
<1>9. ASSUME Finish \/ HomeFailed \/ Stop PROVE Accounted'
  BY <1>9, StopLost DEF Finish, HomeFailed, Stop
<1>10. ASSUME \/ UNCHANGED vars
              \/ TickStarts \/ Sorted \/ OpenHeldOut \/ CountHeldOut \/ Routed
              \/ FillOpen \/ ParkGenerators \/ MakeDirectory \/ WriteManifest
              \/ MarkComplete \/ TickEnds
              \/ Resume \/ TrainGeneration \/ SaveCheckpoint \/ PublishCursor \/ Evicted
       PROVE  UNCHANGED <<ledger, job, slog, spent, bad, stops, sent, staging>>
  BY <1>10
     DEF vars, TickStarts, Sorted, OpenHeldOut, CountHeldOut, Routed, FillOpen,
         ParkGenerators, MakeDirectory, WriteManifest, MarkComplete, TickEnds, Resume,
         TrainGeneration, SaveCheckpoint, PublishCursor, Evicted, disk, scheduling, others
<1>11. ASSUME NEW c \in Chunks, DeliverSide(c) \/ Redeliver(c)
       PROVE  UNCHANGED <<ledger, job, slog, spent, bad, stops, sent>>
              /\ staging \subseteq staging'
  BY <1>11 DEF DeliverSide, Redeliver, scheduling, others
<1>12. ASSUME NEW g \in Gens, KeepUnpulled(g) \/ PullGeneration(g) \/ Acknowledge(g)
       PROVE  UNCHANGED <<ledger, job, slog, spent, bad, stops, sent, staging>>
  BY <1>12 DEF KeepUnpulled, PullGeneration, Acknowledge, disk, scheduling, others
<1>13. QED
  BY <1>1, <1>2, <1>3, <1>4, <1>5, <1>6, <1>7, <1>8, <1>9, <1>10, <1>11, <1>12
     DEF Next, Deliveries, Scheduler, Trainer, Controller

-----------------------------------------------------------------------------
\* What is in the directories.

\* A generation takes a chunk only while it has room.
LEMMA AssignedStep ==
  ASSUME TypeOK, TrainerKnows, Ledgered, Structure, Accounted, Assigned, [Next]_vars
  PROVE  Assigned'
<1>1. ASSUME UNCHANGED <<job, slog>> PROVE Assigned'
  BY <1>1 DEF Assigned, DamagedNeverAssigned
<1>2. ASSUME NEW c \in Chunks, SortChunk(c) PROVE Assigned'
  BY <1>2 DEF SortChunk, disk, Assigned, DamagedNeverAssigned, Job
<1>3. ASSUME NEW c \in Chunks, RouteHeldOut(c) PROVE Assigned'
  BY <1>3 DEF RouteHeldOut, Assigned, DamagedNeverAssigned, Job
<1>4. ASSUME NEW c \in Chunks, FillChunk(c) PROVE Assigned'
  <2>1. open \in Gens /\ open # Held
    BY SizeFacts DEF TypeOK
  <2>2. QED
    BY <1>4, <2>1 DEF FillChunk, Assigned, DamagedNeverAssigned, Job
<1>5. ASSUME MoveSide PROVE Assigned'
  BY <1>5 DEF MoveSide, Assigned, DamagedNeverAssigned
<1>6. ASSUME MoveSlog PROVE Assigned'
  <2>1. job' = NoJob /\ job \in Jobs /\ job.dir \in Dirs
    BY <1>6 DEF MoveSlog, Moving, TypeOK, Jobs
  <2>2. CASE job.do # "assign"
    BY <1>6, <2>1, <2>2 DEF MoveSlog, Assigned, DamagedNeverAssigned, NoJob
  <2>3. CASE job.do = "assign"
    <3>1. \A d \in Dirs : slog'[d] = IF d = job.dir THEN slog[d] \cup {job.chunk} ELSE slog[d]
      BY <1>6, <2>1, <2>3 DEF MoveSlog, TypeOK
    <3>2. slog'[Held] \subseteq HeldOut
      BY <2>3, <3>1, SizeFacts DEF Assigned
    <3>3. DamagedNeverAssigned'
      BY <2>3, <3>1, SizeFacts DEF Assigned, DamagedNeverAssigned
    <3>4. ASSUME NEW g \in Gens PROVE Cardinality(slog'[g]) <= Target
      <4>1. CASE g = job.dir
        <5>1. Cardinality(slog[g]) < Target /\ slog'[g] = slog[g] \cup {job.chunk}
          BY <2>3, <3>1, <4>1, SizeFacts DEF Assigned
        <5>2. /\ Cardinality(slog'[g]) <= Cardinality(slog[g]) + 1
              /\ Cardinality(slog'[g]) \in Nat /\ Cardinality(slog[g]) \in Nat
          BY <5>1, FewChunks, OneMore, SizeFacts
        <5>3. QED
          BY <5>1, <5>2, SizeAssumption
      <4>2. CASE g # job.dir
        BY <3>1, <4>2, SizeFacts DEF Assigned
      <4>3. QED
        BY <4>1, <4>2
    <3>5. QED
      BY <2>1, <3>2, <3>3, <3>4 DEF Assigned, NoJob
  <2>4. QED
    BY <2>2, <2>3
<1>7. ASSUME NEW g \in Gens, NEW kept \in SUBSET slog[g],
             Victim(g) \/ RemoveDirectory(g),
             slog' = [slog EXCEPT ![g] = kept], job' = job
      PROVE  Assigned'
  <2>1. job.do = "assign" => job.dir # g
    BY <1>7, VictimClosed
  <2>2. \A d \in Dirs : slog'[d] = IF d = g THEN kept ELSE slog[d]
    BY <1>7 DEF TypeOK
  <2>3. Cardinality(kept) <= Cardinality(slog[g]) /\ Cardinality(kept) \in Nat
        /\ Cardinality(slog[g]) \in Nat
    BY FewChunks, Fewer, SizeFacts
  <2>4. \A h \in Gens : Cardinality(slog'[h]) <= Target
    BY <2>2, <2>3, SizeFacts, SizeAssumption DEF Assigned
  <2>5. slog'[Held] = slog[Held]
    BY <2>2, SizeFacts
  <2>6. DamagedNeverAssigned'
    BY <2>2, SizeFacts DEF Assigned, DamagedNeverAssigned
  <2>7. job.do = "assign" => slog'[job.dir] = slog[job.dir]
    BY <2>1, <2>2 DEF TypeOK, Jobs, NoJob
  <2>8. QED
    BY <1>7, <2>4, <2>5, <2>6, <2>7 DEF Assigned
<1>8. ASSUME NEW g \in Gens, NEW S \in SUBSET Chunks, NEW T \in SUBSET Chunks,
             RemoveFiles(g, S, T)
      PROVE  Assigned'
  BY <1>7, <1>8 DEF RemoveFiles, scheduling
<1>9. ASSUME NEW g \in Gens, RemoveDirectory(g) PROVE Assigned'
  <2>1. slog' = [slog EXCEPT ![g] = {}] /\ job' = job
    BY <1>9 DEF RemoveDirectory, scheduling
  <2>2. {} \in SUBSET slog[g]
    OBVIOUS
  <2>3. QED
    BY <1>7, <1>9, <2>1, <2>2
<1>10. ASSUME Finish \/ HomeFailed \/ Stop PROVE Assigned'
  BY <1>10
     DEF Finish, HomeFailed, Stop, RunnerEnds, disk, Assigned, DamagedNeverAssigned, NoJob
<1>11. ASSUME \/ UNCHANGED vars
              \/ TickStarts \/ Sorted \/ OpenHeldOut \/ CountHeldOut \/ Routed
              \/ FillOpen \/ ParkGenerators \/ MakeDirectory \/ WriteManifest
              \/ MarkComplete \/ TickEnds
              \/ Resume \/ TrainGeneration \/ SaveCheckpoint \/ PublishCursor \/ Evicted
       PROVE  UNCHANGED <<job, slog>>
  BY <1>11
     DEF vars, TickStarts, Sorted, OpenHeldOut, CountHeldOut, Routed, FillOpen,
         ParkGenerators, MakeDirectory, WriteManifest, MarkComplete, TickEnds, Resume,
         TrainGeneration, SaveCheckpoint, PublishCursor, Evicted, disk, scheduling
<1>12. ASSUME NEW c \in Chunks, DeliverSide(c) \/ DeliverSlog(c) \/ Redeliver(c)
       PROVE  UNCHANGED <<job, slog>>
  BY <1>12 DEF DeliverSide, DeliverSlog, Redeliver, scheduling
<1>13. ASSUME NEW g \in Gens, KeepUnpulled(g) \/ PullGeneration(g) \/ Acknowledge(g)
       PROVE  UNCHANGED <<job, slog>>
  BY <1>13 DEF KeepUnpulled, PullGeneration, Acknowledge, disk, scheduling
<1>14. QED
  BY <1>1, <1>2, <1>3, <1>4, <1>5, <1>6, <1>8, <1>9, <1>10, <1>11, <1>12, <1>13
     DEF Next, Deliveries, Scheduler, Trainer, Controller

\* A generation is complete only when it is full, and gets no chunk without its
\* sidecar.
LEMMA FilledStep ==
  ASSUME TypeOK, TrainerKnows, Ledgered, Structure, Accounted, Assigned, Filled, Trained,
         OpensAhead, [Next]_vars
  PROVE  Filled'
<1>1. ASSUME UNCHANGED <<job, slog, side, gone>>,
             \A g \in Gens : status'[g] = "complete" => status[g] = "complete"
      PROVE  Filled'
  BY <1>1 DEF Filled
<1>2. ASSUME NEW c \in Chunks, SortChunk(c) \/ RouteHeldOut(c) \/ FillChunk(c)
      PROVE  Filled'
  <2>1. UNCHANGED <<slog, side, gone, status>>
    BY <1>2 DEF SortChunk, RouteHeldOut, FillChunk, disk, others
  <2>2. Sidecars => job'.part # "slog"
    BY <1>2 DEF SortChunk, RouteHeldOut, FillChunk, Job
  <2>3. QED
    BY <2>1, <2>2 DEF Filled
<1>3. ASSUME MoveSide PROVE Filled'
  <2>1. /\ UNCHANGED <<slog, gone, status>>
        /\ job \in Jobs /\ job.dir \in Dirs
        /\ job' = [do |-> job.do, chunk |-> job.chunk, dir |-> job.dir, part |-> "slog"]
        /\ side' = IF job.do = "assign" THEN [side EXCEPT ![job.dir] = @ \cup {job.chunk}]
                                        ELSE side
    BY <1>3 DEF MoveSide, others, Moving, TypeOK, Jobs
  <2>2. \A d \in Dirs : side[d] \subseteq side'[d]
    BY <2>1 DEF TypeOK
  <2>3. job'.do = "assign" => job'.chunk \in side'[job'.dir]
    BY <2>1 DEF TypeOK
  <2>4. QED
    BY <2>1, <2>2, <2>3, SizeFacts DEF Filled
<1>4. ASSUME MoveSlog PROVE Filled'
  <2>1. /\ UNCHANGED <<side, gone, status>>
        /\ job' = NoJob /\ job \in Jobs /\ job.dir \in Dirs /\ job.part = "slog"
        /\ slog' = IF job.do = "assign" THEN [slog EXCEPT ![job.dir] = @ \cup {job.chunk}]
                                        ELSE slog
    BY <1>4 DEF MoveSlog, Moving, TypeOK, Jobs
  <2>2. CASE job.do # "assign"
    BY <2>1, <2>2 DEF Filled, NoJob
  <2>3. CASE job.do = "assign"
    <3>1. \A d \in Dirs : slog'[d] = IF d = job.dir THEN slog[d] \cup {job.chunk} ELSE slog[d]
      BY <2>1, <2>3 DEF TypeOK
    <3>2. job.dir \in Gens => status[job.dir] = "generating"
      BY <2>3, SizeFacts DEF Structure
    <3>3. \A g \in Gens : status[g] = "complete" => slog'[g] = slog[g]
      BY <3>1, <3>2, SizeFacts
    <3>4. Sidecars => \A g \in Gens \ gone : slog'[g] \subseteq side[g]
      BY <2>1, <2>3, <3>1, SizeFacts DEF Filled
    <3>5. QED
      BY <2>1, <3>3, <3>4 DEF Filled, NoJob
  <2>4. QED
    BY <2>2, <2>3
<1>5. ASSUME MarkComplete PROVE Filled'
  <2>1. /\ UNCHANGED <<job, slog, side, gone>>
        /\ status' = [status EXCEPT ![open] = "complete"]
        /\ Cardinality(slog[open]) >= Target
    BY <1>5 DEF MarkComplete, others
  <2>2. open \in Gens /\ Cardinality(slog[open]) \in Nat /\ Target \in Nat
    BY FewChunks, SizeFacts, SizeAssumption DEF TypeOK
  <2>3. Cardinality(slog[open]) = Target
    BY <2>1, <2>2 DEF Assigned
  <2>4. \A g \in Gens : status'[g] = "complete" => status[g] = "complete" \/ g = open
    BY <2>1, SizeFacts DEF TypeOK
  <2>5. QED
    BY <2>1, <2>3, <2>4 DEF Filled
<1>6. ASSUME NEW g \in Gens, Victim(g) \/ RemoveDirectory(g), g \in gone', gone \subseteq gone',
             job' = job,
             \A d \in Dirs : d # g => /\ slog'[d] = slog[d] /\ side'[d] = side[d]
                                      /\ status'[d] = status[d]
      PROVE  Filled'
  <2>1. \A h \in Gens \ gone' : h # g /\ h \in Gens \ gone /\ h \in Dirs
    BY <1>6, SizeFacts
  <2>2. job.do = "assign" => job.dir # g /\ job.dir \in Dirs
    BY <1>6, VictimClosed DEF TypeOK, Jobs, NoJob
  <2>3. \A h \in Gens \ gone' : status'[h] = "complete" => Cardinality(slog'[h]) = Target
    BY <1>6, <2>1 DEF Filled
  <2>4. Sidecars => \A h \in Gens \ gone' : slog'[h] \subseteq side'[h]
    BY <1>6, <2>1 DEF Filled
  <2>5. Sidecars /\ job.do = "assign" /\ job.part = "slog" => job.chunk \in side'[job.dir]
    BY <1>6, <2>2 DEF Filled
  <2>6. QED
    BY <1>6, <2>3, <2>4, <2>5 DEF Filled
<1>7. ASSUME NEW g \in Gens, NEW S \in SUBSET Chunks, NEW T \in SUBSET Chunks,
             RemoveFiles(g, S, T)
      PROVE  Filled'
  <2>1. g \in gone' /\ gone \subseteq gone' /\ job' = job /\ Victim(g)
    BY <1>7 DEF RemoveFiles, scheduling
  <2>2. \A d \in Dirs : d # g => /\ slog'[d] = slog[d] /\ side'[d] = side[d]
                                 /\ status'[d] = status[d]
    BY <1>7 DEF RemoveFiles, TypeOK
  <2>3. QED
    BY <1>6, <2>1, <2>2
<1>8. ASSUME NEW g \in Gens, RemoveDirectory(g) PROVE Filled'
  <2>1. gone' = gone /\ job' = job /\ trainer = "removing"
    BY <1>8 DEF RemoveDirectory, scheduling
  <2>2. g \in gone
    BY <1>8, <2>1, VictimDoomed DEF Trained
  <2>3. \A d \in Dirs : d # g => /\ slog'[d] = slog[d] /\ side'[d] = side[d]
                                 /\ status'[d] = status[d]
    BY <1>8 DEF RemoveDirectory, TypeOK
  <2>4. QED
    BY <1>6, <1>8, <2>1, <2>2, <2>3
<1>9. ASSUME Finish \/ HomeFailed \/ Stop PROVE Filled'
  BY <1>9 DEF Finish, HomeFailed, Stop, RunnerEnds, disk, Filled, NoJob
<1>10. ASSUME OpenHeldOut \/ CountHeldOut \/ WriteManifest
       PROVE  /\ UNCHANGED <<job, slog, side, gone>>
              /\ \A g \in Gens : status'[g] = "complete" => status[g] = "complete"
  BY <1>10, SizeFacts DEF OpenHeldOut, CountHeldOut, WriteManifest, scheduling, others, TypeOK
<1>11. ASSUME \/ UNCHANGED vars
              \/ TickStarts \/ Sorted \/ Routed
              \/ FillOpen \/ ParkGenerators \/ MakeDirectory \/ TickEnds
              \/ Resume \/ TrainGeneration \/ SaveCheckpoint \/ PublishCursor \/ Evicted
       PROVE  UNCHANGED <<job, slog, side, gone, status>>
  BY <1>11
     DEF vars, TickStarts, Sorted, Routed, FillOpen, ParkGenerators, MakeDirectory, TickEnds,
         Resume, TrainGeneration, SaveCheckpoint, PublishCursor, Evicted, disk, scheduling,
         others
<1>12. ASSUME NEW c \in Chunks, DeliverSide(c) \/ DeliverSlog(c) \/ Redeliver(c)
       PROVE  UNCHANGED <<job, slog, side, gone, status>>
  BY <1>12 DEF DeliverSide, DeliverSlog, Redeliver, scheduling, others
<1>13. ASSUME NEW g \in Gens, KeepUnpulled(g) \/ PullGeneration(g) \/ Acknowledge(g)
       PROVE  UNCHANGED <<job, slog, side, gone, status>>
  BY <1>13 DEF KeepUnpulled, PullGeneration, Acknowledge, disk, scheduling, others
<1>14. QED
  BY <1>1, <1>2, <1>3, <1>4, <1>5, <1>7, <1>8, <1>9, <1>10, <1>11, <1>12, <1>13
     DEF Next, Deliveries, Scheduler, Trainer, Controller

-----------------------------------------------------------------------------
\* The held-out set.

\* The set has room for one more than it holds, or a stop has been counted.
LEMMA HeldOutStep ==
  ASSUME TypeOK, TrainerKnows, Ledgered, Structure, Accounted, Assigned, HeldOutInv,
         [Next]_vars
  PROVE  HeldOutInv'
<1> DEFINE n == Cardinality(slog[Held])
<1>0. n \in Nat /\ stops \in Nat /\ HoldoutChunks \in Nat
  BY FewChunks, SizeFacts, SizeAssumption DEF TypeOK
<1>1. ASSUME slog'[Held] = slog[Held], stops' = stops,
             status'[Held] # "complete" => status[Held] # "complete",
             thread \in {"counting", "failed"} => thread' \in {"counting", "failed"}
      PROVE  HeldOutInv'
  BY <1>1 DEF HeldOutInv, HeldOutBounded, HeldOutRoom
<1>2. ASSUME CountHeldOut PROVE HeldOutInv'
  <2>1. UNCHANGED <<slog, stops>> /\ thread' # "counting"
    BY <1>2 DEF CountHeldOut, others
  <2>2. n < HoldoutChunks \/ thread' = "failed" \/ status'[Held] = "complete"
    BY <1>2, SizeFacts DEF CountHeldOut, TypeOK
  <2>3. n < HoldoutChunks => n < HoldoutChunks + stops
    BY <1>0
  <2>4. QED
    BY <2>1, <2>2, <2>3 DEF HeldOutInv, HeldOutBounded, HeldOutRoom
<1>3. ASSUME MoveSlog PROVE HeldOutInv'
  <2>1. /\ UNCHANGED <<status, stops>>
        /\ job \in Jobs /\ job.dir \in Dirs
        /\ thread' = IF job.do = "assign" /\ job.dir = Held THEN "counting" ELSE thread
        /\ slog' = IF job.do = "assign" THEN [slog EXCEPT ![job.dir] = @ \cup {job.chunk}]
                                        ELSE slog
    BY <1>3 DEF MoveSlog, Moving, TypeOK, Jobs
  <2>2. CASE ~(job.do = "assign" /\ job.dir = Held)
    <3>1. slog'[Held] = slog[Held]
      BY <2>1, <2>2, SizeFacts DEF TypeOK
    <3>2. QED
      BY <1>1, <2>1, <2>2, <3>1
  <2>3. CASE job.do = "assign" /\ job.dir = Held
    <3>1. thread = "routing" /\ status[Held] # "complete"
      BY <2>3, SizeFacts DEF Structure, TypeOK
    <3>2. HeldOut # {}
      BY <2>3 DEF Assigned
    <3>3. n < HoldoutChunks + stops
      BY <3>1, <3>2 DEF HeldOutInv, HeldOutRoom
    <3>4. slog'[Held] = slog[Held] \cup {job.chunk}
      BY <2>1, <2>3, SizeFacts DEF TypeOK
    <3>5. Cardinality(slog'[Held]) <= n + 1 /\ Cardinality(slog'[Held]) \in Nat
      BY <3>4, FewChunks, OneMore, SizeFacts
    <3>6. Cardinality(slog'[Held]) <= HoldoutChunks + stops
      <4> DEFINE k == Cardinality(slog'[Held])
      <4>1. k <= n + 1 /\ k \in Nat
        BY <3>5
      <4> HIDE DEF k, n
      <4>2. k <= HoldoutChunks + stops
        BY <1>0, <3>3, <4>1
      <4>3. QED
        BY <4>2 DEF k
    <3>7. QED
      BY <2>1, <2>3, <3>6 DEF HeldOutInv, HeldOutBounded, HeldOutRoom
  <2>4. QED
    BY <2>2, <2>3
<1>4. ASSUME NEW state, RunnerEnds(state) PROVE HeldOutInv'
  <2>1. slog' = slog /\ stops' = stops + 1
    BY <1>4 DEF RunnerEnds, disk
  <2>2. n <= HoldoutChunks + stops
    BY DEF HeldOutInv, HeldOutBounded
  <2>3. n <= HoldoutChunks + (stops + 1) /\ n < HoldoutChunks + (stops + 1)
    <3> HIDE DEF n
    <3>1. QED
      BY <1>0, <2>2
  <2>4. QED
    BY <2>1, <2>3 DEF HeldOutInv, HeldOutBounded, HeldOutRoom
<1>5. ASSUME Finish \/ HomeFailed \/ Stop PROVE HeldOutInv'
  BY <1>4, <1>5 DEF Finish, HomeFailed, Stop
<1>6. ASSUME WriteManifest \/ MarkComplete PROVE HeldOutInv'
  <2>1. open \in Dirs /\ open # Held
    BY SizeFacts DEF TypeOK
  <2>2. status'[Held] = status[Held]
    BY <1>6, <2>1, SizeFacts DEF WriteManifest, MarkComplete, TypeOK
  <2>3. UNCHANGED <<slog, stops>> /\ thread \notin {"counting", "failed"}
    BY <1>6 DEF WriteManifest, MarkComplete, others
  <2>4. QED
    BY <1>1, <2>2, <2>3
<1>7. ASSUME OpenHeldOut PROVE HeldOutInv'
  BY <1>1, <1>7, SizeFacts DEF OpenHeldOut, scheduling, others, TypeOK
<1>8. ASSUME Resume PROVE HeldOutInv'
  BY <1>1, <1>8 DEF Resume, others, TrainerKnows
<1>9. ASSUME NEW g \in Gens, NEW S \in SUBSET Chunks, NEW T \in SUBSET Chunks,
             RemoveFiles(g, S, T)
      PROVE  HeldOutInv'
  <2>1. slog'[Held] = slog[Held] /\ status'[Held] = status[Held]
    BY <1>9, SizeFacts DEF RemoveFiles, TypeOK
  <2>2. UNCHANGED <<stops, thread>>
    BY <1>9 DEF RemoveFiles, scheduling
  <2>3. QED
    BY <1>1, <2>1, <2>2
<1>10. ASSUME NEW g \in Gens, RemoveDirectory(g) PROVE HeldOutInv'
  <2>1. slog'[Held] = slog[Held] /\ status'[Held] = status[Held]
    BY <1>10, SizeFacts DEF RemoveDirectory, TypeOK
  <2>2. UNCHANGED <<stops, thread>>
    BY <1>10 DEF RemoveDirectory, scheduling
  <2>3. QED
    BY <1>1, <2>1, <2>2
<1>11. ASSUME TickStarts \/ Sorted \/ Routed \/ FillOpen \/ ParkGenerators \/ MakeDirectory
              \/ TickEnds
       PROVE  UNCHANGED <<slog, stops, status>> /\ thread \notin {"counting", "failed"}
  BY <1>11
     DEF TickStarts, Sorted, Routed, FillOpen, ParkGenerators, MakeDirectory, TickEnds, disk,
         others
<1>12. ASSUME \/ UNCHANGED vars \/ MoveSide \/ TrainGeneration \/ SaveCheckpoint
              \/ PublishCursor \/ Evicted
       PROVE  UNCHANGED <<slog, stops, status, thread>>
  BY <1>12
     DEF vars, MoveSide, TrainGeneration, SaveCheckpoint, PublishCursor, Evicted, disk,
         scheduling, others
<1>13. ASSUME NEW c \in Chunks, \/ DeliverSide(c) \/ DeliverSlog(c) \/ Redeliver(c)
                                \/ SortChunk(c) \/ RouteHeldOut(c) \/ FillChunk(c)
       PROVE  UNCHANGED <<slog, stops, status, thread>>
  BY <1>13
     DEF DeliverSide, DeliverSlog, Redeliver, SortChunk, RouteHeldOut, FillChunk, disk,
         scheduling, others
<1>14. ASSUME NEW g \in Gens, KeepUnpulled(g) \/ PullGeneration(g) \/ Acknowledge(g)
       PROVE  UNCHANGED <<slog, stops, status, thread>>
  BY <1>14 DEF KeepUnpulled, PullGeneration, Acknowledge, disk, scheduling, others
<1>15. QED
  BY <1>1, <1>2, <1>3, <1>5, <1>6, <1>7, <1>8, <1>9, <1>10, <1>11, <1>12, <1>13, <1>14
     DEF Next, Deliveries, Scheduler, Trainer, Controller

-----------------------------------------------------------------------------
\* The trainer's window.

\* What is past the trainer but not behind the window is complete.
LEMMA WindowIntact ==
  ASSUME TypeOK, Trained, NEW h \in Gens, h < model, Window = 0 \/ h + Window >= model
  PROVE  status[h] = "complete" /\ h \notin gone
<1>1. h \in Nat /\ Window \in Nat /\ model \in Nat
  BY SizeFacts, SizeAssumption DEF TypeOK
<1>2. h \notin gone
  BY <1>1 DEF Trained
<1>3. QED
  BY <1>2 DEF Trained

\* The next index is past the trainer and past every generation there is.
LEMMA NextIndexPast ==
  ASSUME TypeOK, Structure, Trained
  PROVE  /\ NextIndex >= model
         /\ \A g \in Gens : g >= NextIndex => status[g] = "none"
<1> DEFINE S == {seen} \cup {g + 1 : g \in made \ {Held}}
           n == Last + OpenAhead + 1
<1>1. made \ {Held} \subseteq Gens /\ seen \in 0 .. Last
  BY DEF TypeOK, Dirs
<1>2. S \subseteq 0 .. n /\ S # {} /\ n \in Nat
  BY <1>1, SizeFacts DEF Gens
<1>3. NextIndex \in S /\ \A y \in S : y <= NextIndex
  <2>1. NextIndex = Max(S)
    BY DEF NextIndex
  <2> HIDE DEF S, n
  <2>2. QED
    BY <1>2, <2>1, MaxDef
<1>4. NextIndex \in Nat
  BY <1>2, <1>3
<1>5. ASSUME NEW g \in Gens, status[g] # "none" PROVE g + 1 <= NextIndex
  <2>1. g \in made \ {Held}
    BY <1>5, SizeFacts DEF Structure
  <2>2. QED
    BY <1>3, <2>1
<1>6. NextIndex >= model
  <2>1. CASE model = 0
    BY <1>4, <2>1
  <2>2. CASE model # 0
    <3>1. /\ model \in Nat /\ Window \in Nat
          /\ model - 1 \in Gens /\ model - 1 < model
          /\ Window = 0 \/ (model - 1) + Window >= model
          /\ (model - 1) + 1 = model
      BY <2>2, SizeFacts, SizeAssumption DEF TypeOK, Gens
    <3>2. status[model - 1] = "complete"
      BY <3>1, WindowIntact
    <3>3. (model - 1) + 1 <= NextIndex
      BY <1>5, <3>1, <3>2
    <3>4. QED
      BY <1>4, <3>1, <3>3
  <2>3. QED
    BY <2>1, <2>2
<1>7. ASSUME NEW g \in Gens, g >= NextIndex PROVE status[g] = "none"
  <2>1. g \in Nat /\ ~(g + 1 <= NextIndex)
    BY <1>4, <1>7, SizeFacts
  <2>2. QED
    BY <1>5, <2>1
<1>8. QED
  BY <1>6, <1>7

\* What is to be evicted is behind the window.
LEMMA BehindWindow ==
  ASSUME TypeOK, CursorsOrdered, PublishCursor, NEW g \in doomed'
  PROVE  g \in Gens /\ status[g] = "complete" /\ Window > 0 /\ g + Window < model
<1> DEFINE complete == CompleteUpto(index - 1)
           later == {h \in complete : h > g}
<1>1. index = model /\ model \in Nat /\ Window \in Nat
  BY SizeAssumption DEF PublishCursor, CursorsOrdered, TypeOK
<1>2. g \in complete /\ g \notin WindowGens(index - 1)
  BY DEF PublishCursor
<1>3. g \in Gens /\ g \in Nat /\ g <= model - 1 /\ status[g] = "complete"
  BY <1>1, <1>2, SizeFacts DEF CompleteUpto
<1>4. Window > 0 /\ ~(Cardinality(later) < Window)
  BY <1>1, <1>2 DEF WindowGens
<1>5. later \subseteq g + 1 .. model - 1
  <2> SUFFICES ASSUME NEW h \in Gens, h <= index - 1, h > g PROVE h \in g + 1 .. model - 1
    BY DEF CompleteUpto
  <2>1. h \in Nat
    BY SizeFacts
  <2>2. QED
    BY <1>1, <1>3, <2>1
<1>6. IsFiniteSet(g + 1 .. model - 1) /\ Cardinality(g + 1 .. model - 1) = model - 1 - g
  <2>1. g + 1 \in Int /\ model - 1 \in Int
    BY <1>1, <1>3
  <2>2. /\ IsFiniteSet(g + 1 .. model - 1)
        /\ Cardinality(g + 1 .. model - 1)
             = IF g + 1 > model - 1 THEN 0 ELSE (model - 1) - (g + 1) + 1
    BY <2>1, FS_Interval
  <2>3. QED
    BY <1>1, <1>3, <2>2
<1>7. Cardinality(later) <= model - 1 - g /\ Cardinality(later) \in Nat
  <2> HIDE DEF later
  <2>1. QED
    BY <1>5, <1>6, Fewer
<1>8. g + Window < model
  <2> HIDE DEF later
  <2>1. QED
    BY <1>1, <1>3, <1>4, <1>7
<1>9. QED
  BY <1>3, <1>4, <1>8

\* Every step keeps the trainer's place among the generations.
LEMMA TrainedStep ==
  ASSUME TypeOK, TrainerKnows, CursorsOrdered, Structure, CursorFollows, Trained,
         OpensAhead, [Next]_vars
  PROVE  CursorFollows' /\ Trained' /\ OpensAhead'
<1> USE DEF CursorFollows, Trained, OpensAhead
<1>0. /\ model \in Nat /\ cursor \in Nat /\ Window \in Nat /\ open \in Nat
      /\ Gens \subseteq Nat /\ open \in Gens
  BY SizeFacts, SizeAssumption DEF TypeOK
<1>1. ASSUME UNCHANGED <<gone, doomed, trainer, index, model, cursor>>,
             \A g \in Gens : status'[g] = status[g],
             thread' # "opening" \/ (thread' = thread /\ open' = open),
             index \in Gens
      PROVE  CursorFollows' /\ Trained' /\ OpensAhead'
  <2>1. CursorFollows'
    BY <1>1
  <2>2. \A g \in gone \cup doomed : g \in Gens
    BY DEF TypeOK
  <2>3. Trained'
    BY <1>1, <2>2
  <2>4. OpensAhead'
    BY <1>1 DEF OpenGens
  <2>5. QED
    BY <2>1, <2>3, <2>4
<1>2. index \in Gens
  BY SizeFacts DEF TypeOK, Gens
<1>3. ASSUME MakeDirectory PROVE CursorFollows' /\ Trained' /\ OpensAhead'
  <2>1. /\ UNCHANGED <<gone, doomed, trainer, index, model, cursor, status>>
        /\ open' = NextIndex
    BY <1>3 DEF MakeDirectory, training, others
  <2>2. NextIndex >= model /\ \A g \in Gens : g >= NextIndex => status[g] = "none"
    BY NextIndexPast
  <2>3. QED
    BY <2>1, <2>2 DEF OpenGens
<1>4. ASSUME WriteManifest PROVE CursorFollows' /\ Trained' /\ OpensAhead'
  <2>1. /\ UNCHANGED <<gone, doomed, trainer, index, model, cursor>>
        /\ thread = "opening" /\ thread' = "filling"
        /\ status' = [status EXCEPT ![open] = "generating"]
    BY <1>4 DEF WriteManifest, training, others
  <2>2. \A g \in Gens : g # open => status'[g] = status[g]
    BY <2>1, SizeFacts DEF TypeOK
  <2>3. open >= model /\ status[open] = "none"
    BY <2>1 DEF Structure
  <2>4. open \notin gone /\ open \notin doomed
    BY <1>0, <2>3
  <2>5. Trained'
    BY <1>0, <1>2, <2>1, <2>2, <2>3, <2>4 DEF TypeOK
  <2>6. OpensAhead'
    BY <2>1, <2>2, <2>4 DEF OpenGens
  <2>7. QED
    BY <2>1, <2>5, <2>6
<1>5. ASSUME MarkComplete PROVE CursorFollows' /\ Trained' /\ OpensAhead'
  <2>1. /\ UNCHANGED <<gone, doomed, trainer, index, model, cursor>>
        /\ thread' = "draining"
        /\ status' = [status EXCEPT ![open] = "complete"]
    BY <1>5 DEF MarkComplete, training, others
  <2>2. \A g \in Gens : status'[g] = status[g] \/ status'[g] = "complete"
    BY <2>1, SizeFacts DEF TypeOK
  <2>3. QED
    BY <1>2, <2>1, <2>2 DEF OpenGens, TypeOK
<1>6. ASSUME Resume PROVE CursorFollows' /\ Trained' /\ OpensAhead'
  <2>1. /\ UNCHANGED <<gone, doomed, model, status>>
        /\ cursor' = model /\ trainer' = "waiting" /\ thread' = "idle"
    BY <1>6 DEF Resume, others
  <2>2. QED
    BY <2>1 DEF OpenGens
<1>7. ASSUME TrainGeneration PROVE CursorFollows' /\ Trained' /\ OpensAhead'
  <2>1. /\ UNCHANGED <<gone, doomed, model, status, cursor, thread, open, index>>
        /\ trainer = "waiting" /\ trainer' = "training" /\ status[index] = "complete"
    BY <1>7 DEF TrainGeneration, others, disk, scheduling
  <2>2. QED
    BY <2>1 DEF OpenGens
<1>8. ASSUME SaveCheckpoint PROVE CursorFollows' /\ Trained' /\ OpensAhead'
  <2>1. /\ UNCHANGED <<gone, doomed, status, cursor, thread, open>>
        /\ trainer = "training" /\ trainer' = "saved" /\ model' = index + 1
    BY <1>8 DEF SaveCheckpoint, others, scheduling
  <2>2. index = model /\ status[model] = "complete"
    BY <2>1 DEF CursorsOrdered
  <2>3. cursor' = model' - 1 /\ trainer' # "training" /\ trainer' # "removing"
    BY <1>0, <2>1, <2>2
  <2>4. \A g \in Gens : g < model' => g < model \/ g = model
    BY <1>0, <2>1, <2>2
  <2>5. \A g \in gone \cup doomed : Window > 0 /\ g + Window < model'
    <3>1. gone \cup doomed \subseteq Nat
      BY <1>0 DEF TypeOK
    <3>2. QED
      BY <1>0, <2>1, <2>2, <3>1
  <2>6. thread = "opening" => open >= model'
    <3>1. thread = "opening" => open # model /\ open >= model
      BY <2>2 DEF Structure
    <3>2. QED
      BY <1>0, <2>1, <2>2, <3>1
  <2>7. OpensAhead'
    BY <2>1, <2>6 DEF OpenGens
  <2>8. Trained'
    BY <2>1, <2>2, <2>3, <2>4, <2>5
  <2>9. QED
    BY <2>1, <2>3, <2>7, <2>8
<1>9. ASSUME PublishCursor PROVE CursorFollows' /\ Trained' /\ OpensAhead'
  <2>1. /\ UNCHANGED <<gone, model, status, thread, open>>
        /\ trainer = "saved" /\ trainer' = "evicting" /\ cursor' = index
    BY <1>9 DEF PublishCursor, others, scheduling
  <2>2. index = model
    BY <2>1 DEF CursorsOrdered
  <2>3. \A g \in doomed' : g \in Gens /\ status[g] = "complete" /\ Window > 0
                           /\ g + Window < model
    BY <1>9, BehindWindow
  <2>4. QED
    BY <2>1, <2>2, <2>3 DEF OpenGens
<1>10. ASSUME NEW state, RunnerEnds(state), state \in {"down", "done"}
       PROVE  CursorFollows' /\ Trained' /\ OpensAhead'
  <2>1. /\ UNCHANGED <<gone, model, status, cursor>>
        /\ trainer' \in {"down", "done"} /\ doomed' = {} /\ thread' = "off"
    BY <1>10 DEF RunnerEnds, disk
  <2>2. QED
    BY <2>1 DEF OpenGens
<1>11. ASSUME Finish \/ HomeFailed \/ Stop PROVE CursorFollows' /\ Trained' /\ OpensAhead'
  BY <1>10, <1>11 DEF Finish, HomeFailed, Stop
<1>12. ASSUME NEW g \in Gens, KeepUnpulled(g) PROVE CursorFollows' /\ Trained' /\ OpensAhead'
  <2>1. /\ UNCHANGED <<gone, model, status, cursor, trainer, index, thread, open>>
        /\ trainer = "evicting" /\ doomed' = doomed \ {g}
    BY <1>12 DEF KeepUnpulled, Victim, disk, scheduling, others
  <2>2. QED
    BY <2>1 DEF OpenGens
<1>13. ASSUME Evicted PROVE CursorFollows' /\ Trained' /\ OpensAhead'
  <2>1. /\ UNCHANGED <<gone, doomed, model, status, cursor, index, thread, open>>
        /\ trainer = "evicting" /\ trainer' = "waiting"
    BY <1>13 DEF Evicted, disk, scheduling, others
  <2>2. QED
    BY <2>1 DEF OpenGens
<1>14. ASSUME NEW g \in Gens, NEW S \in SUBSET Chunks, NEW T \in SUBSET Chunks,
              RemoveFiles(g, S, T)
       PROVE  CursorFollows' /\ Trained' /\ OpensAhead'
  <2>1. /\ UNCHANGED <<doomed, model, cursor, index, thread, open>>
        /\ trainer = "evicting" /\ trainer' = "removing"
        /\ gone' = gone \cup {g}
        /\ Victim(g)
    BY <1>14 DEF RemoveFiles, Victim, scheduling
  <2>2. g \in doomed /\ g = Min(doomed)
    BY <2>1, VictimDoomed
  <2>3. /\ \A h \in Gens : h # g => status'[h] = status[h]
        /\ status'[g] \in {status[g], "none"}
    <3>1. PICK kept \in {status[g], "none"} : status' = [status EXCEPT ![g] = kept]
      BY <1>14 DEF RemoveFiles
    <3>2. QED
      BY <3>1, SizeFacts DEF TypeOK
  <2>4. Trained'
    BY <2>1, <2>2, <2>3 DEF TypeOK
  <2>5. OpensAhead'
    <3>1. OpenGens' \subseteq OpenGens
      BY <2>3 DEF OpenGens
    <3>2. g \notin OpenGens
      BY <2>2 DEF Structure
    <3>3. thread' = "opening" => \A h \in Gens : h >= open' => status'[h] = "none"
      BY <2>1, <2>3
    <3>4. QED
      BY <2>1, <3>1, <3>2, <3>3
  <2>6. QED
    BY <2>1, <2>4, <2>5
<1>15. ASSUME NEW g \in Gens, RemoveDirectory(g)
       PROVE  CursorFollows' /\ Trained' /\ OpensAhead'
  <2>1. /\ UNCHANGED <<gone, model, cursor, index, thread, open>>
        /\ trainer = "removing" /\ trainer' = "evicting"
        /\ doomed' = doomed \ {g}
    BY <1>15 DEF RemoveDirectory, scheduling
  <2>2. g \in doomed /\ g \in gone
    BY <1>15, <2>1, VictimDoomed
  <2>3. /\ \A h \in Gens : h # g => status'[h] = status[h]
        /\ status'[g] = "none"
    BY <1>15, SizeFacts DEF RemoveDirectory, TypeOK
  <2>4. Trained'
    <3>1. \A h \in Gens : h < model' => status'[h] = "complete" \/ h \in gone'
      BY <2>1, <2>2, <2>3
    <3>2. \A h \in doomed' : status'[h] = "complete" \/ h \in gone'
      BY <2>1, <2>3 DEF TypeOK
    <3>3. QED
      BY <2>1, <3>1, <3>2
  <2>5. OpensAhead'
    BY <2>1, <2>3 DEF OpenGens
  <2>6. QED
    BY <2>1, <2>4, <2>5
<1>16. ASSUME OpenHeldOut \/ CountHeldOut
       PROVE  /\ UNCHANGED <<gone, doomed, trainer, index, model, cursor>>
              /\ \A g \in Gens : status'[g] = status[g]
              /\ thread' # "opening" \/ (thread' = thread /\ open' = open)
  BY <1>16, SizeFacts
     DEF OpenHeldOut, CountHeldOut, scheduling, training, others, TypeOK
<1>17. ASSUME TickStarts \/ Sorted \/ Routed \/ FillOpen \/ ParkGenerators \/ TickEnds
       PROVE  /\ UNCHANGED <<gone, doomed, trainer, index, model, cursor, status>>
              /\ thread' # "opening" \/ (thread' = thread /\ open' = open)
  BY <1>17
     DEF TickStarts, Sorted, Routed, FillOpen, ParkGenerators, TickEnds, disk, training,
         others
<1>18. ASSUME MoveSide \/ UNCHANGED vars
       PROVE  UNCHANGED <<gone, doomed, trainer, index, model, cursor, status, thread, open>>
  BY <1>18 DEF MoveSide, vars, disk, scheduling, training, others
<1>19. ASSUME MoveSlog
       PROVE  /\ UNCHANGED <<gone, doomed, trainer, index, model, cursor, status>>
              /\ thread' # "opening" \/ (thread' = thread /\ open' = open)
  BY <1>19 DEF MoveSlog, training
<1>20. ASSUME NEW c \in Chunks, \/ DeliverSide(c) \/ DeliverSlog(c) \/ Redeliver(c)
                                \/ SortChunk(c) \/ RouteHeldOut(c) \/ FillChunk(c)
       PROVE  UNCHANGED <<gone, doomed, trainer, index, model, cursor, status, thread, open>>
  BY <1>20
     DEF DeliverSide, DeliverSlog, Redeliver, SortChunk, RouteHeldOut, FillChunk, disk,
         scheduling, training, others
<1>21. ASSUME NEW g \in Gens, PullGeneration(g) \/ Acknowledge(g)
       PROVE  UNCHANGED <<gone, doomed, trainer, index, model, cursor, status, thread, open>>
  BY <1>21 DEF PullGeneration, Acknowledge, disk, scheduling, training, others
<1> HIDE DEF CursorFollows, Trained, OpensAhead
<1> USE DEF Next, Deliveries, Scheduler, Trainer, Controller
<1>22. CASE Deliveries
  BY <1>1, <1>2, <1>20, <1>22
<1>23. CASE Scheduler
  <2>1. CASE OpenHeldOut \/ CountHeldOut
    BY <1>1, <1>2, <1>16, <2>1
  <2>2. CASE TickStarts \/ Sorted \/ Routed \/ FillOpen \/ ParkGenerators \/ TickEnds
    BY <1>1, <1>2, <1>17, <2>2
  <2>3. CASE MoveSlog
    BY <1>1, <1>2, <1>19, <2>3
  <2>4. CASE MoveSide \/ \E c \in Chunks : SortChunk(c) \/ RouteHeldOut(c) \/ FillChunk(c)
    BY <1>1, <1>2, <1>20, <1>18, <2>4
  <2>5. QED
    BY <1>3, <1>4, <1>5, <1>23, <2>1, <2>2, <2>3, <2>4
<1>24. CASE Trainer
  BY <1>6, <1>7, <1>8, <1>9, <1>11, <1>12, <1>13, <1>14, <1>15, <1>24
<1>25. CASE Controller
  BY <1>1, <1>2, <1>21, <1>25
<1>26. CASE Stop \/ UNCHANGED vars
  BY <1>1, <1>2, <1>11, <1>26, <1>18
<1>27. QED
  BY <1>22, <1>23, <1>24, <1>25, <1>26

\* What the trainer finds complete up to its index is its whole window.
LEMMA WindowRead ==
  ASSUME TypeOK, CursorsOrdered, Trained, TrainGeneration
  PROVE  WindowGens(index) = {g \in Gens : g <= index /\ (Window = 0 \/ g > index - Window)}
<1>1. /\ index = model /\ model \in Nat /\ Window \in Nat /\ Gens \subseteq Nat
      /\ status[model] = "complete"
  BY SizeFacts, SizeAssumption DEF TrainGeneration, CursorsOrdered, TypeOK
<1>2. ASSUME NEW g \in Gens, g <= model, Window = 0 \/ g > model - Window
      PROVE  status[g] = "complete"
  <2>1. g \in Nat /\ (g = model \/ g < model) /\ (Window = 0 \/ g + Window >= model)
    BY <1>1, <1>2
  <2>2. QED
    BY <1>1, <2>1, WindowIntact
<1>3. CASE Window = 0
  BY <1>1, <1>2, <1>3 DEF WindowGens, CompleteUpto
<1>4. CASE Window > 0
  <2> DEFINE complete == CompleteUpto(model)
             later(g) == {h \in complete : h > g}
  <2>1. complete = {g \in Gens : g <= model /\ status[g] = "complete"}
    BY DEF CompleteUpto
  <2>2. WindowGens(index) = {g \in complete : Cardinality(later(g)) < Window}
    BY <1>1, <1>4 DEF WindowGens
  <2>3. ASSUME NEW g \in Gens, g <= model, g > model - Window
        PROVE  g \in complete /\ Cardinality(later(g)) < Window
    <3>1. g \in Nat /\ g \in complete
      BY <1>1, <1>2, <2>1, <2>3
    <3>2. later(g) \subseteq g + 1 .. model
      <4> SUFFICES ASSUME NEW h \in Gens, h <= model, h > g PROVE h \in g + 1 .. model
        BY <2>1
      <4>1. QED
        BY <1>1, <3>1
    <3>3. /\ IsFiniteSet(g + 1 .. model)
          /\ Cardinality(g + 1 .. model) = IF g + 1 > model THEN 0 ELSE model - (g + 1) + 1
      BY <1>1, <3>1, FS_Interval
    <3>4. Cardinality(later(g)) <= Cardinality(g + 1 .. model)
          /\ Cardinality(later(g)) \in Nat
      <4> HIDE DEF later
      <4>1. QED
        BY <3>2, <3>3, Fewer
    <3>5. Cardinality(later(g)) < Window
      <4> HIDE DEF later
      <4>1. QED
        BY <1>1, <1>4, <2>3, <3>1, <3>3, <3>4
    <3>6. QED
      BY <3>1, <3>5
  <2>4. ASSUME NEW g \in complete, Cardinality(later(g)) < Window
        PROVE  g > model - Window
    <3>1. g \in Gens /\ g \in Nat /\ g <= model
      BY <1>1, <2>1, <2>4
    <3>2. SUFFICES ASSUME ~(g > model - Window) PROVE FALSE
      OBVIOUS
    <3>3. g + Window <= model
      BY <1>1, <3>1, <3>2
    <3>4. (model - Window) + 1 .. model \subseteq later(g)
      <4> SUFFICES ASSUME NEW h \in (model - Window) + 1 .. model PROVE h \in later(g)
        OBVIOUS
      <4>1. h \in Nat /\ h <= model /\ h > g /\ h > model - Window
        BY <1>1, <3>1, <3>3
      <4>2. h \in Gens
        BY <4>1, <1>1, SizeFacts DEF Gens, TypeOK
      <4>3. QED
        BY <1>2, <2>1, <4>1, <4>2
    <3>5. Cardinality((model - Window) + 1 .. model) = Window
      <4>1. Cardinality((model - Window) + 1 .. model)
              = IF (model - Window) + 1 > model THEN 0 ELSE model - ((model - Window) + 1) + 1
        BY <1>1, FS_Interval
      <4>2. QED
        BY <1>1, <1>4, <4>1
    <3>6. IsFiniteSet(later(g))
      <4>1. later(g) \subseteq 0 .. model
        <5> SUFFICES ASSUME NEW h \in Gens, h <= model PROVE h \in 0 .. model
          BY <2>1
        <5>1. QED
          BY <1>1
      <4>2. IsFiniteSet(0 .. model)
        BY <1>1, FS_Interval
      <4> HIDE DEF later
      <4>3. QED
        BY <4>1, <4>2, Fewer
    <3>7. Window <= Cardinality(later(g)) /\ Cardinality(later(g)) \in Nat
      <4> HIDE DEF later
      <4>1. QED
        BY <3>4, <3>5, <3>6, Fewer
    <3> HIDE DEF later
    <3>8. QED
      BY <1>1, <2>4, <3>7
  <2>5. \A g \in complete : g \in Gens /\ g <= model
    BY <2>1
  <2> HIDE DEF complete, later
  <2>6. WindowGens(index) = {g \in Gens : g <= model /\ g > model - Window}
    BY <2>2, <2>3, <2>4, <2>5
  <2>7. \A g \in Gens : (Window = 0 \/ g > model - Window) <=> g > model - Window
    BY <1>1, <1>4
  <2>8. QED
    BY <1>1, <2>6, <2>7
<1>5. QED
  BY <1>1, <1>3, <1>4

\* The trainer's epoch reads its whole window, to the end.
LEMMA WindowStep ==
  ASSUME TypeOK, CursorsOrdered, Trained, WindowWhole, [Next]_vars,
         TypeOK', CursorsOrdered', Filled', Trained'
  PROVE  WindowWhole'
<1> SUFFICES ASSUME trainer' = "training" PROVE WindowWhole'
  BY DEF WindowWhole
<1>1. TrainGeneration \/ UNCHANGED <<trainer, index, reading>>
  <2> USE DEF Next, Deliveries, Scheduler, Trainer, Controller
  <2>1. CASE Deliveries
    BY <2>1 DEF DeliverSide, DeliverSlog, Redeliver, training
  <2>2. CASE Scheduler
    BY <2>2
       DEF TickStarts, Sorted, OpenHeldOut, CountHeldOut, Routed, FillOpen, ParkGenerators,
           MakeDirectory, WriteManifest, MarkComplete, TickEnds, MoveSide, MoveSlog,
           SortChunk, RouteHeldOut, FillChunk, training
  <2>3. CASE Trainer
    BY <2>3
       DEF Resume, SaveCheckpoint, PublishCursor, Evicted, Finish, HomeFailed, RunnerEnds,
           KeepUnpulled, RemoveDirectory, RemoveFiles
  <2>4. CASE Controller
    BY <2>4 DEF PullGeneration, Acknowledge, training
  <2>5. CASE Stop \/ UNCHANGED vars
    BY <2>5 DEF Stop, RunnerEnds, vars, training
  <2>6. QED
    BY <2>1, <2>2, <2>3, <2>4, <2>5
<1>2. reading' = {g \in Gens : g <= index' /\ (Window = 0 \/ g > index' - Window)}
  <2>1. CASE TrainGeneration
    BY <2>1, WindowRead DEF TrainGeneration
  <2>2. CASE UNCHANGED <<trainer, index, reading>>
    BY <2>2 DEF WindowWhole
  <2>3. QED
    BY <1>1, <2>1, <2>2
<1>3. /\ index' = model' /\ model' \in Nat /\ Window \in Nat /\ Gens \subseteq Nat
      /\ status'[index'] = "complete"
  BY SizeFacts, SizeAssumption DEF CursorsOrdered, TypeOK, Trained
<1>4. ASSUME NEW g \in reading' PROVE g \in Gens \ gone' /\ status'[g] = "complete"
  <2>0. g \in Gens /\ g <= model' /\ (Window = 0 \/ g > model' - Window)
    BY <1>2, <1>3, <1>4
  <2>1. g \in Nat
    BY <1>3, <2>0
  <2>2. g = model' \/ g < model'
    BY <1>3, <2>0, <2>1
  <2>3. Window = 0 \/ ~(g + Window < model')
    <3>1. \A a, w, m \in Nat : a > m - w => ~(a + w < m)
      OBVIOUS
    <3>2. QED
      BY <1>3, <2>0, <2>1, <3>1
  <2>4. g \notin gone'
    BY <1>3, <2>3 DEF Trained
  <2>5. QED
    BY <1>3, <2>0, <2>2, <2>4 DEF Trained
<1>5. \A g \in reading' : Cardinality(slog'[g]) = Target
                          /\ (Sidecars => slog'[g] \subseteq side'[g])
  BY <1>4 DEF Filled
<1>6. \A g \in reading' : Cardinality(slog'[g]) >= Target
  <2>1. Target >= Target
    BY SizeAssumption
  <2>2. QED
    BY <1>5, <2>1
<1>7. QED
  BY <1>2, <1>5, <1>6 DEF WindowWhole

-----------------------------------------------------------------------------
\* The theorems.

\* The initial states satisfy the inductive invariant.
LEMMA InitHome == Init => HomeInv
<1> SUFFICES ASSUME Init PROVE HomeInv
  OBVIOUS
<1>1. DataHomeInv
  BY InitInv
<1>2. Accounted
  <2>1. Lost = {} /\ stops = 0
    BY DEF Init, Lost
  <2>2. QED
    BY <2>1, FS_EmptySet DEF Init, Accounted, StopLosesOne, NoJob
<1>3. Assigned
  <2>1. 0 <= Target
    BY SizeAssumption
  <2>2. QED
    BY <2>1, FS_EmptySet, SizeFacts DEF Init, Assigned, DamagedNeverAssigned, NoJob
<1>4. Filled
  BY SizeFacts DEF Init, Filled, NoJob
<1>5. CursorFollows
  BY DEF Init, CursorFollows
<1>6. Trained
  <2>1. \A g \in Gens : ~(g < 0)
    BY SizeFacts
  <2>2. QED
    BY <2>1 DEF Init, Trained
<1>7. OpensAhead /\ WindowWhole
  BY DEF Init, OpensAhead, OpenGens, WindowWhole
<1>8. QED
  BY <1>1, <1>2, <1>3, <1>4, <1>5, <1>6, <1>7 DEF HomeInv

\* The whole inductive invariant, for every home.
THEOREM HomeInvariant == Spec => []HomeInv
<1>1. HomeInv /\ DataHomeInv' /\ [Next]_vars => HomeInv'
  <2> SUFFICES ASSUME HomeInv, DataHomeInv', [Next]_vars PROVE HomeInv'
    OBVIOUS
  <2> USE DEF HomeInv, DataHomeInv
  <2>1. Accounted'
    BY AccountsStep
  <2>2. Assigned'
    BY AssignedStep
  <2>3. Filled'
    BY FilledStep
  <2>4. CursorFollows' /\ Trained' /\ OpensAhead'
    BY TrainedStep
  <2>5. WindowWhole'
    BY <2>3, <2>4, WindowStep
  <2>6. QED
    BY <2>1, <2>2, <2>3, <2>4, <2>5
<1>2. QED
  BY <1>1, InitHome, DataHomeInvariant, PTL DEF Spec

\* A stop loses at most the chunk it caught between ledger line and rename:
\* every other delivered chunk is in staging, in quarantine or where it belongs.
THEOREM LossBounded == Spec => []StopLosesOne
<1>1. HomeInv => StopLosesOne
  BY DEF HomeInv, Accounted
<1>2. QED
  BY <1>1, HomeInvariant, PTL

\* No generation takes a chunk whose header could not be read.
THEOREM DamagedKeptOut == Spec => []DamagedNeverAssigned
<1>1. HomeInv => DamagedNeverAssigned
  BY DEF HomeInv, Assigned
<1>2. QED
  BY <1>1, HomeInvariant, PTL

\* What an epoch reads is its whole window, every chunk of it with its sidecar,
\* although the trainer evicts and the scheduler fills on threads of their own
\* and either may be cut short anywhere.
THEOREM WindowsWhole == Spec => []WindowWhole
<1>1. HomeInv => WindowWhole
  BY DEF HomeInv
<1>2. QED
  BY <1>1, HomeInvariant, PTL

\* The held-out set outgrows its size by at most one chunk per stop, if that
\* size is not 0 or nothing is held out.  (A set of size 0 takes one chunk: it
\* is counted only after a chunk is moved into it.)
THEOREM HeldOutSetBounded ==
  ASSUME HoldoutChunks # 0 \/ HeldOut = {}
  PROVE  Spec => []HeldOutBounded
<1>1. Init => HeldOutInv
  <2> SUFFICES ASSUME Init PROVE HeldOutInv
    OBVIOUS
  <2>1. Cardinality(slog[Held]) = 0 /\ stops = 0
    BY FS_EmptySet, SizeFacts DEF Init
  <2>2. HoldoutChunks \in Nat
    BY SizeAssumption
  <2>3. 0 <= HoldoutChunks + 0 /\ (HeldOut = {} \/ 0 < HoldoutChunks + 0)
    BY <2>2
  <2>4. QED
    BY <2>1, <2>3 DEF HeldOutInv, HeldOutBounded, HeldOutRoom
<1>2. HomeInv /\ HeldOutInv /\ [Next]_vars => HeldOutInv'
  BY HeldOutStep DEF HomeInv, DataHomeInv
<1>3. HeldOutInv => HeldOutBounded
  BY DEF HeldOutInv
<1>4. QED
  BY <1>1, <1>2, <1>3, HomeInvariant, PTL DEF Spec


-----------------------------------------------------------------------------
\* The data home implements GenerationFlow, by ledger, directories, manifests
\* and the published cursor.

\* Its constants.
LEMMA FlowSets == Flow!Gens = Gens /\ Flow!Dirs = Dirs /\ Flow!Held = Held
BY DEF Flow!Gens, Flow!Dirs, Flow!Held, Gens, Dirs, Held

\* Its count of a set.
LEMMA FlowCounts == \A S : Flow!Cardinality(S) = Cardinality(S)
BY DEF Flow!Cardinality, Cardinality

LEMMA InitFlow == Init => Flow!Init
<1> SUFFICES ASSUME Init PROVE Flow!Init
  OBVIOUS
<1>1. Used = {}
  BY DEF Init, Used
<1>2. Content = [d \in Dirs |-> {}]
  BY DEF Init, Content
<1>3. GenPhases = [g \in Gens |-> "none"]
  BY SizeFacts DEF Init, GenPhases, Phase
<1>4. cursor = 0
  BY DEF Init
<1>5. QED
  BY <1>1, <1>2, <1>3, <1>4, FlowSets DEF Flow!Init

\* What a step leaves alone leaves the flow alone.
LEMMA SameUsed == ASSUME UNCHANGED <<ledger, job>> PROVE Used' = Used
BY DEF Used

LEMMA SameContent == ASSUME UNCHANGED <<slog, gone>> PROVE Content' = Content
BY DEF Content

LEMMA SamePhases ==
  ASSUME gone' = gone, \A g \in Gens : status'[g] = status[g]
  PROVE  GenPhases' = GenPhases
BY DEF GenPhases, Phase

\* A chunk that is ledgered, with a move pending, is not used yet.
LEMMA PendingUnused ==
  ASSUME TypeOK, Ledgered, NEW c \in Chunks, c \notin ledger,
         ledger' = ledger \cup {c}, job = NoJob,
         job'.chunk = c, job'.do \in {"assign", "drop"}
  PROVE  Used' = Used
BY DEF Used, NoJob

\* A stop drops the chunk of a pending move: it is ledgered, and nowhere.
LEMMA StopDrops ==
  ASSUME TypeOK, Ledgered, NEW state, RunnerEnds(state)
  PROVE  \/ UNCHANGED Flow!vars
         \/ \E c \in Chunks : Flow!Drop(c)
<1>1. UNCHANGED <<ledger, slog, gone, status, cursor>> /\ job' = NoJob
  BY DEF RunnerEnds, disk
<1>2. UNCHANGED <<Content, GenPhases, cursor>>
  BY <1>1, SameContent, SamePhases
<1>3. Used' = ledger
  BY <1>1 DEF Used, NoJob
<1>4. CASE job.do \in {"assign", "drop"}
  <2>1. job.chunk \in Chunks /\ job.chunk \in ledger
    BY <1>4 DEF Ledgered, TypeOK
  <2>2. job.chunk \notin Used /\ Used' = Used \cup {job.chunk}
    BY <1>3, <1>4, <2>1 DEF Used
  <2>3. Flow!Drop(job.chunk)
    BY <1>2, <2>2 DEF Flow!Drop
  <2>4. QED
    BY <2>1, <2>3
<1>5. CASE job.do \notin {"assign", "drop"}
  <2>1. Used = ledger
    BY <1>5 DEF Used
  <2>2. QED
    BY <1>2, <1>3, <2>1 DEF Flow!vars
<1>6. QED
  BY <1>4, <1>5

\* The move of a .slog uses its chunk, or drops it.
LEMMA MoveUses ==
  ASSUME TypeOK, Ledgered, Structure, Accounted, Assigned, OpensAhead, MoveSlog
  PROVE  \/ UNCHANGED Flow!vars
         \/ \E c \in Chunks : Flow!Drop(c) \/ \E d \in Dirs : Flow!Use(c, d)
<1>1. /\ UNCHANGED <<ledger, gone, status, cursor>> /\ job' = NoJob
      /\ job \in Jobs
      /\ slog' = IF job.do = "assign" THEN [slog EXCEPT ![job.dir] = @ \cup {job.chunk}]
                                      ELSE slog
  BY DEF MoveSlog, Moving, TypeOK
<1>2. job.chunk \in Chunks /\ job.dir \in Dirs
  BY <1>1 DEF Jobs
<1>3. GenPhases' = GenPhases /\ Used' = ledger
  BY <1>1, SamePhases DEF Used, NoJob
<1>4. CASE job.do = "assign"
  <2>1. job.chunk \notin Used /\ Used' = Used \cup {job.chunk}
    BY <1>3, <1>4 DEF Used, Ledgered
  <2>2. ASSUME job.dir \in Gens
        PROVE  /\ job.dir \notin gone /\ GenPhases[job.dir] = "open"
               /\ Cardinality(Content[job.dir]) < Target
    <3>1. job.dir # Held
      BY <2>2, SizeFacts
    <3>2. status[job.dir] = "generating"
      BY <1>4, <3>1 DEF Structure
    <3>3. job.dir \notin gone
      BY <2>2, <3>2 DEF OpensAhead, OpenGens
    <3>4. Content[job.dir] = slog[job.dir]
      BY <1>2, <3>3 DEF Content
    <3>5. Cardinality(slog[job.dir]) < Target
      BY <1>4, <3>1 DEF Assigned
    <3>6. QED
      BY <2>2, <3>2, <3>3, <3>4, <3>5 DEF GenPhases, Phase
  <2>3. job.dir \notin gone
    BY <2>2, <1>2, SizeFacts DEF TypeOK, Dirs
  <2>4. Content' = [Content EXCEPT ![job.dir] = @ \cup {job.chunk}]
    BY <1>1, <1>2, <1>4, <2>3 DEF Content, TypeOK
  <2>5. Flow!Use(job.chunk, job.dir)
    BY <1>1, <1>3, <2>1, <2>2, <2>4, FlowSets, FlowCounts DEF Flow!Use
  <2>6. QED
    BY <1>2, <2>5
<1>5. CASE job.do = "drop"
  <2>1. job.chunk \notin Used /\ Used' = Used \cup {job.chunk}
    BY <1>3, <1>5 DEF Used, Ledgered
  <2>2. Content' = Content
    BY <1>1, <1>5, SameContent
  <2>3. Flow!Drop(job.chunk)
    BY <1>1, <1>3, <2>1, <2>2 DEF Flow!Drop
  <2>4. QED
    BY <1>2, <2>3
<1>6. CASE job.do \notin {"assign", "drop"}
  <2>1. Used' = Used
    BY <1>3, <1>6 DEF Used
  <2>2. Content' = Content
    BY <1>1, <1>6, SameContent
  <2>3. QED
    BY <1>1, <1>3, <2>1, <2>2 DEF Flow!vars
<1>7. QED
  BY <1>4, <1>5, <1>6

\* A manifest opens its generation.
LEMMA ManifestOpens ==
  ASSUME TypeOK, CursorsOrdered, Structure, Trained, OpensAhead, WriteManifest
  PROVE  Flow!Open(open)
<1>1. /\ UNCHANGED <<ledger, job, slog, gone, cursor>>
      /\ thread = "opening"
      /\ status' = [status EXCEPT ![open] = "generating"]
      /\ open \in Gens
  BY DEF WriteManifest, others, TypeOK
<1>2. /\ Gens \subseteq Nat /\ model \in Nat /\ cursor \in Nat /\ Window \in Nat
      /\ gone \subseteq Gens
  BY SizeFacts, SizeAssumption DEF TypeOK
<1>3. cursor <= open /\ open <= cursor + OpenAhead
  BY <1>1, <1>2 DEF CursorsOrdered, OpensAhead, Structure
<1>4. \A g \in gone : g < model
  BY <1>2 DEF Trained
<1>5. ASSUME NEW h \in Gens
      PROVE  GenPhases[h] # "open" /\ (h >= open => GenPhases[h] = "none")
  <2>1. status[h] # "generating"
    BY <1>1 DEF Structure, OpenGens
  <2>2. status[h] \in {"none", "complete"}
    BY <2>1, SizeFacts DEF TypeOK
  <2>3. h >= open => h \notin gone /\ status[h] = "none"
    BY <1>1, <1>2, <1>4 DEF OpensAhead
  <2>4. QED
    BY <2>2, <2>3 DEF GenPhases, Phase
<1>6. GenPhases' = [GenPhases EXCEPT ![open] = "open"]
  <2>1. open \notin gone
    BY <1>1, <1>2, <1>4 DEF OpensAhead
  <2>2. \A g \in Gens : status'[g] = IF g = open THEN "generating" ELSE status[g]
    BY <1>1, SizeFacts DEF TypeOK
  <2>3. QED
    BY <1>1, <2>1, <2>2 DEF GenPhases, Phase
<1>7. QED
  BY <1>1, <1>3, <1>5, <1>6, SameUsed, SameContent, FlowSets DEF Flow!Open

\* A generation is complete when it has its count of chunks, exactly.
LEMMA CompletesFull ==
  ASSUME TypeOK, Ledgered, Structure, Accounted, Assigned, OpensAhead, MarkComplete
  PROVE  Flow!Complete(open)
<1>1. /\ UNCHANGED <<ledger, job, slog, gone, cursor>>
      /\ status' = [status EXCEPT ![open] = "complete"]
      /\ open \in Gens /\ status[open] = "generating"
      /\ Cardinality(slog[open]) >= Target
  BY DEF MarkComplete, others, TypeOK, Structure
<1>2. open \notin gone /\ GenPhases[open] = "open" /\ Content[open] = slog[open]
  BY <1>1, SizeFacts DEF OpensAhead, OpenGens, GenPhases, Phase, Content
<1>3. Cardinality(Content[open]) = Target
  <2>1. Cardinality(slog[open]) <= Target
    BY <1>1 DEF Assigned
  <2>2. Cardinality(slog[open]) \in Nat /\ Target \in Nat
    BY <1>1, FewChunks, SizeFacts, SizeAssumption
  <2>3. QED
    BY <1>1, <1>2, <2>1, <2>2
<1>4. GenPhases' = [GenPhases EXCEPT ![open] = "complete"]
  <2>1. \A g \in Gens : status'[g] = IF g = open THEN "complete" ELSE status[g]
    BY <1>1, SizeFacts DEF TypeOK
  <2>2. open \notin gone
    BY <1>2
  <2>3. \A g \in Gens : Phase(g)' = IF g = open THEN "complete" ELSE Phase(g)
    BY <1>1, <2>1, <2>2 DEF Phase
  <2>4. QED
    BY <2>3 DEF GenPhases
<1>5. QED
  BY <1>1, <1>2, <1>3, <1>4, SameUsed, SameContent, FlowCounts DEF Flow!Complete

\* The published cursor passes one complete generation at a time, also when a
\* restarted runner catches it up with the checkpoint.
LEMMA CursorTrains ==
  ASSUME TypeOK, CursorsOrdered, CursorFollows, Trained, Resume \/ PublishCursor
  PROVE  UNCHANGED Flow!vars \/ Flow!Train
<1>1. UNCHANGED <<ledger, job, slog, gone, status>> /\ cursor' = model
  BY DEF Resume, PublishCursor, scheduling, others, CursorsOrdered
<1>2. UNCHANGED <<Used, Content, GenPhases>>
  BY <1>1, SameUsed, SameContent, SamePhases
<1>3. CASE cursor = model
  BY <1>1, <1>2, <1>3 DEF Flow!vars
<1>4. CASE cursor = model - 1
  <2>1. /\ cursor \in 0 .. Last /\ model \in 0 .. Last /\ Window \in Nat
        /\ Last \in Nat /\ OpenAhead \in Nat
    BY SizeFacts, SizeAssumption DEF TypeOK
  <2>2. cursor \in Gens /\ cursor < model /\ cursor' = cursor + 1
    BY <1>1, <1>4, <2>1 DEF Gens
  <2>3. cursor \notin gone
    BY <1>4, <2>1 DEF Trained
  <2>4. status[cursor] = "complete"
    BY <2>2, <2>3 DEF Trained
  <2>5. GenPhases[cursor] = "complete"
    BY <2>2, <2>3, <2>4 DEF GenPhases, Phase
  <2>6. QED
    BY <1>2, <2>2, <2>5, FlowSets DEF Flow!Train
<1>5. QED
  BY <1>3, <1>4 DEF CursorFollows

\* An eviction takes a complete generation with a whole window after it, and
\* its chunks with it.
LEMMA RemovalEvicts ==
  ASSUME TypeOK, TrainerKnows, CursorFollows, Trained,
         NEW g \in Gens, NEW S \in SUBSET Chunks, NEW T \in SUBSET Chunks,
         RemoveFiles(g, S, T)
  PROVE  UNCHANGED Flow!vars \/ Flow!Evict(g)
<1>1. /\ UNCHANGED <<ledger, job, cursor>>
      /\ slog' = [slog EXCEPT ![g] = S]
      /\ gone' = gone \cup {g}
      /\ \E kept \in {status[g], "none"} : status' = [status EXCEPT ![g] = kept]
      /\ trainer = "evicting" /\ Victim(g)
  BY DEF RemoveFiles, scheduling, Victim
<1>2. Used' = Used
  BY <1>1, SameUsed
<1>3. /\ \A d \in Dirs : d # g => slog'[d] = slog[d]
      /\ \A h \in Gens : h # g => status'[h] = status[h]
  BY <1>1, SizeFacts DEF TypeOK
<1>4. CASE g \in gone
  <2>1. gone' = gone
    BY <1>1, <1>4
  <2>2. Content' = Content
    BY <1>3, <1>4, <2>1 DEF Content
  <2>3. GenPhases' = GenPhases
    BY <1>3, <1>4, <2>1 DEF GenPhases, Phase
  <2>4. QED
    BY <1>1, <1>2, <2>2, <2>3 DEF Flow!vars
<1>5. CASE g \notin gone
  <2>1. g \in doomed
    BY <1>1, VictimDoomed
  <2>2. /\ Window \in Nat /\ model \in 0 .. Last /\ g \in Nat /\ Gens \subseteq Nat
        /\ Last \in Nat /\ OpenAhead \in Nat
    BY SizeFacts, SizeAssumption DEF TypeOK
  <2>3. /\ Window > 0 /\ g + Window < model /\ status[g] = "complete"
        /\ cursor = model
    BY <1>1, <1>5, <2>1 DEF Trained, CursorFollows
  <2>4. GenPhases[g] = "complete"
    BY <1>5, <2>3 DEF GenPhases, Phase
  <2>5. Content' = [Content EXCEPT ![g] = {}]
    BY <1>1, <1>3, SizeFacts DEF Content
  <2>6. GenPhases' = [GenPhases EXCEPT ![g] = "evicted"]
    BY <1>1, <1>3 DEF GenPhases, Phase
  <2>7. Cardinality({h \in g + 1 .. cursor - 1 : GenPhases[h] = "complete"}) >= Window
    <3> DEFINE W == model - Window .. model - 1
               C == {h \in g + 1 .. cursor - 1 : GenPhases[h] = "complete"}
    <3>1. ASSUME NEW h \in W PROVE h \in C
      <4>1. h \in Nat /\ h >= model - Window /\ h < model /\ h \in g + 1 .. cursor - 1
            /\ h \in Gens
        BY <2>2, <2>3 DEF Gens
      <4>2. h \notin gone
        BY <2>2, <4>1 DEF Trained
      <4>3. status[h] = "complete"
        BY <4>1, <4>2 DEF Trained
      <4>4. QED
        BY <4>1, <4>2, <4>3 DEF GenPhases, Phase
    <3>2. Cardinality(W) = Window
      <4>1. /\ model - Window \in Int /\ model - 1 \in Int
            /\ model - Window <= model - 1
            /\ (model - 1) - (model - Window) + 1 = Window
        BY <2>2, <2>3
      <4>2. QED
        BY <4>1, FS_Interval
    <3>3. IsFiniteSet(C)
      <4>1. IsFiniteSet(g + 1 .. cursor - 1)
        BY <2>2, <2>3, FS_Interval
      <4>2. QED
        BY <4>1, Fewer
    <3>4. Cardinality(W) <= Cardinality(C) /\ Cardinality(C) \in Nat
          /\ Cardinality(W) \in Nat
      <4> HIDE DEF W, C
      <4>1. W \subseteq C
        BY <3>1
      <4>2. QED
        BY <3>3, <4>1, Fewer
    <3>5. QED
      BY <3>2, <3>4, <2>2
  <2>8. QED
    BY <1>1, <1>2, <2>3, <2>4, <2>5, <2>6, <2>7, FlowCounts DEF Flow!Evict
<1>6. QED
  BY <1>4, <1>5

\* Every other step stutters, and so each step of the home is one of the flow.
LEMMA FlowStep ==
  ASSUME HomeInv, [Next]_vars
  PROVE  [Flow!Next]_(Flow!vars)
<1> USE DEF HomeInv, DataHomeInv
<1>1. ASSUME UNCHANGED <<ledger, job, slog, gone, cursor>>,
             \A g \in Gens : status'[g] = status[g]
      PROVE  UNCHANGED Flow!vars
  BY <1>1, SameUsed, SameContent, SamePhases DEF Flow!vars
<1>2. ASSUME NEW c \in Chunks, SortChunk(c) PROVE UNCHANGED Flow!vars
  <2>1. UNCHANGED <<ledger, slog, gone, status, cursor>> /\ job = NoJob
        /\ job'.do \in {"duplicate", "quarantine"}
    BY <1>2 DEF SortChunk, disk, others, Job
  <2>2. Used' = Used
    BY <2>1 DEF Used, NoJob
  <2>3. QED
    BY <2>1, <2>2, SameContent, SamePhases DEF Flow!vars
<1>3. ASSUME NEW c \in Chunks, RouteHeldOut(c) \/ FillChunk(c) PROVE UNCHANGED Flow!vars
  <2>1. UNCHANGED <<slog, gone, status, cursor>> /\ job = NoJob /\ c \notin ledger
    BY <1>3 DEF RouteHeldOut, FillChunk, others, Ledgered
  <2>2. \/ /\ ledger' = ledger \cup {c}
           /\ job'.chunk = c /\ job'.do \in {"assign", "drop"}
        \/ ledger' = ledger /\ job'.do = "quarantine"
    BY <1>3 DEF RouteHeldOut, FillChunk, Job
  <2>3. Used' = Used
    BY <2>1, <2>2, PendingUnused DEF Used, NoJob
  <2>4. QED
    BY <2>1, <2>3, SameContent, SamePhases DEF Flow!vars
<1>4. ASSUME MoveSide PROVE UNCHANGED Flow!vars
  <2>1. UNCHANGED <<ledger, slog, gone, status, cursor>>
        /\ job'.do = job.do /\ job'.chunk = job.chunk
    BY <1>4 DEF MoveSide, others
  <2>2. Used' = Used
    BY <2>1 DEF Used
  <2>3. QED
    BY <2>1, <2>2, SameContent, SamePhases DEF Flow!vars
<1>5. ASSUME OpenHeldOut \/ CountHeldOut PROVE UNCHANGED Flow!vars
  <2>1. UNCHANGED <<ledger, job, slog, gone, cursor>>
    BY <1>5 DEF OpenHeldOut, CountHeldOut, scheduling, others
  <2>2. \A g \in Gens : status'[g] = status[g]
    BY <1>5, SizeFacts DEF OpenHeldOut, CountHeldOut, TypeOK
  <2>3. QED
    BY <1>1, <2>1, <2>2
<1>6. ASSUME NEW g \in Gens, RemoveDirectory(g) PROVE UNCHANGED Flow!vars
  <2>1. UNCHANGED <<ledger, job, gone, cursor>>
        /\ slog' = [slog EXCEPT ![g] = {}] /\ status' = [status EXCEPT ![g] = "none"]
        /\ trainer = "removing" /\ g = Min(doomed)
    BY <1>6 DEF RemoveDirectory, scheduling
  <2>2. g \in gone
    BY <2>1 DEF Trained
  <2>3. \A d \in Dirs : d # g => slog'[d] = slog[d] /\ status'[d] = status[d]
    BY <2>1 DEF TypeOK
  <2>4. Content' = Content
    BY <2>1, <2>2, <2>3 DEF Content
  <2>5. GenPhases' = GenPhases
    BY <2>1, <2>2, <2>3, SizeFacts DEF GenPhases, Phase
  <2>6. QED
    BY <2>1, <2>4, <2>5, SameUsed DEF Flow!vars
<1>7. ASSUME \/ UNCHANGED vars
             \/ TickStarts \/ Sorted \/ Routed \/ FillOpen \/ ParkGenerators
             \/ MakeDirectory \/ TickEnds
             \/ TrainGeneration \/ SaveCheckpoint \/ Evicted
      PROVE  UNCHANGED Flow!vars
  <2>1. UNCHANGED <<ledger, job, slog, gone, cursor, status>>
    BY <1>7
       DEF vars, TickStarts, Sorted, Routed, FillOpen, ParkGenerators, MakeDirectory,
           TickEnds, TrainGeneration, SaveCheckpoint, Evicted, disk, scheduling, others
  <2>2. QED
    BY <1>1, <2>1
<1>8. ASSUME NEW c \in Chunks, DeliverSide(c) \/ DeliverSlog(c) \/ Redeliver(c)
      PROVE  UNCHANGED Flow!vars
  BY <1>1, <1>8 DEF DeliverSide, DeliverSlog, Redeliver, scheduling, others
<1>9. ASSUME NEW g \in Gens, KeepUnpulled(g) \/ PullGeneration(g) \/ Acknowledge(g)
      PROVE  UNCHANGED Flow!vars
  BY <1>1, <1>9 DEF KeepUnpulled, PullGeneration, Acknowledge, disk, scheduling, others
<1>10. ASSUME Finish \/ HomeFailed \/ Stop PROVE UNCHANGED Flow!vars \/ Flow!Next
  BY <1>10, StopDrops DEF Finish, HomeFailed, Stop, Flow!Next
<1>11. ASSUME MoveSlog PROVE UNCHANGED Flow!vars \/ Flow!Next
  BY <1>11, MoveUses, FlowSets DEF Flow!Next
<1>12. ASSUME WriteManifest \/ MarkComplete PROVE Flow!Next
  <2>1. open \in Gens
    BY DEF TypeOK
  <2>2. QED
    BY <1>12, <2>1, ManifestOpens, CompletesFull, FlowSets DEF Flow!Next
<1>13. ASSUME Resume \/ PublishCursor PROVE UNCHANGED Flow!vars \/ Flow!Next
  BY <1>13, CursorTrains DEF Flow!Next
<1>14. ASSUME NEW g \in Gens, NEW S \in SUBSET Chunks, NEW T \in SUBSET Chunks,
              RemoveFiles(g, S, T)
       PROVE  UNCHANGED Flow!vars \/ Flow!Next
  BY <1>14, RemovalEvicts, FlowSets DEF Flow!Next
<1>15. QED
  BY <1>2, <1>3, <1>4, <1>5, <1>6, <1>7, <1>8, <1>9, <1>10, <1>11, <1>12, <1>13, <1>14
     DEF Next, Deliveries, Scheduler, Trainer, Controller

\* The data home implements the abstract flow of chunks through generations:
\* files, ledger, both threads and every stop are steps of it or stutters.
THEOREM HomeImplementsFlow == Spec => ImplementsFlow
BY InitFlow, FlowStep, HomeInvariant, PTL DEF Spec, ImplementsFlow, Flow!Spec
=============================================================================
