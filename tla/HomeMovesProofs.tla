-------------------------- MODULE HomeMovesProofs --------------------------
(***************************************************************************)
(* Proofs about a data home that is placed, fed, copied, replaced, moved   *)
(* and lost, for every number of chunks, generations, pauses and faults,   *)
(* every target, window and pace: the cursor rule, that the copy here      *)
(* never goes back, that what the home may evict is here, that a chunk     *)
(* enters one generation, that no chunk delivered goes missing before the  *)
(* cursor here has passed it, and that a trainer that starts finds its     *)
(* window whole, the last two but for what went with an unswept volume.    *)
(* They are about runs in which no sweep meets a half-installed pair       *)
(* (~Overlap).                                                             *)
(***************************************************************************)
EXTENDS HomeMovesProps, FiniteSetTheorems, WellFoundedInduction, TLAPS

Tree == [staging : SUBSET Chunks, gens : [Gens -> GenSort], ledger : SUBSET Chunks,
         model : Rows, cursor : Rows]
Volume == [staging : SUBSET Chunks, gens : [Gens -> GenSort], ledger : SUBSET Chunks,
           model : Rows, cursor : Rows, acked : SUBSET Gens, out : SUBSET Rows,
           seed : [model : Rows, cursor : Rows]]
Box == [state : {"none", "missing", "stopped", "running", "exited", "finished"},
        seeded : BOOLEAN]
Trainer == [at : {"off", "seed", "work", "publish", "evict"}, index : Rows,
            queue : SUBSET Rows, pushed : BOOLEAN]
Thread == [at : {"idle", "remove", "install", "cursor", "relay", "unlink", "copy",
                 "ack", "trim"},
           pairs : SUBSET Rows, chunks : SUBSET Chunks, gen : Gens]

-----------------------------------------------------------------------------
\* What the model's operators return.

\* The constants, and the sets of generations and rows.
LEMMA Constants ==
  /\ Last \in Nat /\ OpenAhead \in Nat /\ Window \in Nat /\ MaxChunks \in Nat
  /\ Rows \subseteq Gens /\ Gens \subseteq Nat /\ Chunks \subseteq Nat
  /\ 0 \in Rows /\ 0 \in Gens
BY MovesAssumption DEF MovesAssumption, Rows, Gens, Chunks

\* A set of naturals has a least element, which Min names.
LEMMA MinDef ==
  ASSUME NEW S, S \subseteq Nat, S # {}
  PROVE  Min(S) \in S /\ \A y \in S : Min(S) <= y
<1> DEFINE R == OpToRel(<, Nat)
<1>1. \A x, y \in Nat : x < y => <<x, y>> \in R
  BY DEF OpToRel
<1>2. IsWellFoundedOn(R, Nat)
  BY NatLessThanWellFounded
<1> HIDE DEF R
<1>3. PICK x \in S : \A y \in S : ~(<<y, x>> \in R)
  BY <1>2, WFMin
<1>4. ASSUME NEW y \in S PROVE x <= y
  <2>1. x \in Nat /\ y \in Nat
    OBVIOUS
  <2>2. ~(y < x)
    BY <1>1, <1>3, <2>1
  <2>3. QED
    BY <2>1, <2>2
<1>5. QED
  BY <1>3, <1>4 DEF Min

\* A bounded one has a greatest, which Max names.
LEMMA MaxDef ==
  ASSUME NEW n \in Nat, NEW S, S \subseteq 0 .. n, S # {}
  PROVE  Max(S) \in S /\ \A y \in S : y <= Max(S)
<1> DEFINE T == {n - y : y \in S}
<1>1. T \subseteq Nat /\ T # {}
  <2>1. ASSUME NEW y \in S PROVE n - y \in Nat
    <3>1. y \in 0 .. n
      OBVIOUS
    <3>2. QED
      BY <3>1
  <2>2. QED
    BY <2>1
<1>2. Min(T) \in T /\ \A z \in T : Min(T) <= z
  BY <1>1, MinDef
<1>3. PICK x \in S : Min(T) = n - x
  BY <1>2
<1>4. ASSUME NEW y \in S PROVE y <= x
  <2>1. n - x <= n - y
    BY <1>2, <1>3
  <2>2. QED
    BY <2>1
<1>5. x \in S /\ \A y \in S : x >= y
  BY <1>4
<1>6. QED
  BY <1>5 DEF Max

\* Both, of rows.
LEMMA RowsEnds ==
  ASSUME NEW S \in SUBSET Rows, S # {}
  PROVE  /\ Min(S) \in S /\ Min(S) \in Rows
         /\ Max(S) \in S /\ Max(S) \in Rows
BY MinDef, MaxDef, Constants DEF Rows

\* The generation opened next is new.
LEMMA NextIndexNew ==
  ASSUME vol \in Volume, NextIndex \in Gens
  PROVE  vol.gens[NextIndex].status = "none"
<1> DEFINE S == {vol.cursor} \cup {g + 1 : g \in Present(vol)}
<1>1. S \subseteq 0 .. Last + OpenAhead + 1 /\ S # {}
  BY Constants DEF Volume, Rows, Gens, Present
<1>2. \A y \in S : y <= Max(S)
  BY <1>1, MaxDef, Constants
<1>3. NextIndex = Max(S)
  BY DEF NextIndex
<1> HIDE DEF S
<1>4. ASSUME NextIndex \in Present(vol) PROVE FALSE
  <2>1. NextIndex + 1 \in S
    BY <1>4 DEF S
  <2>2. NextIndex + 1 <= NextIndex
    BY <1>2, <1>3, <2>1
  <2>3. QED
    BY <2>2, Constants
<1>5. QED
  BY <1>4 DEF Present

\* The trees and threads at rest.
LEMMA RestTypes ==
  /\ Empty \in Tree /\ EmptyVolume \in Volume
  /\ Off \in Trainer /\ Resting \in Thread
  /\ NoGen \in GenSort /\ NoSeed \in [model : Rows, cursor : Rows]
<1>1. NoGen \in GenSort /\ NoSeed \in [model : Rows, cursor : Rows]
  BY Constants DEF NoGen, GenSort, NoSeed
<1>2. [g \in Gens |-> NoGen] \in [Gens -> GenSort]
  BY <1>1
<1>3. Empty \in Tree /\ EmptyVolume \in Volume
  BY <1>1, <1>2, Constants DEF Empty, EmptyVolume, Tree, Volume
<1>4. Off \in Trainer /\ Resting \in Thread
  BY Constants DEF Off, Resting, Trainer, Thread
<1>5. QED
  BY <1>1, <1>3, <1>4

\* Dropping generations changes nothing else.
LEMMA DropFacts ==
  ASSUME NEW tree, NEW gone, tree.gens \in [Gens -> GenSort]
  PROVE  /\ tree \in Tree => Drop(tree, gone) \in Tree
         /\ tree \in Volume => Drop(tree, gone) \in Volume
         /\ tree \in Tree \cup Volume =>
              /\ Drop(tree, gone).staging = tree.staging
              /\ Drop(tree, gone).ledger = tree.ledger
              /\ Drop(tree, gone).model = tree.model
              /\ Drop(tree, gone).cursor = tree.cursor
              /\ \A g \in Gens : Drop(tree, gone).gens[g] =
                                   IF g \in gone THEN NoGen ELSE tree.gens[g]
         /\ tree \in Volume => Drop(tree, gone).acked = tree.acked
<1>1. [g \in Gens |-> IF g \in gone THEN NoGen ELSE tree.gens[g]] \in [Gens -> GenSort]
  BY RestTypes
<1>2. QED
  BY <1>1 DEF Drop, Tree, Volume

\* Installing pairs never takes the cursor back, nor past the weights.
LEMMA InstallFacts ==
  ASSUME NEW tree \in Tree, NEW pairs \in SUBSET Rows
  PROVE  /\ Install(tree, pairs) \in Tree
         /\ Install(tree, pairs).staging = tree.staging
         /\ Install(tree, pairs).ledger = tree.ledger
         /\ Install(tree, pairs).gens = tree.gens
         /\ tree.cursor <= tree.model =>
              /\ Install(tree, pairs).cursor <= Install(tree, pairs).model
              /\ tree.cursor <= Install(tree, pairs).cursor
<1> DEFINE winners == {n \in pairs : Beats(tree, n)}
<1>1. CASE winners = {}
  BY <1>1, Constants DEF Install, Tree
<1>2. CASE winners # {}
  <2>1. Max(winners) \in winners /\ Max(winners) \in Rows
    BY <1>2, RowsEnds
  <2>2. Install(tree, pairs) = [tree EXCEPT !.model = Max(winners), !.cursor = Max(winners)]
    BY <1>2 DEF Install
  <2>3. Beats(tree, Max(winners))
    BY <2>1
  <2> DEFINE top == Max(winners)
  <2>4. top \in Rows /\ top \in Nat /\ tree.cursor \in Nat /\ tree.model \in Nat
    BY <2>1, Constants DEF Tree
  <2>5. Beats(tree, top) /\ Install(tree, pairs) = [tree EXCEPT !.model = top, !.cursor = top]
    BY <2>2, <2>3
  <2> HIDE DEF top
  <2>6. tree.cursor <= tree.model => tree.cursor <= top
    BY <2>4, <2>5 DEF Beats
  <2> DEFINE result == [tree EXCEPT !.model = top, !.cursor = top]
  <2>7. /\ result \in Tree
        /\ result.staging = tree.staging /\ result.ledger = tree.ledger
        /\ result.gens = tree.gens /\ result.model = top /\ result.cursor = top
    BY <2>4 DEF Tree
  <2>8. top <= top
    BY <2>4
  <2> HIDE DEF result
  <2>9. Install(tree, pairs) = result
    BY <2>5 DEF result
  <2>10. QED
    BY <2>6, <2>7, <2>8, <2>9
<1>3. QED
  BY <1>1, <1>2

-----------------------------------------------------------------------------
\* Types.

Ops == {"idle", "create", "start", "push", "pairs", "generations", "rest", "container", "volume"}

\* TypeOK by the sorts' names.
LEMMA Sorts ==
  TypeOK <=> /\ here \in Tree /\ vol \in Volume /\ box \in Box /\ trainer \in Trainer
             /\ transfer \in Thread /\ op \in Ops
             /\ sent \subseteq Chunks /\ into \subseteq Chunks \X Gens
BY DEF TypeOK, Tree, Volume, Box, Trainer, Thread, Ops

\* The same after a step.
LEMMA SortsNext ==
  TypeOK' <=> /\ here' \in Tree /\ vol' \in Volume /\ box' \in Box /\ trainer' \in Trainer
              /\ transfer' \in Thread /\ op' \in Ops
              /\ sent' \subseteq Chunks /\ into' \subseteq Chunks \X Gens
BY DEF TypeOK, Tree, Volume, Box, Trainer, Thread, Ops

\* The types hold at first,
LEMMA TypeInit == Init => TypeOK
<1> SUFFICES ASSUME Init PROVE TypeOK
  OBVIOUS
<1>1. [state |-> "none", seeded |-> FALSE] \in Box
  BY DEF Box
<1>2. QED
  BY <1>1, RestTypes, Sorts DEF Init, Ops

\* through the home's own steps,
LEMMA TypeHome ==
  ASSUME TypeOK, Home
  PROVE  TypeOK'
<1> USE Sorts, SortsNext, Constants
<1>1. CASE Open
  <2>1. NextIndex \in Gens /\ vol' = [vol EXCEPT !.gens[NextIndex].status = "generating"]
    BY <1>1 DEF Open
  <2>2. vol.gens[NextIndex] \in GenSort
    BY <2>1 DEF Volume
  <2>3. vol' \in Volume
    BY <2>1, <2>2 DEF Volume, GenSort
  <2>4. QED
    BY <1>1, <2>3 DEF Open, history
<1>2. CASE Assign
  <2>1. Min(vol.staging) \in vol.staging /\ vol.staging \subseteq Chunks
    BY <1>2, MinDef DEF Assign, Volume
  <2>2. /\ vol' \in Volume
        /\ into' \subseteq Chunks \X Gens
    <3>1. CASE Min(vol.staging) \in vol.ledger
      BY <1>2, <2>1, <3>1 DEF Assign, Volume
    <3>2. CASE Min(vol.staging) \notin vol.ledger
      <4>1. PICK g \in Opened(vol) :
              LET filled == vol.gens[g].chunks \cup {Min(vol.staging)}
              IN /\ vol' = [vol EXCEPT
                      !.staging = @ \ {Min(vol.staging)}, !.ledger = @ \cup {Min(vol.staging)},
                      !.gens[g] = [status |-> IF Cardinality(filled) >= Target
                                              THEN "complete" ELSE "generating",
                                   chunks |-> filled]]
                 /\ into' = into \cup {<<Min(vol.staging), g>>}
        BY <1>2, <3>2 DEF Assign
      <4>2. g \in Gens /\ vol.gens[g] \in GenSort
        BY <4>1 DEF Opened, Volume
      <4> DEFINE c == Min(vol.staging)
                 more == [status |-> IF Cardinality(vol.gens[g].chunks \cup {c}) >= Target
                                     THEN "complete" ELSE "generating",
                          chunks |-> vol.gens[g].chunks \cup {c}]
      <4>3. more \in GenSort
        BY <2>1, <4>2 DEF GenSort
      <4>4. c \in Chunks /\ into' = into \cup {<<c, g>>}
            /\ vol' = [vol EXCEPT !.staging = @ \ {c}, !.ledger = @ \cup {c}, !.gens[g] = more]
        BY <2>1, <4>1
      <4> HIDE DEF c, more
      <4>5. vol' \in Volume
        BY <4>2, <4>3, <4>4 DEF Volume
      <4>6. QED
        BY <4>2, <4>4, <4>5
    <3>3. QED
      BY <3>1, <3>2
  <2>3. QED
    BY <1>2, <2>2 DEF Assign
<1>3. CASE TakeSeed
  BY <1>3, RestTypes DEF TakeSeed, Volume, Trainer, Off, history
<1>4. CASE Train
  <2>1. trainer.index + 1 \in Rows
    BY <1>4 DEF Train, Trainer, Rows
  <2>2. QED
    BY <1>4, <2>1 DEF Train, Volume, Trainer, history
<1>5. CASE Publish
  BY <1>5 DEF Publish, Volume, Trainer, history
<1>6. CASE EvictAtHome
  <2>1. Drop(vol, EvictedAtHome) \in Volume
    BY DropFacts DEF Volume
  <2>2. QED
    BY <1>6, <2>1 DEF EvictAtHome, Volume, Trainer, history
<1>7. CASE PushPair
  <2>1. Min(trainer.queue) \in Rows
    BY <1>7, RowsEnds DEF PushPair, Trainer
  <2>2. QED
    BY <1>7, <2>1 DEF PushPair, Volume, Trainer, history
<1>8. CASE DropOlder
  BY <1>8 DEF DropOlder, Volume, Trainer, history
<1>9. CASE Exit
  <2>1. Drained \in Volume
    BY DEF Drained, Volume, Trainer
  <2>2. QED
    BY <1>9, <2>1, RestTypes DEF Exit, Box, history
<1>10. QED
  BY <1>1, <1>2, <1>3, <1>4, <1>5, <1>6, <1>7, <1>8, <1>9 DEF Home

\* the transfer thread's,
LEMMA TypeTransfer ==
  ASSUME TypeOK, PairKnown, Transfer
  PROVE  TypeOK'
<1> USE Sorts, SortsNext, Constants, RestTypes
<1>1. CASE PullPairs
  BY <1>1 DEF PullPairs, Resting, Thread, Volume, history
<1>2. CASE RemovePulled
  BY <1>2 DEF RemovePulled, Thread, Volume, history
<1>3. CASE InstallModel
  <2>1. Min(transfer.pairs) \in Rows
    BY <1>3, RowsEnds DEF InstallModel, Thread
  <2>2. QED
    BY <1>3, <2>1 DEF InstallModel, Thread, Tree, history
<1>4. CASE InstallCursor
  <2>1. Min(transfer.pairs) \in Rows
    BY <1>4, RowsEnds DEF InstallCursor, PairKnown, Thread
  <2>2. QED
    BY <1>4, <2>1 DEF InstallCursor, Thread, Tree, history
<1>5. CASE Installed
  BY <1>5 DEF Installed, Goes, Resting, Thread, history
<1>6. CASE Relay
  <2>1. CASE here.staging = {}
    BY <1>6, <2>1 DEF Relay, Goes, Resting, Thread, history
  <2>2. CASE here.staging # {}
    <3>1. /\ vol' = [vol EXCEPT !.staging = @ \cup here.staging]
          /\ transfer' = [Resting EXCEPT !.at = "unlink", !.chunks = here.staging]
      BY <1>6, <2>2 DEF Relay
    <3>2. here.staging \subseteq Chunks
      BY DEF Tree
    <3>3. vol' \in Volume
      BY <3>1, <3>2 DEF Volume
    <3>4. transfer' \in Thread
      BY <3>1, <3>2 DEF Thread, Resting
    <3>5. QED
      BY <1>6, <3>3, <3>4 DEF Relay, history
  <2>3. QED
    BY <2>1, <2>2
<1>7. CASE Unlink
  BY <1>7 DEF Unlink, Goes, Resting, Thread, Tree, history
<1>8. CASE CopyGeneration
  <2> DEFINE ready == Complete(vol) \ vol.acked
  <2>1. CASE ready = {}
    BY <1>8, <2>1 DEF CopyGeneration, Goes, Resting, Thread, history
  <2>2. CASE ready # {}
    <3>1. Min(ready) \in ready /\ ready \subseteq Gens
      BY <2>2, MinDef DEF Complete
    <3>2. vol.gens[Min(ready)] \in GenSort
      BY <3>1 DEF Volume
    <3>3. /\ here' = [here EXCEPT !.gens[Min(ready)] = vol.gens[Min(ready)]]
          /\ transfer' = [Resting EXCEPT !.at = "ack", !.gen = Min(ready)]
      BY <1>8, <2>2 DEF CopyGeneration
    <3> HIDE DEF ready
    <3>4. here' \in Tree
      BY <3>1, <3>2, <3>3 DEF Tree
    <3>5. transfer' \in Thread
      BY <3>1, <3>3 DEF Thread, Resting
    <3>6. QED
      BY <1>8, <3>4, <3>5 DEF CopyGeneration, history
  <2>3. QED
    BY <2>1, <2>2
<1>9. CASE Acknowledge
  BY <1>9 DEF Acknowledge, Goes, Resting, Thread, Volume, history
<1>10. CASE Trim
  <2>1. Drop(here, TrimmedHere) \in Tree
    BY DropFacts DEF Tree
  <2>2. QED
    BY <1>10, <2>1 DEF Trim, Goes, Resting, Thread, history
<1>11. CASE CutShort
  BY <1>11 DEF CutShort, Abandoned, Resting, Thread, history
<1>12. QED
  BY <1>1, <1>2, <1>3, <1>4, <1>5, <1>6, <1>7, <1>8, <1>9, <1>10, <1>11 DEF Transfer

\* the blocking thread's, the operator's and the faults.
LEMMA TypeOther ==
  ASSUME TypeOK, Deliver \/ Restart \/ Finish \/ Placement \/ Removal \/ Operator \/ Fault
  PROVE  TypeOK'
<1> USE Sorts, SortsNext, Constants, RestTypes
<1>1. Severed \in Thread /\ Abandoned \in Thread
  BY DEF Severed, Abandoned, Thread, Resting
<1>2. Flushed \in Tree
  BY InstallFacts DEF Flushed, Volume
<1>3. CASE Deliver
  <2>1. Min(Chunks \ sent) \in Chunks
    BY <1>3, MinDef DEF Deliver
  <2>2. QED
    BY <1>3, <2>1 DEF Deliver, Tree, history
<1>4. CASE Restart
  BY <1>4 DEF Restart, Box, Off, Trainer, history
<1>5. CASE Finish
  BY <1>5, <1>2 DEF Finish, Box, history
<1>6. CASE SeedVolume
  <2> DEFINE fresh == {g \in Seeded : vol.gens[g].status = "none"}
             seeds == [g \in Gens |-> IF g \in fresh THEN here.gens[g] ELSE vol.gens[g]]
             acks == vol.acked \cup (fresh \cap Complete(here))
  <2>1. vol' = [vol EXCEPT !.gens = seeds, !.acked = acks, !.ledger = SeededLedger]
    BY <1>6 DEF SeedVolume, Volume
  <2>2. seeds \in [Gens -> GenSort]
    BY DEF Tree, Volume
  <2>3. acks \in SUBSET Gens /\ SeededLedger \in SUBSET Chunks
    BY DEF Complete, SeededLedger, Tree, Volume
  <2> HIDE DEF seeds, acks
  <2>4. vol' \in Volume
    BY <2>1, <2>2, <2>3 DEF Volume
  <2>5. QED
    BY <1>6, <2>4 DEF SeedVolume, Box, Ops, history
<1>7. CASE Create
  BY <1>7 DEF Create, Box, Ops, history
<1>8. CASE Start
  BY <1>8 DEF Start, Box, Ops, Off, Trainer, history
<1>9. CASE PushSeed
  <2>1. vol' \in Volume
    BY <1>9 DEF PushSeed, Volume, Tree
  <2>2. QED
    BY <1>9, <2>1 DEF PushSeed, Ops
<1>10. CASE SweepPairs
  BY <1>10, <1>2 DEF SweepPairs, Ops, history
<1>11. CASE SweepGenerations
  <2>1. [g \in Gens |-> SweptGen(g)] \in [Gens -> GenSort]
    BY DEF SweptGen, Tree, Volume
  <2>2. QED
    BY <1>11, <2>1 DEF SweepGenerations, Tree, Ops, history
<1>12. CASE SweepRest
  BY <1>12 DEF SweepRest, Tree, Volume, Ops, history
<1>13. CASE RemoveContainer
  BY <1>13, <1>1 DEF RemoveContainer, Box, Ops, history
<1>14. CASE RemoveVolume
  BY <1>14 DEF RemoveVolume, Box, Ops, history
<1>15. CASE Pause
  <2>1. Drained \in Volume
    BY DEF Drained, Volume, Trainer
  <2>2. QED
    BY <1>15, <2>1 DEF Pause, Box
<1>16. CASE Replace
  BY <1>16, <1>2 DEF Replace, Box, history
<1>17. CASE Remove
  BY <1>17 DEF Remove, Ops, history
<1>18. CASE RemoveMissing
  BY <1>18, <1>1 DEF RemoveMissing, Box
<1>19. CASE CommandFails \/ DashboardCrash
  BY <1>19 DEF CommandFails, DashboardCrash, Ops
<1>20. CASE TransferFails
  BY <1>20, <1>1 DEF TransferFails, history
<1>21. CASE Crash
  BY <1>21 DEF Crash, Box
<1>22. CASE LoseHome
  BY <1>22, <1>1 DEF LoseHome, Box, Ops
<1>23. QED
  BY <1>3, <1>4, <1>5, <1>6, <1>7, <1>8, <1>9, <1>10, <1>11, <1>12, <1>13, <1>14, <1>15, <1>16,
     <1>17, <1>18, <1>19, <1>20, <1>21, <1>22 DEF Placement, Removal, Operator, Fault

\* Every step keeps the types.
LEMMA TypeStep == TypeOK /\ PairKnown /\ [Next]_vars => TypeOK'
<1> SUFFICES ASSUME TypeOK, PairKnown, [Next]_vars PROVE TypeOK'
  OBVIOUS
<1>1. CASE UNCHANGED vars
  BY <1>1 DEF TypeOK, vars, history
<1>2. QED
  BY <1>1, TypeHome, TypeTransfer, TypeOther DEF Next

-----------------------------------------------------------------------------
\* How far the container is.

\* Where the transfer thread's steps take it.
LEMMA ThreadMoves ==
  ASSUME transfer \in Thread, Transfer
  PROVE  /\ transfer'.at = "cursor" => InstallModel
         /\ transfer'.at = "ack" => CopyGeneration
<1>0. Resting.at = "idle" /\ \A stage : Goes(stage) => transfer'.at = stage
  BY DEF Goes, Resting
<1>1. CASE PullPairs
  BY <1>1 DEF PullPairs, Resting
<1>2. CASE RemovePulled
  BY <1>2 DEF RemovePulled, Thread
<1>3. CASE InstallModel
  BY <1>3 DEF InstallModel, Thread
<1>4. CASE InstallCursor
  BY <1>4 DEF InstallCursor, Thread
<1>5. CASE Installed
  BY <1>0, <1>5 DEF Installed
<1>6. CASE Relay
  BY <1>0, <1>6 DEF Relay, Resting
<1>7. CASE Unlink
  BY <1>0, <1>7 DEF Unlink
<1>8. CASE CopyGeneration
  BY <1>0, <1>8 DEF CopyGeneration, Resting
<1>9. CASE Acknowledge
  BY <1>0, <1>9 DEF Acknowledge
<1>10. CASE Trim
  BY <1>0, <1>10 DEF Trim
<1>11. CASE CutShort
  BY <1>11 DEF CutShort, Abandoned, Resting
<1>12. QED
  BY <1>1, <1>2, <1>3, <1>4, <1>5, <1>6, <1>7, <1>8, <1>9, <1>10, <1>11 DEF Transfer

\* A step of the blocking thread knows how far the container is; no other moves it
\* further than the thread assumes.
LEMMA StagesStep == TypeOK /\ StagesKnown /\ [Next]_vars => StagesKnown'
<1> SUFFICES ASSUME TypeOK, StagesKnown, [Next]_vars PROVE StagesKnown'
  OBVIOUS
<1> USE DEF StagesKnown
<1>1. box \in Box /\ transfer \in Thread
  BY Sorts
<1>2. CASE UNCHANGED vars \/ Deliver
  BY <1>2 DEF vars, Deliver
<1>3. CASE Home
  <2>1. CASE Exit
    BY <2>1, <1>1 DEF Exit, Working, Off, Box
  <2>2. CASE ~Exit
    <3>1. box' = box /\ op' = op /\ transfer' = transfer /\ box.state = "running"
      BY <1>3, <2>2 DEF Home, Open, Assign, TakeSeed, Train, Publish, EvictAtHome, PushPair,
                        DropOlder, Working
    <3>2. QED
      BY <3>1
  <2>3. QED
    BY <2>1, <2>2
<1>4. CASE Transfer
  <2>1. box' = box /\ op' = op /\ trainer' = trainer
    BY <1>4 DEF Transfer, PullPairs, RemovePulled, InstallModel, InstallCursor, Installed, Relay,
                Unlink, CopyGeneration, Acknowledge, Trim, CutShort
  <2>2. transfer'.at = "ack" => transfer.at = "ack" \/ box.state = "running"
    BY <1>1, <1>4, ThreadMoves DEF CopyGeneration
  <2>3. QED
    BY <2>1, <2>2
<1>5. CASE Restart \/ Finish \/ Replace \/ Remove \/ RemoveMissing
  BY <1>1, <1>5 DEF Restart, Finish, Replace, Remove, RemoveMissing, Free, Box
<1>6. CASE Placement
  BY <1>1, <1>6 DEF Placement, SeedVolume, Create, Start, PushSeed, Free, Box
<1>7. CASE Removal
  <2>1. Severed.at # "ack"
    BY DEF Severed, Remote, Resting
  <2>2. QED
    BY <1>1, <1>7, <2>1 DEF Removal, SweepPairs, SweepGenerations, SweepRest, RemoveContainer,
                            RemoveVolume, Box
<1>8. CASE Pause
  BY <1>1, <1>8 DEF Pause, Free, Off, Box
<1>9. CASE Fault
  <2>1. Resting.at = "idle" /\ Off.at = "off"
    BY DEF Resting, Off
  <2>2. CASE CommandFails \/ DashboardCrash
    BY <2>1, <2>2 DEF CommandFails, DashboardCrash
  <2>3. CASE TransferFails
    BY <2>1, <2>3 DEF TransferFails, Abandoned, Resting
  <2>4. CASE Crash
    BY <1>1, <2>1, <2>4 DEF Crash, Box
  <2>5. CASE LoseHome
    BY <2>1, <2>5 DEF LoseHome
  <2>6. QED
    BY <1>9, <2>2, <2>3, <2>4, <2>5 DEF Fault
<1>10. QED
  BY <1>2, <1>3, <1>4, <1>5, <1>6, <1>7, <1>8, <1>9 DEF Next, Operator

-----------------------------------------------------------------------------
\* The cursor rule.

\* Here: a step installs no pair that would take the cursor back, and no sweep
\* comes between a pair's two renames.
LEMMA HereStep ==
  ASSUME ~Overlap, TypeOK, PairKnown, here.cursor <= here.model, [Next]_vars
  PROVE  /\ PairKnown'
         /\ here'.cursor <= here'.model
         /\ here.cursor <= here'.cursor
<1>1. /\ here \in Tree /\ transfer \in Thread /\ vol \in Volume
      /\ here.cursor \in Nat /\ here.model \in Nat
  BY Sorts, Constants DEF Tree
<1>2. ASSUME here'.model = here.model, here'.cursor = here.cursor,
             transfer' = transfer \/ transfer'.at # "cursor"
      PROVE  /\ PairKnown' /\ here'.cursor <= here'.model /\ here.cursor <= here'.cursor
  BY <1>1, <1>2 DEF PairKnown
<1>3. ASSUME here' = Flushed, transfer' = transfer, MayTouch
      PROVE  /\ PairKnown' /\ here'.cursor <= here'.model /\ here.cursor <= here'.cursor
  <2>1. transfer'.at # "cursor"
    BY <1>3 DEF MayTouch
  <2>2. here'.cursor <= here'.model /\ here.cursor <= here'.cursor
    BY <1>1, <1>3, InstallFacts DEF Flushed, Volume
  <2>3. QED
    BY <2>1, <2>2 DEF PairKnown
<1>4. CASE UNCHANGED vars \/ Home
  BY <1>2, <1>4 DEF vars, Home, Open, Assign, TakeSeed, Train, Publish, EvictAtHome, PushPair,
                    DropOlder, Exit
<1>5. CASE Deliver
  BY <1>1, <1>2, <1>5 DEF Deliver, Tree
<1>6. CASE Transfer
  <2>1. CASE InstallModel
    <3> DEFINE n == Min(transfer.pairs)
    <3>1. n \in transfer.pairs /\ n \in Nat
      BY <1>1, <2>1, RowsEnds, Constants DEF InstallModel, Thread
    <3>2. CASE Beats(here, n)
      <4>1. here.cursor <= n
        BY <1>1, <3>1, <3>2 DEF Beats
      <4>2. here' = [here EXCEPT !.model = n] /\ transfer' = [transfer EXCEPT !.at = "cursor"]
        BY <2>1, <3>2 DEF InstallModel
      <4>3. here'.model = n /\ here'.cursor = here.cursor /\ transfer'.pairs = transfer.pairs
        BY <1>1, <4>2 DEF Tree, Thread
      <4>4. QED
        BY <1>1, <3>1, <4>1, <4>3 DEF PairKnown
    <3>3. CASE ~Beats(here, n)
      <4>1. here' = here /\ transfer'.at = "install"
        BY <1>1, <2>1, <3>3 DEF InstallModel, Thread
      <4>2. QED
        BY <1>2, <4>1
    <3>4. QED
      BY <3>2, <3>3
  <2>2. CASE InstallCursor
    <3> DEFINE n == Min(transfer.pairs)
    <3>1. n \in Nat /\ here.model = n /\ here.cursor <= n
      BY <1>1, <2>2 DEF InstallCursor, PairKnown
    <3>2. here' = [here EXCEPT !.cursor = n] /\ transfer'.at = "install"
      BY <1>1, <2>2 DEF InstallCursor, Thread
    <3>3. here'.model = n /\ here'.cursor = n
      BY <1>1, <3>1, <3>2 DEF Tree
    <3>4. QED
      BY <3>1, <3>2, <3>3 DEF PairKnown
  <2>3. CASE ~InstallModel /\ ~InstallCursor
    <3>1. transfer'.at # "cursor"
      BY <1>1, <1>6, <2>3, ThreadMoves
    <3>2. Drop(here, TrimmedHere).model = here.model /\ Drop(here, TrimmedHere).cursor = here.cursor
      BY <1>1, DropFacts DEF Tree
    <3>3. here'.model = here.model /\ here'.cursor = here.cursor
      BY <1>1, <1>6, <2>3, <3>2 DEF Transfer, PullPairs, RemovePulled, Installed, Relay, Unlink,
           CopyGeneration, Acknowledge, Trim, CutShort, Tree
    <3>4. QED
      BY <1>2, <3>1, <3>3
  <2>4. QED
    BY <2>1, <2>2, <2>3
<1>7. CASE Finish \/ Replace \/ SweepPairs
  BY <1>3, <1>7 DEF Finish, Replace, SweepPairs
<1>8. CASE Restart \/ Placement \/ Pause \/ Remove
  BY <1>2, <1>8 DEF Restart, Placement, SeedVolume, Create, Start, PushSeed, Pause, Remove
<1>9. CASE SweepGenerations \/ SweepRest
  BY <1>1, <1>2, <1>9 DEF SweepGenerations, SweepRest, Tree
<1>10. CASE RemoveContainer \/ RemoveVolume \/ RemoveMissing \/ Fault
  <2>1. Severed = transfer \/ Severed.at = "idle"
    BY DEF Severed, Resting
  <2>2. Abandoned.at # "cursor" /\ Resting.at # "cursor"
    BY DEF Abandoned, Resting
  <2>3. here' = here
    BY <1>10 DEF RemoveContainer, RemoveVolume, RemoveMissing, Fault, CommandFails, TransferFails,
                 Crash, DashboardCrash, LoseHome
  <2>4. transfer' = transfer \/ transfer'.at # "cursor"
    BY <1>10, <2>1, <2>2 DEF RemoveContainer, RemoveVolume, RemoveMissing, Fault, CommandFails,
                 TransferFails, Crash, DashboardCrash, LoseHome
  <2>5. QED
    BY <1>2, <2>3, <2>4
<1>11. QED
  BY <1>4, <1>5, <1>6, <1>7, <1>8, <1>9, <1>10 DEF Next, Removal, Operator

\* At the home: the checkpoint is written before the cursor, and only a trainer
\* that has resumed from the pair writes either.
LEMMA VolStep ==
  ASSUME TypeOK, StagesKnown, TrainerKnows, vol.cursor <= vol.model, [Next]_vars
  PROVE  TrainerKnows' /\ vol'.cursor <= vol'.model
<1>1. /\ vol \in Volume /\ trainer \in Trainer
      /\ vol.cursor \in Nat /\ vol.model \in Nat /\ trainer.index \in Nat
  BY Sorts, Constants DEF Volume, Trainer
<1>2. ASSUME vol'.model = vol.model, vol'.cursor = vol.cursor,
             \/ trainer'.at = trainer.at /\ trainer'.index = trainer.index
             \/ trainer'.at \in {"off", "seed"}
      PROVE  TrainerKnows' /\ vol'.cursor <= vol'.model
  BY <1>2 DEF TrainerKnows
<1>3. ASSUME vol' = EmptyVolume, trainer'.at = "off"
      PROVE  TrainerKnows' /\ vol'.cursor <= vol'.model
  BY <1>3 DEF TrainerKnows, EmptyVolume
<1>4. Drained.model = vol.model /\ Drained.cursor = vol.cursor /\ Off.at = "off"
  BY <1>1 DEF Drained, Volume, Off
<1>5. CASE UNCHANGED vars \/ Deliver
  BY <1>2, <1>5 DEF vars, Deliver
<1>6. CASE Home
  <2>1. CASE Open \/ Assign \/ PushPair \/ DropOlder
    <3>1. vol'.model = vol.model /\ vol'.cursor = vol.cursor
      BY <1>1, <2>1 DEF Open, Assign, PushPair, DropOlder, Volume
    <3>2. trainer'.at = trainer.at /\ trainer'.index = trainer.index
      BY <1>1, <2>1 DEF Open, Assign, PushPair, DropOlder, Trainer
    <3>3. QED
      BY <1>2, <3>1, <3>2
  <2>2. CASE TakeSeed
    <3>1. PICK model : /\ vol' = [vol EXCEPT !.model = model, !.cursor = model, !.seed = NoSeed]
                       /\ trainer' = [Off EXCEPT !.at = "work", !.index = model]
                       /\ model \in {vol.seed.model, vol.model}
      BY <2>2 DEF TakeSeed
    <3>2. vol'.model = model /\ vol'.cursor = model /\ trainer'.at = "work"
          /\ trainer'.index = model /\ model \in Nat
      BY <1>1, <3>1, Constants DEF Volume, Off
    <3>3. QED
      BY <3>2 DEF TrainerKnows
  <2>3. CASE Train
    <3>1. /\ trainer'.at = "publish" /\ trainer'.index = trainer.index + 1
          /\ vol'.model = trainer.index + 1 /\ vol'.cursor = vol.cursor
          /\ vol.cursor = trainer.index
      BY <1>1, <2>3 DEF Train, Working, TrainerKnows, Volume, Trainer
    <3>2. QED
      BY <1>1, <3>1 DEF TrainerKnows
  <2>4. CASE Publish
    <3>1. /\ trainer'.at = "evict" /\ trainer'.index = trainer.index
          /\ vol'.cursor = trainer.index /\ vol'.model = trainer.index
      BY <1>1, <2>4 DEF Publish, TrainerKnows, Volume, Trainer
    <3>2. QED
      BY <1>1, <3>1 DEF TrainerKnows
  <2>5. CASE EvictAtHome
    <3>1. /\ Drop(vol, EvictedAtHome) \in Volume
          /\ Drop(vol, EvictedAtHome).model = vol.model
          /\ Drop(vol, EvictedAtHome).cursor = vol.cursor
      BY <1>1, DropFacts DEF Volume
    <3>2. vol'.model = vol.model /\ vol'.cursor = vol.cursor
      BY <2>5, <3>1 DEF EvictAtHome, Volume
    <3>3. trainer'.at = "work" /\ trainer'.index = trainer.index /\ trainer.at = "evict"
      BY <1>1, <2>5 DEF EvictAtHome, Trainer
    <3>4. QED
      BY <3>2, <3>3 DEF TrainerKnows
  <2>6. CASE Exit
    BY <1>2, <1>4, <2>6 DEF Exit
  <2>7. QED
    BY <1>6, <2>1, <2>2, <2>3, <2>4, <2>5, <2>6 DEF Home
<1>7. CASE Transfer
  <2>1. trainer' = trainer /\ vol'.model = vol.model /\ vol'.cursor = vol.cursor
    BY <1>1, <1>7 DEF Transfer, PullPairs, RemovePulled, InstallModel, InstallCursor, Installed,
                Relay, Unlink, CopyGeneration, Acknowledge, Trim, CutShort, Volume
  <2>2. QED
    BY <1>2, <2>1
<1>8. CASE Restart \/ Finish \/ Placement
  <2>1. vol'.model = vol.model /\ vol'.cursor = vol.cursor
    BY <1>1, <1>8 DEF Restart, Finish, Placement, SeedVolume, Create, Start, PushSeed, Volume
  <2>2. trainer' = trainer \/ trainer'.at = "seed"
    BY <1>8 DEF Restart, Finish, Placement, SeedVolume, Create, Start, PushSeed, Off
  <2>3. QED
    BY <1>2, <2>1, <2>2
<1>9. CASE SweepPairs \/ SweepGenerations \/ SweepRest \/ RemoveContainer
  BY <1>2, <1>9 DEF SweepPairs, SweepGenerations, SweepRest, RemoveContainer
<1>10. CASE RemoveVolume \/ RemoveMissing
  <2>1. vol' = EmptyVolume /\ trainer' = trainer /\ box.state = "missing"
    BY <1>10 DEF RemoveVolume, RemoveMissing, StagesKnown
  <2>2. QED
    BY <1>3, <2>1 DEF StagesKnown
<1>11. CASE Pause \/ Replace \/ Remove
  BY <1>2, <1>4, <1>11 DEF Pause, Replace, Remove
<1>12. CASE Fault
  BY <1>2, <1>3, <1>4, <1>12 DEF Fault, CommandFails, TransferFails, Crash, DashboardCrash, LoseHome
<1>13. QED
  BY <1>5, <1>6, <1>7, <1>8, <1>9, <1>10, <1>11, <1>12 DEF Next, Removal, Operator

-----------------------------------------------------------------------------
\* The ledgers.

\* A chunk assigned is recorded, and only one recorded nowhere is assigned; what a
\* volume takes with it is either swept here or forgotten.
LEMMA LedgerStep ==
  ASSUME TypeOK, StagesKnown, Ledgered, AssignedOnce, [Next]_vars
  PROVE  Ledgered' /\ AssignedOnce'
<1>1. /\ here \in Tree /\ vol \in Volume /\ box \in Box /\ into \subseteq Chunks \X Gens
  BY Sorts
<1>2. ASSUME here'.ledger = here.ledger, vol'.ledger = vol.ledger,
             into' = into, forgotten' = forgotten,
             box.state = "none" => box'.state = "none",
             op' \in {"container", "volume"} => op \in {"container", "volume"}
      PROVE  Ledgered' /\ AssignedOnce'
  BY <1>2 DEF Ledgered, AssignedOnce
<1>3. ASSUME vol' = EmptyVolume, here' = here, into' = into, Loses,
             box'.state = "none", op' = "idle"
      PROVE  Ledgered' /\ AssignedOnce'
  <2>1. vol'.ledger = {} /\ forgotten' = forgotten \cup (vol.ledger \ here.ledger)
    BY <1>3 DEF EmptyVolume, Loses
  <2>2. QED
    BY <1>3, <2>1 DEF Ledgered, AssignedOnce
<1>4. Drained.ledger = vol.ledger
  BY <1>1 DEF Drained, Volume
<1>5. Flushed.ledger = here.ledger
  BY <1>1, InstallFacts DEF Flushed, Volume
<1>6. CASE UNCHANGED vars \/ Deliver
  BY <1>1, <1>2, <1>6 DEF vars, history, Deliver, Tree
<1>7. CASE Assign
  <2>1. CASE Min(vol.staging) \in vol.ledger
    BY <1>1, <1>2, <1>7, <2>1 DEF Assign, Volume
  <2>2. CASE Min(vol.staging) \notin vol.ledger
    <3> DEFINE c == Min(vol.staging)
    <3>1. PICK g \in Gens : into' = into \cup {<<c, g>>}
      BY <1>7, <2>2 DEF Assign, Opened
    <3>2. vol'.ledger = vol.ledger \cup {c}
      BY <1>1, <1>7, <2>2 DEF Assign, Volume
    <3>3. /\ here' = here /\ forgotten' = forgotten /\ box' = box /\ op' = op
          /\ box.state = "running" /\ op \notin {"container", "volume"}
      BY <1>7 DEF Assign, Working, StagesKnown
    <3>4. c \notin vol.ledger /\ here.ledger \subseteq vol.ledger
      BY <2>2, <3>3 DEF Ledgered
    <3> HIDE DEF c
    <3>5. Ledgered'
      BY <3>1, <3>2, <3>3 DEF Ledgered
    <3>6. \A p \in into : p[1] = c => c \in forgotten
      BY <3>4 DEF Ledgered
    <3>7. AssignedOnce'
      <4>1. \A p \in into' : p \in into \/ p = <<c, g>>
        BY <3>1
      <4>2. <<c, g>>[1] = c
        OBVIOUS
      <4>3. QED
        BY <3>3, <3>6, <4>1, <4>2 DEF AssignedOnce
    <3>8. QED
      BY <3>5, <3>7
  <2>3. QED
    BY <2>1, <2>2
<1>8. CASE Home /\ ~Assign
  <2>1. Drop(vol, EvictedAtHome) \in Volume /\ Drop(vol, EvictedAtHome).ledger = vol.ledger
    BY <1>1, DropFacts DEF Volume
  <2>2. CASE EvictAtHome
    BY <1>2, <2>1, <2>2 DEF EvictAtHome, history, Volume
  <2>3. CASE Exit
    BY <1>1, <1>2, <1>4, <2>3 DEF Exit, Working, history, Box
  <2>4. CASE Open \/ TakeSeed \/ Train \/ Publish \/ PushPair \/ DropOlder
    BY <1>1, <1>2, <2>4 DEF Open, TakeSeed, Train, Publish, PushPair, DropOlder, history, Volume
  <2>5. QED
    BY <1>8, <2>2, <2>3, <2>4 DEF Home
<1>9. CASE Transfer
  <2>1. Drop(here, TrimmedHere).ledger = here.ledger
    BY <1>1, DropFacts DEF Tree
  <2>2. here'.ledger = here.ledger /\ vol'.ledger = vol.ledger
    BY <1>1, <1>9, <2>1 DEF Transfer, PullPairs, RemovePulled, InstallModel, InstallCursor,
         Installed, Relay, Unlink, CopyGeneration, Acknowledge, Trim, CutShort, Volume, Tree
  <2>3. UNCHANGED <<box, op, into, forgotten>>
    BY <1>9 DEF Transfer, PullPairs, RemovePulled, InstallModel, InstallCursor, history,
         Installed, Relay, Unlink, CopyGeneration, Acknowledge, Trim, CutShort
  <2>4. QED
    BY <1>2, <2>2, <2>3
<1>10. CASE Restart \/ Finish \/ Replace \/ Remove \/ SweepPairs
  BY <1>1, <1>2, <1>5, <1>10 DEF Restart, Finish, Replace, Remove, SweepPairs, history, Box
<1>11. CASE SeedVolume
  <2>1. /\ vol'.ledger = vol.ledger \cup here.ledger /\ here' = here /\ into' = into
        /\ forgotten' = forgotten /\ op' = "create"
    BY <1>1, <1>11 DEF SeedVolume, SeededLedger, history, Volume
  <2>2. QED
    BY <2>1 DEF Ledgered, AssignedOnce
<1>12. CASE Create \/ Start \/ PushSeed
  <2>1. UNCHANGED <<here, into, forgotten>> /\ vol'.ledger = vol.ledger
    BY <1>1, <1>12 DEF Create, Start, PushSeed, history, Volume
  <2>2. (box.state = "none" => box'.state = "none") /\ op' \notin {"container", "volume"}
    BY <1>1, <1>12 DEF Create, Start, PushSeed, StagesKnown, Box
  <2>3. QED
    BY <1>2, <2>1, <2>2
<1>13. CASE SweepGenerations
  BY <1>1, <1>2, <1>13 DEF SweepGenerations, history, Tree
<1>14. CASE SweepRest
  <2>1. /\ here.ledger \subseteq vol.ledger
        /\ UNCHANGED <<vol, box, into, forgotten>>
    BY <1>14 DEF SweepRest, StagesKnown, Ledgered, history
  <2>2. here'.ledger = vol.ledger
    BY <1>1, <1>14, <2>1 DEF SweepRest, Tree
  <2>3. QED
    BY <2>1, <2>2 DEF Ledgered, AssignedOnce
<1>15. CASE RemoveContainer
  <2>1. /\ UNCHANGED <<here, vol, into, forgotten>>
        /\ box.state # "none" /\ op = "container"
    BY <1>15 DEF RemoveContainer, StagesKnown, history
  <2>2. QED
    BY <1>2, <2>1
<1>16. CASE RemoveVolume
  <2>1. /\ UNCHANGED <<here, into, forgotten>> /\ vol'.ledger = {}
        /\ vol.ledger \subseteq here.ledger /\ box'.state = "none" /\ op' = "idle"
    BY <1>16 DEF RemoveVolume, Ledgered, history, EmptyVolume
  <2>2. QED
    BY <2>1 DEF Ledgered, AssignedOnce
<1>17. CASE Pause
  BY <1>1, <1>2, <1>4, <1>17 DEF Pause, Box
<1>18. CASE RemoveMissing \/ LoseHome
  BY <1>3, <1>18 DEF RemoveMissing, LoseHome, Free
<1>19. CASE CommandFails \/ TransferFails \/ Crash \/ DashboardCrash
  BY <1>1, <1>2, <1>19 DEF CommandFails, TransferFails, Crash, DashboardCrash, history, Box
<1>20. QED
  BY <1>6, <1>7, <1>8, <1>9, <1>10, <1>11, <1>12, <1>13, <1>14, <1>15, <1>16, <1>17, <1>18, <1>19
     DEF Next, Placement, Removal, Operator, Fault

-----------------------------------------------------------------------------
\* What the home may evict is here.

\* A generation evicted before the n-th is more than the window behind it.
LEMMA EvictableOld ==
  ASSUME NEW tree, NEW n \in Nat, NEW g \in Evictable(tree, n - 1)
  PROVE  g \in Gens /\ Window # 0 /\ g < n - Window
<1> DEFINE last == n - 1
           complete == {h \in Complete(tree) : h <= last}
           later == {h \in complete : h > g}
<1>1. Window # 0 /\ g \in complete /\ Cardinality(later) >= Window
  BY DEF Evictable
<1>2. complete \subseteq Gens /\ complete \subseteq Nat /\ \A h \in complete : h <= last
  BY Constants DEF Complete
<1>3. later \subseteq complete /\ \A h \in later : h > g
  OBVIOUS
<1> HIDE DEF later, complete
<1>4. n \in Nat
  OBVIOUS
<1>5. g \in Gens /\ g \in Nat /\ last \in Int /\ g <= last
  BY <1>1, <1>2, <1>4
<1>6. later \subseteq (g + 1) .. last
  <2> SUFFICES ASSUME NEW h \in later PROVE h \in (g + 1) .. last
    OBVIOUS
  <2>1. h \in Nat /\ h <= last /\ h > g
    BY <1>2, <1>3
  <2>2. QED
    BY <1>5, <2>1
<1>7. /\ IsFiniteSet((g + 1) .. last)
      /\ Cardinality((g + 1) .. last) = IF g + 1 > last THEN 0 ELSE last - (g + 1) + 1
  <2>1. g + 1 \in Int
    BY <1>5
  <2> HIDE DEF last
  <2>2. QED
    BY <1>5, <2>1, FS_Interval
<1>8. Cardinality(later) <= Cardinality((g + 1) .. last) /\ IsFiniteSet(later)
  BY <1>6, <1>7, FS_Subset
<1>9. Cardinality(later) \in Nat
  BY <1>8, FS_CardinalityType
<1>10. Cardinality(later) <= last - g
  BY <1>5, <1>7, <1>8, <1>9
<1>11. QED
  BY <1>1, <1>4, <1>5, <1>9, <1>10, Constants

\* So is one trimmed here, behind the cursor here.
LEMMA TrimLemma ==
  ASSUME here \in Tree, NEW g \in TrimmedHere
  PROVE  Window # 0 /\ g < here.cursor - Window
<1>1. here.cursor \in Nat
  BY Constants DEF Tree
<1>2. QED
  BY <1>1, EvictableOld DEF TrimmedHere

\* Nothing acknowledged is half made, and nothing acknowledged is evicted here, or
\* overwritten, before the cursor has passed it by the window.
LEMMA AckStep ==
  ASSUME TypeOK, StagesKnown, AckedComplete, AckedIsHere, here.cursor <= here'.cursor, [Next]_vars,
         here' \in Tree
  PROVE  AckedComplete' /\ AckedIsHere'
<1>1. /\ here \in Tree /\ vol \in Volume /\ box \in Box /\ transfer \in Thread
      /\ here.cursor \in Nat /\ here'.cursor \in Nat /\ Window \in Nat
  BY Sorts, Constants DEF Tree
<1>2. ASSUME NEW g \in Gens, Window = 0 \/ g >= here'.cursor - Window
      PROVE  Window = 0 \/ g >= here.cursor - Window
  <2>1. g \in Nat
    BY Constants
  <2>2. QED
    BY <1>1, <1>2, <2>1
<1>3. vol.acked \subseteq Gens /\ transfer.gen \in Gens
  BY <1>1 DEF Volume, Thread
\* A step that leaves alone every generation acknowledged or being acknowledged.
<1>4. ASSUME vol'.acked \subseteq vol.acked,
             \A g \in Gens :
               vol.gens[g].status = "complete" /\ (g \in vol.acked => g \in vol'.acked) =>
               /\ vol'.gens[g] = vol.gens[g]
               /\ here'.gens[g] \in {here.gens[g], vol.gens[g]},
             transfer' = transfer \/ transfer'.at # "ack"
      PROVE  AckedComplete' /\ AckedIsHere'
  <2>1. ASSUME NEW g \in vol'.acked
        PROVE  /\ vol'.gens[g].status = "complete"
               /\ Window = 0 \/ g >= here'.cursor - Window => here'.gens[g] = vol'.gens[g]
    <3>1. g \in Gens /\ g \in vol.acked /\ vol.gens[g].status = "complete"
      BY <1>3, <1>4, <2>1 DEF AckedComplete
    <3>2. vol'.gens[g] = vol.gens[g] /\ here'.gens[g] \in {here.gens[g], vol.gens[g]}
      BY <1>4, <2>1, <3>1
    <3>3. QED
      BY <1>2, <3>1, <3>2 DEF AckedIsHere
  <2>2. ASSUME transfer'.at = "ack"
        PROVE  /\ transfer'.gen \notin vol'.acked
               /\ vol'.gens[transfer'.gen].status = "complete"
               /\ here'.gens[transfer'.gen] = vol'.gens[transfer'.gen]
    <3>1. /\ transfer' = transfer /\ transfer.gen \notin vol.acked
          /\ vol.gens[transfer.gen].status = "complete"
          /\ here.gens[transfer.gen] = vol.gens[transfer.gen]
      BY <1>4, <2>2 DEF AckedComplete
    <3>2. /\ vol'.gens[transfer.gen] = vol.gens[transfer.gen]
          /\ here'.gens[transfer.gen] \in {here.gens[transfer.gen], vol.gens[transfer.gen]}
      BY <1>3, <1>4, <3>1
    <3>3. QED
      BY <1>4, <3>1, <3>2
  <2>3. QED
    BY <2>1, <2>2 DEF AckedComplete, AckedIsHere
<1>5. ASSUME vol'.acked = vol.acked, vol'.gens = vol.gens, here'.gens = here.gens,
             transfer' = transfer \/ transfer'.at # "ack"
      PROVE  AckedComplete' /\ AckedIsHere'
  BY <1>4, <1>5
<1>6. ASSUME vol' = EmptyVolume, transfer'.at # "ack"
      PROVE  AckedComplete' /\ AckedIsHere'
  BY <1>6 DEF EmptyVolume, AckedComplete, AckedIsHere
<1>7. Severed.at # "ack" /\ Resting.at # "ack" /\ Abandoned.at # "ack"
  BY DEF Severed, Remote, Resting, Abandoned
<1>8. Drained.acked = vol.acked /\ Drained.gens = vol.gens
  BY <1>1 DEF Drained, Volume
<1>9. Flushed.gens = here.gens
  BY <1>1, InstallFacts DEF Flushed, Volume
<1>10. CASE UNCHANGED vars \/ Deliver
  BY <1>1, <1>5, <1>10 DEF vars, Deliver, Tree
<1>11. CASE Open
  <2>1. /\ NextIndex \in Gens /\ vol' = [vol EXCEPT !.gens[NextIndex].status = "generating"]
        /\ here' = here /\ transfer' = transfer
    BY <1>11 DEF Open
  <2>2. vol.gens[NextIndex].status = "none"
    BY <1>1, <2>1, NextIndexNew
  <2>3. vol'.acked = vol.acked /\ \A g \in Gens : g # NextIndex => vol'.gens[g] = vol.gens[g]
    BY <1>1, <2>1 DEF Volume
  <2>4. \A g \in Gens : vol.gens[g].status = "complete" => g # NextIndex
    BY <2>2
  <2>5. QED
    BY <1>4, <2>1, <2>3, <2>4
<1>12. CASE Assign
  <2>1. here' = here /\ transfer' = transfer
    BY <1>12 DEF Assign
  <2>2. CASE Min(vol.staging) \in vol.ledger
    BY <1>1, <1>5, <1>12, <2>1, <2>2 DEF Assign, Volume
  <2>3. CASE Min(vol.staging) \notin vol.ledger
    <3> DEFINE c == Min(vol.staging)
    <3>1. PICK g \in Opened(vol) :
            vol' = [vol EXCEPT
              !.staging = @ \ {c}, !.ledger = @ \cup {c},
              !.gens[g] = [status |-> IF Cardinality(vol.gens[g].chunks \cup {c}) >= Target
                                      THEN "complete" ELSE "generating",
                           chunks |-> vol.gens[g].chunks \cup {c}]]
      BY <1>12, <2>3 DEF Assign
    <3>2. g \in Gens /\ vol.gens[g].status = "generating"
      BY DEF Opened
    <3>3. vol'.acked = vol.acked /\ \A h \in Gens : h # g => vol'.gens[h] = vol.gens[h]
      BY <1>1, <3>1, <3>2 DEF Volume
    <3>4. \A h \in Gens : vol.gens[h].status = "complete" => h # g
      BY <3>2
    <3>5. QED
      BY <1>4, <2>1, <3>3, <3>4
  <2>4. QED
    BY <2>2, <2>3
<1>13. CASE EvictAtHome
  <2>1. /\ Drop(vol, EvictedAtHome) \in Volume
        /\ Drop(vol, EvictedAtHome).acked = vol.acked
        /\ \A g \in Gens : g \notin EvictedAtHome => Drop(vol, EvictedAtHome).gens[g] = vol.gens[g]
    BY <1>1, DropFacts DEF Volume
  <2>2. /\ vol'.acked = vol.acked \ EvictedAtHome
        /\ \A g \in Gens : g \notin EvictedAtHome => vol'.gens[g] = vol.gens[g]
        /\ here' = here /\ transfer' = transfer
    BY <1>13, <2>1 DEF EvictAtHome, Volume
  <2>3. EvictedAtHome \subseteq vol.acked
    BY DEF EvictedAtHome
  <2>4. QED
    BY <1>4, <2>2, <2>3
<1>14. CASE TakeSeed \/ Train \/ Publish \/ PushPair \/ DropOlder
  BY <1>1, <1>5, <1>14 DEF TakeSeed, Train, Publish, PushPair, DropOlder, Volume
<1>15. CASE Exit \/ Pause
  BY <1>5, <1>8, <1>15 DEF Exit, Pause
<1>16. CASE PullPairs \/ RemovePulled \/ InstallModel \/ InstallCursor \/ Installed \/ Relay
            \/ Unlink \/ CutShort
  <2>1. vol'.acked = vol.acked /\ vol'.gens = vol.gens /\ here'.gens = here.gens
    BY <1>1, <1>16 DEF PullPairs, RemovePulled, InstallModel, InstallCursor, Installed, Relay,
                       Unlink, CutShort, Volume, Tree
  <2>2. ~CopyGeneration
    BY <1>16 DEF CopyGeneration, PullPairs, RemovePulled, InstallModel, InstallCursor, Installed,
                 Relay, Unlink, CutShort
  <2>3. transfer'.at # "ack"
    BY <1>1, <1>16, <2>2, ThreadMoves DEF Transfer
  <2>4. QED
    BY <1>5, <2>1, <2>3
<1>17. CASE CopyGeneration
  <2> DEFINE ready == Complete(vol) \ vol.acked
  <2>1. CASE ready = {}
    BY <1>5, <1>17, <2>1 DEF CopyGeneration, Goes, Resting
  <2>2. CASE ready # {}
    <3>1. Min(ready) \in ready
      BY <2>2, MinDef, Constants DEF Complete
    <3>2. /\ vol' = vol
          /\ here' = [here EXCEPT !.gens[Min(ready)] = vol.gens[Min(ready)]]
          /\ transfer' = [Resting EXCEPT !.at = "ack", !.gen = Min(ready)]
      BY <1>17, <2>2 DEF CopyGeneration
    <3>3. Min(ready) \in Gens /\ Min(ready) \notin vol.acked
          /\ vol.gens[Min(ready)].status = "complete"
      BY <3>1 DEF Complete
    <3> DEFINE n == Min(ready)
    <3>4. /\ vol' = vol /\ n \in Gens /\ n \notin vol.acked /\ vol.gens[n].status = "complete"
          /\ here' = [here EXCEPT !.gens[n] = vol.gens[n]] /\ transfer'.gen = n
      BY <3>2, <3>3 DEF Resting
    <3> HIDE DEF n
    <3>5. here'.gens[n] = vol.gens[n] /\ \A g \in Gens : g # n => here'.gens[g] = here.gens[g]
      BY <1>1, <3>4 DEF Tree
    <3>6. AckedComplete'
      BY <3>4, <3>5 DEF AckedComplete
    <3>7. AckedIsHere'
      BY <1>2, <1>3, <3>4, <3>5 DEF AckedIsHere
    <3>8. QED
      BY <3>6, <3>7
  <2>3. QED
    BY <2>1, <2>2
<1>18. CASE Acknowledge
  <2>1. /\ here' = here /\ vol'.gens = vol.gens /\ vol'.acked = vol.acked \cup {transfer.gen}
        /\ transfer.at = "ack" /\ transfer'.at # "ack"
    BY <1>1, <1>18 DEF Acknowledge, Goes, Resting, Volume
  <2>2. QED
    BY <2>1 DEF AckedComplete, AckedIsHere
<1>19. CASE Trim
  <2>1. /\ vol' = vol /\ transfer'.at # "ack" /\ here' = Drop(here, TrimmedHere)
        /\ here'.cursor = here.cursor
        /\ \A g \in Gens : g \notin TrimmedHere => here'.gens[g] = here.gens[g]
    BY <1>1, <1>19, DropFacts DEF Trim, Goes, Resting, Tree
  <2>2. ASSUME NEW g \in vol.acked, Window = 0 \/ g >= here.cursor - Window
        PROVE  g \notin TrimmedHere
    <3>1. g \in Nat
      BY <1>3, Constants
    <3>2. QED
      BY <1>1, <2>2, <3>1, TrimLemma
  <2>3. QED
    BY <1>3, <2>1, <2>2 DEF AckedComplete, AckedIsHere
<1>20. CASE SeedVolume
  <2> DEFINE fresh == {g \in Seeded : vol.gens[g].status = "none"}
  <2>1. /\ here' = here /\ transfer' = transfer
        /\ vol'.acked = vol.acked \cup (fresh \cap Complete(here))
        /\ \A g \in Gens : vol'.gens[g] = IF g \in fresh THEN here.gens[g] ELSE vol.gens[g]
    BY <1>1, <1>20 DEF SeedVolume, Volume
  <2>2. \A g \in fresh \cap Complete(here) : g \in Gens /\ here.gens[g].status = "complete"
    BY DEF Complete
  <2>3. \A g \in fresh : vol.gens[g].status = "none"
    OBVIOUS
  <2> HIDE DEF fresh
  <2>4. ASSUME NEW g \in vol.acked
        PROVE  g \in Gens /\ vol'.gens[g] = vol.gens[g] /\ vol.gens[g].status = "complete"
    BY <1>3, <2>1, <2>3, <2>4 DEF AckedComplete
  <2>5. ASSUME NEW g \in fresh \cap Complete(here)
        PROVE  vol'.gens[g] = here.gens[g] /\ vol'.gens[g].status = "complete"
    BY <2>1, <2>2, <2>5
  <2>6. ASSUME transfer.at = "ack"
        PROVE  transfer.gen \notin fresh /\ vol'.gens[transfer.gen] = vol.gens[transfer.gen]
    BY <1>3, <2>1, <2>3, <2>6 DEF AckedComplete
  <2>7. AckedComplete'
    BY <2>1, <2>4, <2>5, <2>6 DEF AckedComplete
  <2>8. AckedIsHere'
    BY <2>1, <2>4, <2>5 DEF AckedIsHere
  <2>9. QED
    BY <2>7, <2>8
<1>21. CASE SweepGenerations
  <2>1. vol' = vol /\ transfer' = transfer /\ \A g \in Gens : here'.gens[g] = SweptGen(g)
    BY <1>1, <1>21 DEF SweepGenerations, Tree
  <2>2. \A g \in Gens : SweptGen(g) \in {here.gens[g], vol.gens[g]}
    BY DEF SweptGen
  <2>3. QED
    BY <1>4, <2>1, <2>2
<1>22. CASE SweepRest
  BY <1>1, <1>5, <1>22 DEF SweepRest, Tree
<1>23. CASE Finish \/ Replace \/ SweepPairs
  BY <1>5, <1>9, <1>23 DEF Finish, Replace, SweepPairs
<1>24. CASE Restart \/ Create \/ Start \/ PushSeed \/ Remove
  BY <1>1, <1>5, <1>24 DEF Restart, Create, Start, PushSeed, Remove, Volume
<1>25. CASE RemoveContainer
  BY <1>5, <1>7, <1>25 DEF RemoveContainer
<1>26. CASE RemoveVolume
  <2>1. vol' = EmptyVolume /\ transfer' = transfer /\ transfer.at # "ack"
    BY <1>26 DEF RemoveVolume, StagesKnown
  <2>2. QED
    BY <1>6, <2>1
<1>27. CASE RemoveMissing \/ LoseHome
  BY <1>6, <1>7, <1>27 DEF RemoveMissing, LoseHome
<1>28. CASE CommandFails \/ TransferFails \/ Crash \/ DashboardCrash
  BY <1>5, <1>7, <1>28 DEF CommandFails, TransferFails, Crash, DashboardCrash
<1>29. QED
  BY <1>10, <1>11, <1>12, <1>13, <1>14, <1>15, <1>16, <1>17, <1>18, <1>19, <1>20, <1>21, <1>22,
     <1>23, <1>24, <1>25, <1>26, <1>27, <1>28
     DEF Next, Home, Transfer, Placement, Removal, Operator, Fault

-----------------------------------------------------------------------------
\* The theorems.

\* Nothing is anywhere at first.
LEMMA MovesInit == Init => MovesInv
<1> SUFFICES ASSUME Init PROVE MovesInv
  OBVIOUS
<1>1. TypeOK
  BY TypeInit
<1>2. StagesKnown /\ TrainerKnows /\ PairKnown /\ Ledgered /\ AssignedOnce
  BY DEF Init, StagesKnown, TrainerKnows, PairKnown, Ledgered, AssignedOnce, Off, Resting
<1>3. CursorBehindWeights /\ AckedComplete /\ AckedIsHere
  BY DEF Init, CursorBehindWeights, AckedComplete, AckedIsHere, Empty, EmptyVolume, Resting
<1>4. QED
  BY <1>1, <1>2, <1>3 DEF MovesInv

\* Where no sweep meets a half-installed pair, every step keeps the invariant, and
\* none takes the cursor here back.
LEMMA MovesStep ==
  ASSUME ~Overlap
  PROVE  MovesInv /\ [Next]_vars => MovesInv' /\ here.cursor <= here'.cursor
<1> SUFFICES ASSUME MovesInv, [Next]_vars
             PROVE  MovesInv' /\ here.cursor <= here'.cursor
  OBVIOUS
<1> USE DEF MovesInv
<1>1. TypeOK'
  BY TypeStep
<1>2. StagesKnown'
  BY StagesStep
<1>3. PairKnown' /\ here'.cursor <= here'.model /\ here.cursor <= here'.cursor
  BY HereStep DEF CursorBehindWeights
<1>4. TrainerKnows' /\ vol'.cursor <= vol'.model
  BY VolStep DEF CursorBehindWeights
<1>5. Ledgered' /\ AssignedOnce'
  BY LedgerStep
<1>6. here' \in Tree
  BY <1>1, SortsNext
<1>7. AckedComplete' /\ AckedIsHere'
  BY <1>3, <1>6, AckStep
<1>8. QED
  BY <1>1, <1>2, <1>3, <1>4, <1>5, <1>7 DEF CursorBehindWeights

\* The invariant holds throughout.
THEOREM MovesInvariant == ASSUME ~Overlap PROVE Spec => []MovesInv
<1>1. MovesInv /\ [Next]_vars => MovesInv'
  BY MovesStep
<1>2. QED
  BY MovesInit, <1>1, PTL DEF Spec

\* state_pair.install's rule, for every reader: at the home and here, the cursor
\* is never ahead of the checkpoint it describes, however a pull, a sweep, a seed
\* and a fault follow one another.
THEOREM CursorRule == ASSUME ~Overlap PROVE Spec => []CursorBehindWeights
<1>1. MovesInv => CursorBehindWeights
  BY DEF MovesInv
<1>2. QED
  BY MovesInvariant, <1>1, PTL

\* The state here never goes back, though pairs are pulled, swept and installed
\* again, in any order.
THEOREM NeverGoesBack == ASSUME ~Overlap PROVE Spec => RowsNeverBack
<1>1. ASSUME MovesInv, [Next]_vars PROVE [here'.cursor >= here.cursor]_here
  <2>1. here.cursor <= here'.cursor /\ here \in Tree /\ here' \in Tree
    BY <1>1, MovesStep, Sorts, SortsNext DEF MovesInv
  <2>2. here.cursor \in Nat /\ here'.cursor \in Nat
    BY <2>1, Constants DEF Tree
  <2>3. QED
    BY <2>1, <2>2
<1>2. QED
  BY MovesInvariant, <1>1, PTL DEF Spec, RowsNeverBack

\* keep_unpulled: the home evicts only generations acknowledged, and those are
\* here, as they are there, while a home resumed from here could read them.
THEOREM AckedSafe == ASSUME ~Overlap PROVE Spec => []AckedIsHere
<1>1. MovesInv => AckedIsHere
  BY DEF MovesInv
<1>2. QED
  BY MovesInvariant, <1>1, PTL

\* A delivered chunk is trained on in one generation, wherever the home has been,
\* unless its ledger line went with an unswept volume.
THEOREM AssignedOnceOnly == ASSUME ~Overlap PROVE Spec => []ChunkOnce
<1>1. MovesInv => ChunkOnce
  <2> SUFFICES ASSUME MovesInv, NEW c \in Chunks \ forgotten
               PROVE  Cardinality({g \in Gens : <<c, g>> \in into}) <= 1
    BY DEF ChunkOnce
  <2> DEFINE S == {g \in Gens : <<c, g>> \in into}
  <2>1. \A g, h \in S : g = h
    <3> SUFFICES ASSUME NEW g \in S, NEW h \in S PROVE g = h
      OBVIOUS
    <3>1. <<c, g>> \in into /\ <<c, h>> \in into /\ <<c, g>>[1] = c /\ <<c, h>>[1] = c
      OBVIOUS
    <3>2. <<c, g>> = <<c, h>>
      BY <3>1 DEF MovesInv, AssignedOnce
    <3>3. QED
      BY <3>2
  <2> HIDE DEF S
  <2>2. CASE S = {}
    <3>1. Cardinality(S) = 0
      BY <2>2, FS_EmptySet
    <3>2. QED
      BY <3>1 DEF S
  <2>3. CASE S # {}
    <3>1. PICK g \in S : S = {g}
      BY <2>1, <2>3
    <3>2. Cardinality(S) = 1
      BY <3>1, FS_Singleton
    <3>3. QED
      BY <3>2 DEF S
  <2>4. QED
    BY <2>2, <2>3
<1>2. QED
  BY MovesInvariant, <1>1, PTL

-----------------------------------------------------------------------------
\* What the steps that move chunks or generations do.

\* Opening adds a generation behind which nothing is.
LEMMA OpenDoes ==
  ASSUME TypeOK, Open
  PROVE  /\ NextIndex \in Gens /\ vol.gens[NextIndex].status = "none"
         /\ vol.cursor <= NextIndex
         /\ vol'.gens[NextIndex].status = "generating"
         /\ \A g \in Gens : vol'.gens[g].chunks = vol.gens[g].chunks
         /\ \A g \in Gens : g # NextIndex => vol'.gens[g] = vol.gens[g]
         /\ vol'.staging = vol.staging /\ vol'.ledger = vol.ledger
         /\ vol'.cursor = vol.cursor /\ vol'.model = vol.model
         /\ vol'.seed = vol.seed /\ vol'.out = vol.out
<1>1. vol \in Volume
  BY Sorts
<1>2. /\ NextIndex \in Gens
      /\ vol' = [vol EXCEPT !.gens[NextIndex].status = "generating"]
  BY DEF Open
<1> DEFINE S == {vol.cursor} \cup {g + 1 : g \in Present(vol)}
<1>3. S \subseteq 0 .. Last + OpenAhead + 1 /\ S # {}
  BY <1>1, Constants DEF Volume, Rows, Gens, Present
<1>4. \A y \in S : y <= Max(S)
  BY <1>3, MaxDef, Constants
<1>5. vol.cursor <= NextIndex
  BY <1>4 DEF NextIndex
<1> HIDE DEF S
<1>6. vol.gens[NextIndex].status = "none"
  BY <1>1, <1>2, NextIndexNew
<1>7. \A g \in Gens : vol.gens[g] \in GenSort
  BY <1>1 DEF Volume
<1>8. /\ vol'.gens[NextIndex].status = "generating"
      /\ vol'.gens[NextIndex].chunks = vol.gens[NextIndex].chunks
      /\ \A g \in Gens : g # NextIndex => vol'.gens[g] = vol.gens[g]
  BY <1>1, <1>2, <1>7 DEF Volume, GenSort
<1>9. \A g \in Gens : vol'.gens[g].chunks = vol.gens[g].chunks
  BY <1>8
<1>10. QED
  BY <1>1, <1>2, <1>5, <1>6, <1>8, <1>9 DEF Volume

\* A pass over the oldest chunk drops it, or files it in the open generation.
LEMMA AssignDoes ==
  ASSUME TypeOK, Assign
  PROVE  \E c \in vol.staging :
           /\ vol'.staging = vol.staging \ {c}
           /\ vol'.cursor = vol.cursor /\ vol'.model = vol.model
           /\ vol'.seed = vol.seed /\ vol'.out = vol.out
           /\ \/ /\ c \in vol.ledger
                 /\ vol'.ledger = vol.ledger /\ vol'.gens = vol.gens /\ into' = into
              \/ /\ vol'.ledger = vol.ledger \cup {c}
                 /\ \E g \in Gens :
                      /\ vol.gens[g].status = "generating"
                      /\ vol'.gens[g].status \in {"generating", "complete"}
                      /\ vol'.gens[g].chunks = vol.gens[g].chunks \cup {c}
                      /\ \A h \in Gens : h # g => vol'.gens[h] = vol.gens[h]
                      /\ into' = into \cup {<<c, g>>}
<1>1. vol \in Volume
  BY Sorts
<1> DEFINE c == Min(vol.staging)
<1>2. c \in vol.staging
  BY <1>1, MinDef, Constants DEF Assign, Volume
<1>3. CASE c \in vol.ledger
  <2>1. vol' = [vol EXCEPT !.staging = @ \ {c}] /\ into' = into
    BY <1>3 DEF Assign
  <2> HIDE DEF c
  <2>2. /\ vol'.staging = vol.staging \ {c} /\ vol'.ledger = vol.ledger
        /\ vol'.gens = vol.gens
        /\ vol'.cursor = vol.cursor /\ vol'.model = vol.model
        /\ vol'.seed = vol.seed /\ vol'.out = vol.out
    BY <1>1, <2>1 DEF Volume
  <2>3. QED
    BY <1>2, <1>3, <2>1, <2>2
<1>4. CASE c \notin vol.ledger
  <2>1. PICK g \in Opened(vol) :
          LET filled == vol.gens[g].chunks \cup {c}
          IN /\ vol' = [vol EXCEPT
                  !.staging = @ \ {c}, !.ledger = @ \cup {c},
                  !.gens[g] = [status |-> IF Cardinality(filled) >= Target
                                          THEN "complete" ELSE "generating",
                               chunks |-> filled]]
             /\ into' = into \cup {<<c, g>>}
    BY <1>4 DEF Assign
  <2>2. g \in Gens /\ vol.gens[g].status = "generating"
    BY DEF Opened
  <2> DEFINE more == [status |-> IF Cardinality(vol.gens[g].chunks \cup {c}) >= Target
                                 THEN "complete" ELSE "generating",
                      chunks |-> vol.gens[g].chunks \cup {c}]
  <2>3. /\ more.status \in {"generating", "complete"}
        /\ more.chunks = vol.gens[g].chunks \cup {c}
    OBVIOUS
  <2>4. vol' = [vol EXCEPT !.staging = @ \ {c}, !.ledger = @ \cup {c}, !.gens[g] = more]
    BY <2>1
  <2> HIDE DEF more, c
  <2>5. /\ vol'.staging = vol.staging \ {c} /\ vol'.ledger = vol.ledger \cup {c}
        /\ vol'.gens[g] = more
        /\ \A h \in Gens : h # g => vol'.gens[h] = vol.gens[h]
        /\ vol'.cursor = vol.cursor /\ vol'.model = vol.model
        /\ vol'.seed = vol.seed /\ vol'.out = vol.out
    BY <1>1, <2>2, <2>4 DEF Volume
  <2>6. \E h \in Gens :
          /\ vol.gens[h].status = "generating"
          /\ vol'.gens[h].status \in {"generating", "complete"}
          /\ vol'.gens[h].chunks = vol.gens[h].chunks \cup {c}
          /\ \A i \in Gens : i # h => vol'.gens[i] = vol.gens[i]
          /\ into' = into \cup {<<c, h>>}
    BY <2>1, <2>2, <2>3, <2>5
  <2>7. QED
    BY <1>2, <2>5, <2>6
<1>5. QED
  BY <1>3, <1>4

\* The home evicts what is acknowledged and behind its window.
LEMMA EvictDoes ==
  ASSUME TypeOK, TrainerKnows, EvictAtHome
  PROVE  /\ \A g \in EvictedAtHome :
              g \in Gens /\ g \in vol.acked /\ Window # 0 /\ g < vol.cursor - Window
         /\ \A g \in Gens : vol'.gens[g] = IF g \in EvictedAtHome THEN NoGen ELSE vol.gens[g]
         /\ vol'.staging = vol.staging /\ vol'.ledger = vol.ledger
         /\ vol'.cursor = vol.cursor /\ vol'.model = vol.model
         /\ vol'.seed = vol.seed /\ vol'.out = vol.out
<1>1. vol \in Volume
  BY Sorts
<1>2. vol.cursor = trainer.index /\ vol.cursor \in Nat
  BY <1>1, Constants DEF EvictAtHome, TrainerKnows, Volume
<1>3. ASSUME NEW g \in EvictedAtHome
      PROVE  g \in Gens /\ g \in vol.acked /\ Window # 0 /\ g < vol.cursor - Window
  <2>1. g \in Evictable(vol, vol.cursor - 1) /\ g \in vol.acked
    BY <1>2 DEF EvictedAtHome
  <2>2. QED
    BY <1>1, <1>2, <2>1, EvictableOld DEF Volume
<1> DEFINE less == Drop(vol, EvictedAtHome)
<1>4. /\ less \in Volume
      /\ \A g \in Gens : less.gens[g] = IF g \in EvictedAtHome THEN NoGen ELSE vol.gens[g]
      /\ less.staging = vol.staging /\ less.ledger = vol.ledger
      /\ less.cursor = vol.cursor /\ less.model = vol.model
  BY <1>1, DropFacts DEF Volume
<1>5. less.seed = vol.seed /\ less.out = vol.out
  BY <1>1 DEF Drop, Volume
<1>6. vol' = [less EXCEPT !.acked = @ \ EvictedAtHome]
  BY DEF EvictAtHome
<1> HIDE DEF less
<1>7. QED
  BY <1>3, <1>4, <1>5, <1>6 DEF Volume

\* A copy is of a complete generation there.
LEMMA CopyDoes ==
  ASSUME TypeOK, CopyGeneration
  PROVE  /\ vol' = vol /\ transfer'.at # "unlink" /\ transfer'.pairs = {}
         /\ here'.staging = here.staging /\ here'.ledger = here.ledger
         /\ here'.cursor = here.cursor /\ here'.model = here.model
         /\ \A g \in Gens :
              \/ here'.gens[g] = here.gens[g]
              \/ here'.gens[g] = vol.gens[g] /\ vol.gens[g].status = "complete"
<1>1. here \in Tree /\ vol' = vol
  BY Sorts DEF CopyGeneration
<1> DEFINE ready == Complete(vol) \ vol.acked
           n == Min(ready)
<1>2. CASE ready = {}
  BY <1>1, <1>2 DEF CopyGeneration, Goes, Resting
<1>3. CASE ready # {}
  <2>1. n \in ready
    BY <1>3, MinDef, Constants DEF Complete
  <2>2. n \in Gens /\ vol.gens[n].status = "complete"
    BY <2>1 DEF Complete
  <2>3. /\ here' = [here EXCEPT !.gens[n] = vol.gens[n]]
        /\ transfer' = [Resting EXCEPT !.at = "ack", !.gen = n]
    BY <1>3 DEF CopyGeneration
  <2> HIDE DEF n
  <2>4. transfer'.at = "ack" /\ transfer'.pairs = {}
    BY <2>3 DEF Resting
  <2>5. /\ here'.staging = here.staging /\ here'.ledger = here.ledger
        /\ here'.cursor = here.cursor /\ here'.model = here.model
        /\ here'.gens[n] = vol.gens[n]
        /\ \A g \in Gens : g # n => here'.gens[g] = here.gens[g]
    BY <1>1, <2>2, <2>3 DEF Tree
  <2>6. QED
    BY <1>1, <2>2, <2>4, <2>5
<1>4. QED
  BY <1>2, <1>3

\* What is trimmed here is behind the window.
LEMMA TrimDoes ==
  ASSUME TypeOK, Trim
  PROVE  /\ vol' = vol /\ transfer'.at # "unlink" /\ transfer'.pairs = {}
         /\ here'.staging = here.staging /\ here'.ledger = here.ledger
         /\ here'.cursor = here.cursor /\ here'.model = here.model
         /\ \A g \in Gens :
              \/ here'.gens[g] = here.gens[g]
              \/ here'.gens[g] = NoGen /\ Window # 0 /\ g < here.cursor - Window
<1>1. here \in Tree
  BY Sorts
<1>2. /\ vol' = vol /\ transfer'.at # "unlink" /\ transfer'.pairs = {}
      /\ here' = Drop(here, TrimmedHere)
  BY DEF Trim, Goes, Resting
<1>3. \A g \in TrimmedHere : Window # 0 /\ g < here.cursor - Window
  BY <1>1, TrimLemma
<1>4. QED
  BY <1>1, <1>2, <1>3, DropFacts DEF Tree

\* A volume is seeded with what is here and wanted, where it has nothing.
LEMMA SeedDoes ==
  ASSUME TypeOK, SeedVolume
  PROVE  /\ \A g \in Gens :
              \/ vol'.gens[g] = vol.gens[g]
                 /\ (vol.gens[g].status = "none" /\ here.gens[g].status # "none" => ~Wanted(g))
              \/ vol'.gens[g] = here.gens[g] /\ vol.gens[g].status = "none"
         /\ vol'.staging = vol.staging /\ vol'.ledger = vol.ledger \cup here.ledger
         /\ vol'.cursor = vol.cursor /\ vol'.model = vol.model
         /\ vol'.seed = vol.seed /\ vol'.out = vol.out
<1>1. vol \in Volume /\ here \in Tree
  BY Sorts
<1> DEFINE fresh == {g \in Seeded : vol.gens[g].status = "none"}
           seeds == [g \in Gens |-> IF g \in fresh THEN here.gens[g] ELSE vol.gens[g]]
           acks == vol.acked \cup (fresh \cap Complete(here))
<1>2. vol' = [vol EXCEPT !.gens = seeds, !.acked = acks, !.ledger = SeededLedger]
  BY <1>1 DEF SeedVolume, Volume
<1>3. \A g \in Gens :
        \/ seeds[g] = vol.gens[g]
           /\ (vol.gens[g].status = "none" /\ here.gens[g].status # "none" => ~Wanted(g))
        \/ seeds[g] = here.gens[g] /\ vol.gens[g].status = "none"
  BY DEF Seeded, Present, Wanted
<1> HIDE DEF seeds, acks
<1>4. QED
  BY <1>1, <1>2, <1>3 DEF Volume, SeededLedger

\* A sweep of the generations brings each that is there.
LEMMA SweepDoes ==
  ASSUME TypeOK, SweepGenerations
  PROVE  /\ vol' = vol /\ transfer' = transfer
         /\ here'.staging = here.staging /\ here'.ledger = here.ledger
         /\ here'.cursor = here.cursor /\ here'.model = here.model
         /\ \A g \in Gens : here'.gens[g] = IF vol.gens[g].status = "none"
                                            THEN here.gens[g] ELSE vol.gens[g]
BY Sorts DEF SweepGenerations, SweptGen, Tree

-----------------------------------------------------------------------------
\* Chunks.

\* The steps that move chunks or generations, or end a volume.
Moving ==
  \/ Deliver \/ Open \/ Assign \/ EvictAtHome \/ Relay \/ Unlink \/ CopyGeneration \/ Trim
  \/ SeedVolume \/ SweepGenerations \/ SweepRest \/ RemoveVolume \/ RemoveMissing \/ LoseHome

\* What the others do to what is told of chunks: nothing.
Quiet ==
  /\ here'.gens = here.gens /\ here'.staging = here.staging /\ here'.ledger = here.ledger
  /\ vol'.gens = vol.gens /\ vol'.staging = vol.staging /\ vol'.ledger = vol.ledger
  /\ vol.cursor <= vol'.cursor
  /\ sent' = sent /\ into' = into /\ lost' = lost /\ unswept' = unswept
  /\ box'.state = "none" <=> box.state = "none"
  /\ box.state = "none" => vol' = vol
  /\ op' \in {"rest", "container", "volume"} => op \in {"rest", "container", "volume"}
  /\ op' \in {"container", "volume"} => op \in {"container", "volume"}
  /\ transfer'.at = "unlink" => transfer.at = "unlink" /\ transfer'.chunks = transfer.chunks

LEMMA QuietSteps ==
  ASSUME TypeOK, StagesKnown, TrainerKnows, vol.cursor <= vol.model,
         vol.seed.cursor <= vol.seed.model, [Next]_vars, ~Moving
  PROVE  Quiet
<1>1. /\ here \in Tree /\ vol \in Volume /\ box \in Box /\ transfer \in Thread
      /\ trainer \in Trainer
      /\ vol.cursor \in Nat /\ vol.model \in Nat /\ trainer.index \in Nat
      /\ vol.seed.cursor \in Nat /\ vol.seed.model \in Nat
  BY Sorts, Constants DEF Volume, Trainer
<1>2. Severed.at # "unlink" \/ Severed = transfer
  BY DEF Severed, Resting
<1>3. Abandoned.at # "unlink"
  BY DEF Abandoned, Resting
<1>4. /\ Drained.gens = vol.gens /\ Drained.staging = vol.staging
      /\ Drained.ledger = vol.ledger /\ Drained.cursor = vol.cursor
  BY <1>1 DEF Drained, Volume
<1>5. Flushed.gens = here.gens /\ Flushed.staging = here.staging /\ Flushed.ledger = here.ledger
  BY <1>1, InstallFacts DEF Flushed, Volume
<1>6. CASE UNCHANGED vars
  BY <1>1, <1>6 DEF vars, history, Quiet
<1>7. CASE TakeSeed
  <2>1. /\ here' = here /\ box' = box /\ transfer' = transfer /\ op' = op /\ sent' = sent
        /\ into' = into /\ lost' = lost /\ unswept' = unswept /\ box.state = "running"
    BY <1>7 DEF TakeSeed, history
  <2> DEFINE model == IF vol.seed # NoSeed /\ Beats(vol, vol.seed.cursor)
                      THEN vol.seed.model ELSE vol.model
  <2>2. vol.cursor <= model
    BY <1>1 DEF Beats
  <2>3. vol' = [vol EXCEPT !.model = model, !.cursor = model, !.seed = NoSeed]
    BY <1>7 DEF TakeSeed
  <2> HIDE DEF model
  <2>4. /\ vol'.gens = vol.gens /\ vol'.staging = vol.staging /\ vol'.ledger = vol.ledger
        /\ vol'.cursor = model
    BY <1>1, <2>3 DEF Volume
  <2>5. QED
    BY <1>1, <2>1, <2>2, <2>4 DEF Quiet
<1>8. CASE Train
  BY <1>1, <1>8 DEF Train, Working, Volume, history, Quiet
<1>9. CASE Publish
  BY <1>1, <1>9 DEF Publish, TrainerKnows, Volume, history, Quiet
<1>10. CASE PushPair \/ DropOlder
  BY <1>1, <1>10 DEF PushPair, DropOlder, Volume, history, Quiet
<1>11. CASE Exit \/ Pause
  BY <1>1, <1>4, <1>11 DEF Exit, Pause, Working, Box, history, Quiet
<1>12. CASE PullPairs \/ RemovePulled \/ Installed \/ CutShort \/ Acknowledge
  <2>1. transfer'.at # "unlink"
    BY <1>1, <1>3, <1>12 DEF PullPairs, RemovePulled, Installed, CutShort, Acknowledge, Goes,
                             Resting, Thread
  <2>2. /\ here' = here /\ vol'.gens = vol.gens /\ vol'.staging = vol.staging
        /\ vol'.ledger = vol.ledger /\ vol'.cursor = vol.cursor
    BY <1>1, <1>12 DEF PullPairs, RemovePulled, Installed, CutShort, Acknowledge, Volume
  <2>3. box.state = "none" => vol' = vol
    BY <1>12 DEF PullPairs, RemovePulled, Installed, CutShort, Acknowledge
  <2>4. QED
    BY <1>1, <1>12, <2>1, <2>2, <2>3 DEF PullPairs, RemovePulled, Installed, CutShort,
                                         Acknowledge, history, Quiet
<1>13. CASE InstallModel \/ InstallCursor
  <2>1. transfer'.at # "unlink"
    BY <1>1, <1>13 DEF InstallModel, InstallCursor, Thread
  <2>2. here'.gens = here.gens /\ here'.staging = here.staging /\ here'.ledger = here.ledger
    BY <1>1, <1>13 DEF InstallModel, InstallCursor, Tree
  <2>3. QED
    BY <1>1, <1>13, <2>1, <2>2 DEF InstallModel, InstallCursor, history, Quiet
<1>14. CASE Restart \/ Create \/ Start \/ Remove
  BY <1>1, <1>14 DEF Restart, Create, Start, Remove, StagesKnown, Box, history, Quiet
<1>15. CASE PushSeed
  BY <1>1, <1>15 DEF PushSeed, Volume, Quiet
<1>16. CASE Finish \/ Replace \/ SweepPairs
  BY <1>1, <1>5, <1>16 DEF Finish, Replace, SweepPairs, Box, history, Quiet
<1>17. CASE RemoveContainer
  BY <1>1, <1>2, <1>17 DEF RemoveContainer, StagesKnown, Box, history, Quiet
<1>18. CASE CommandFails \/ TransferFails \/ Crash \/ DashboardCrash
  BY <1>1, <1>3, <1>18 DEF CommandFails, TransferFails, Crash, DashboardCrash, Resting, Box,
                           history, Quiet
<1>19. QED
  BY <1>6, <1>7, <1>8, <1>9, <1>10, <1>11, <1>12, <1>13, <1>14, <1>15, <1>16, <1>17, <1>18
     DEF Moving, Next, Home, Transfer, Placement, Removal, Operator, Fault

\* A chunk is filed where a generation holds it.
LEMMA FiledIn ==
  ASSUME NEW tree, NEW c
  PROVE  c \in Filed(tree) <=> \E g \in Gens : c \in tree.gens[g].chunks
BY DEF Filed

\* What is past stays past.
LEMMA PastStays ==
  ASSUME here.cursor \in Nat, here'.cursor \in Nat, here.cursor <= here'.cursor,
         into \subseteq into', NEW c, Past(c)
  PROVE  Past(c)'
<1>1. PICK g \in Gens : <<c, g>> \in into /\ g < here.cursor
  BY DEF Past
<1>2. g < here'.cursor
  BY <1>1, Constants
<1>3. QED
  BY <1>1, <1>2 DEF Past

\* A generation behind the window is behind the cursor.
LEMMA BehindWindow ==
  ASSUME NEW g \in Gens, NEW n \in Nat, Window # 0, g < n - Window
  PROVE  g < n
BY Constants

\* What is traced stays so, here and there.
LEMMA TracedStep ==
  ASSUME TypeOK, StagesKnown, TrainerKnows, vol.cursor <= vol.model,
         vol.seed.cursor <= vol.seed.model, Traced, [Next]_vars
  PROVE  Traced' /\ into \subseteq into'
<1>1. here \in Tree /\ vol \in Volume
  BY Sorts
<1>2. NoGen.status = "none" /\ NoGen.chunks = {}
  BY DEF NoGen
<1>3. \A g \in Gens : EmptyVolume.gens[g] = NoGen
  BY DEF EmptyVolume
<1> DEFINE Sound(gen, g, pairs) == /\ \A c \in gen.chunks : <<c, g>> \in pairs
                                   /\ gen.status = "none" => gen.chunks = {}
<1>4. \A g \in Gens : Sound(here.gens[g], g, into) /\ Sound(vol.gens[g], g, into)
  BY DEF Traced
<1>5. ASSUME into \subseteq into',
             \A g \in Gens : Sound(here'.gens[g], g, into') /\ Sound(vol'.gens[g], g, into')
      PROVE  Traced' /\ into \subseteq into'
  BY <1>5 DEF Traced
<1>6. \A g \in Gens : Sound(NoGen, g, into)
  BY <1>2
<1> HIDE DEF Sound
<1>7. ASSUME into' = into,
             \A g \in Gens : /\ here'.gens[g] \in {here.gens[g], vol.gens[g], NoGen}
                             /\ vol'.gens[g] \in {here.gens[g], vol.gens[g], NoGen}
      PROVE  Traced' /\ into \subseteq into'
  BY <1>4, <1>5, <1>6, <1>7
<1>8. CASE ~Moving
  BY <1>7, <1>8, QuietSteps DEF Quiet
<1>9. CASE Deliver \/ Relay \/ Unlink \/ SweepRest
  <2>1. here'.gens = here.gens /\ vol'.gens = vol.gens /\ into' = into
    BY <1>1, <1>9 DEF Deliver, Relay, Unlink, SweepRest, Tree, Volume, history
  <2>2. QED
    BY <1>7, <2>1
<1>10. CASE Open
  <2>1. /\ here' = here /\ into' = into
        /\ vol'.gens[NextIndex].status # "none"
        /\ \A g \in Gens : vol'.gens[g].chunks = vol.gens[g].chunks
        /\ \A g \in Gens : g # NextIndex => vol'.gens[g] = vol.gens[g]
    BY <1>10, OpenDoes DEF Open, history
  <2>2. \A g \in Gens : Sound(vol'.gens[g], g, into')
    BY <1>4, <2>1 DEF Sound
  <2>3. QED
    BY <1>4, <1>5, <2>1, <2>2
<1>11. CASE Assign
  <2>1. PICK c \in vol.staging :
          \/ vol'.gens = vol.gens /\ into' = into
          \/ \E g \in Gens :
               /\ vol'.gens[g].status \in {"generating", "complete"}
               /\ vol'.gens[g].chunks = vol.gens[g].chunks \cup {c}
               /\ \A h \in Gens : h # g => vol'.gens[h] = vol.gens[h]
               /\ into' = into \cup {<<c, g>>}
    BY <1>11, AssignDoes
  <2>2. here' = here
    BY <1>11 DEF Assign
  <2>3. CASE vol'.gens = vol.gens /\ into' = into
    BY <1>7, <2>2, <2>3
  <2>4. ASSUME NEW g \in Gens,
               vol'.gens[g].status \in {"generating", "complete"},
               vol'.gens[g].chunks = vol.gens[g].chunks \cup {c},
               \A h \in Gens : h # g => vol'.gens[h] = vol.gens[h],
               into' = into \cup {<<c, g>>}
        PROVE  Traced' /\ into \subseteq into'
    <3>1. Sound(vol'.gens[g], g, into')
      BY <1>4, <2>4 DEF Sound
    <3>2. \A h \in Gens : h # g => Sound(vol'.gens[h], h, into')
      BY <1>4, <2>4 DEF Sound
    <3>3. \A h \in Gens : Sound(here'.gens[h], h, into')
      BY <1>4, <2>2, <2>4 DEF Sound
    <3>4. QED
      BY <1>5, <2>4, <3>1, <3>2, <3>3
  <2>5. QED
    BY <2>1, <2>3, <2>4
<1>12. CASE EvictAtHome
  <2>1. here' = here /\ into' = into
    BY <1>12 DEF EvictAtHome, history
  <2>2. QED
    BY <1>7, <1>12, <2>1, EvictDoes
<1>13. CASE CopyGeneration \/ Trim \/ SweepGenerations
  <2>1. into' = into
    BY <1>13 DEF CopyGeneration, Trim, SweepGenerations, history
  <2>2. QED
    BY <1>7, <1>13, <2>1, CopyDoes, TrimDoes, SweepDoes
<1>14. CASE SeedVolume
  <2>1. here' = here /\ into' = into
    BY <1>14 DEF SeedVolume, history
  <2>2. QED
    BY <1>7, <1>14, <2>1, SeedDoes
<1>15. CASE RemoveVolume \/ RemoveMissing \/ LoseHome
  <2>1. here' = here /\ into' = into /\ vol' = EmptyVolume
    BY <1>15 DEF RemoveVolume, RemoveMissing, LoseHome, history
  <2>2. QED
    BY <1>3, <1>7, <2>1
<1>16. QED
  BY <1>8, <1>9, <1>10, <1>11, <1>12, <1>13, <1>14, <1>15 DEF Moving

\* What is not wanted now was not wanted before, or the cursor has moved on.
LEMMA WantedBack ==
  ASSUME here.cursor \in Nat, here'.cursor \in Nat, here.cursor <= here'.cursor,
         NEW g \in Gens, Wanted(g)'
  PROVE  Wanted(g)
<1>1. g \in Nat /\ Window \in Nat /\ (Window = 0 \/ g >= here'.cursor - Window)
  BY Constants DEF Wanted
<1>2. QED
  BY <1>1 DEF Wanted

\* The home follows what is here, through every step.
LEMMA FollowedStep ==
  ASSUME TypeOK, StagesKnown, TrainerKnows, vol.cursor <= vol.model,
         vol.seed.cursor <= vol.seed.model, AckedIsHere, Traced, Followed,
         here'.cursor \in Nat, here.cursor <= here'.cursor, vol'.cursor \in Nat, [Next]_vars
  PROVE  Followed'
<1>1. here \in Tree /\ vol \in Volume /\ here.cursor \in Nat /\ vol.cursor \in Nat
  BY Sorts, Constants DEF Tree, Volume
<1>2. NoGen.status = "none" /\ NoGen.chunks = {} /\ \A g \in Gens : EmptyVolume.gens[g] = NoGen
  BY DEF NoGen, EmptyVolume
<1> DEFINE Ahead(there, own) ==
             /\ there.status # "none"
             /\ own.chunks \subseteq there.chunks
             /\ own.status = "complete" => there.status = "complete"
           Gone(g, cursor) == Window # 0 /\ g < cursor - Window
<1>3. box.state # "none" =>
        \A g \in Gens : here.gens[g].status # "none" /\ Wanted(g) =>
          \/ Ahead(vol.gens[g], here.gens[g])
          \/ vol.gens[g].status = "none" /\ Gone(g, vol.cursor)
  BY DEF Followed
<1>4. ASSUME box'.state = "none" => vol' = EmptyVolume,
             box'.state # "none" =>
               \A g \in Gens : here'.gens[g].status # "none" /\ Wanted(g)' =>
                 \/ Ahead(vol'.gens[g], here'.gens[g])
                 \/ vol'.gens[g].status = "none" /\ Gone(g, vol'.cursor)
      PROVE  Followed'
  BY <1>4 DEF Followed
<1>5. \A g \in Gens : Gone(g, vol.cursor) /\ vol.cursor <= vol'.cursor => Gone(g, vol'.cursor)
  <2> SUFFICES ASSUME NEW g \in Gens, NEW n \in Nat, NEW m \in Nat, n <= m, Gone(g, n)
               PROVE  Gone(g, m)
    BY <1>1
  <2>1. g \in Nat /\ Window \in Nat
    BY Constants
  <2>2. QED
    BY <2>1
<1>6. \A gen : Ahead(gen, gen) <=> gen.status # "none"
  OBVIOUS
<1>7. \A g \in Gens : Wanted(g)' => Wanted(g)
  BY <1>1, WantedBack
<1>8. ASSUME NEW g \in Gens, Gone(g, vol.cursor), vol.cursor <= g PROVE FALSE
  BY <1>1, <1>8, Constants
<1>9. \A g \in Gens : Wanted(g) /\ Window # 0 => ~(g < here.cursor - Window)
  BY <1>1, Constants DEF Wanted
<1>10. \A g \in Gens : here.gens[g].status = "none" => here.gens[g].chunks = {}
  BY DEF Traced
<1>11. \A there, own, more :
         /\ there.status = "generating" /\ Ahead(there, own)
         /\ more.status \in {"generating", "complete"} /\ there.chunks \subseteq more.chunks
         => Ahead(more, own)
  OBVIOUS
<1> HIDE DEF Ahead, Gone
<1>12. ASSUME box.state # "none", vol.cursor <= vol'.cursor,
              \A g \in Gens : here'.gens[g].status # "none" /\ Wanted(g) =>
                \/ Ahead(vol'.gens[g], here'.gens[g])
                \/ vol'.gens[g].status = "none" /\ Gone(g, vol.cursor)
                \/ here'.gens[g] = here.gens[g] /\ vol'.gens[g] = vol.gens[g],
              box'.state # "none"
       PROVE  Followed'
  BY <1>3, <1>4, <1>5, <1>7, <1>12
<1>13. ASSUME here'.gens = here.gens, vol'.gens = vol.gens, vol.cursor <= vol'.cursor,
              box'.state = "none" <=> box.state = "none",
              box.state = "none" => vol' = vol
       PROVE  Followed'
  <2>1. CASE box.state = "none"
    BY <1>4, <1>13, <2>1 DEF Followed
  <2>2. CASE box.state # "none"
    BY <1>12, <1>13, <2>2
  <2>3. QED
    BY <2>1, <2>2
<1>14. CASE ~Moving
  BY <1>13, <1>14, QuietSteps DEF Quiet
<1>15. CASE Deliver \/ Unlink \/ SweepRest
  <2>1. here'.gens = here.gens /\ vol' = vol /\ box' = box
    BY <1>1, <1>15 DEF Deliver, Unlink, SweepRest, Tree
  <2>2. QED
    BY <1>1, <1>13, <2>1
<1>16. CASE Relay
  <2>1. /\ here' = here /\ box' = box
        /\ vol'.gens = vol.gens /\ vol'.cursor = vol.cursor
        /\ box.state # "running" => vol' = vol
    BY <1>1, <1>16 DEF Relay, Volume
  <2>2. QED
    BY <1>1, <1>13, <2>1
<1>17. CASE Open
  <2>1. here' = here /\ box' = box /\ box.state # "none"
    BY <1>17 DEF Open, Working
  <2>2. /\ NextIndex \in Gens /\ vol.gens[NextIndex].status = "none"
        /\ vol.cursor <= NextIndex /\ vol'.cursor = vol.cursor
        /\ \A g \in Gens : g # NextIndex => vol'.gens[g] = vol.gens[g]
    BY <1>17, OpenDoes
  <2>3. ~(here.gens[NextIndex].status # "none" /\ Wanted(NextIndex))
    <3>1. ~Ahead(vol.gens[NextIndex], here.gens[NextIndex])
      BY <2>2 DEF Ahead
    <3>2. QED
      BY <1>3, <1>8, <2>1, <2>2, <3>1
  <2>4. QED
    BY <1>1, <1>12, <2>1, <2>2, <2>3
<1>18. CASE Assign
  <2>1. here' = here /\ box' = box /\ box.state # "none"
    BY <1>18 DEF Assign, Working
  <2>2. PICK c \in vol.staging :
          /\ vol'.cursor = vol.cursor
          /\ \/ vol'.gens = vol.gens
             \/ \E g \in Gens :
                  /\ vol.gens[g].status = "generating"
                  /\ vol'.gens[g].status \in {"generating", "complete"}
                  /\ vol'.gens[g].chunks = vol.gens[g].chunks \cup {c}
                  /\ \A h \in Gens : h # g => vol'.gens[h] = vol.gens[h]
    BY <1>18, AssignDoes
  <2>3. CASE vol'.gens = vol.gens
    BY <1>1, <1>13, <2>1, <2>2, <2>3
  <2>4. ASSUME NEW g \in Gens,
               vol.gens[g].status = "generating",
               vol'.gens[g].status \in {"generating", "complete"},
               vol'.gens[g].chunks = vol.gens[g].chunks \cup {c},
               \A h \in Gens : h # g => vol'.gens[h] = vol.gens[h]
        PROVE  Followed'
    <3>1. here.gens[g].status # "none" /\ Wanted(g) => Ahead(vol.gens[g], here.gens[g])
      BY <1>3, <2>1, <2>4
    <3>2. Ahead(vol.gens[g], here.gens[g]) => Ahead(vol'.gens[g], here.gens[g])
      BY <1>11, <2>4
    <3>3. QED
      BY <1>1, <1>12, <2>1, <2>2, <2>4, <3>1, <3>2
  <2>5. QED
    BY <2>2, <2>3, <2>4
<1>19. CASE EvictAtHome
  <2>1. here' = here /\ box' = box /\ box.state # "none"
    BY <1>19 DEF EvictAtHome
  <2>2. /\ vol'.cursor = vol.cursor
        /\ \A g \in Gens : vol'.gens[g] = IF g \in EvictedAtHome THEN NoGen ELSE vol.gens[g]
        /\ \A g \in EvictedAtHome : Gone(g, vol.cursor)
    BY <1>19, EvictDoes DEF Gone
  <2>3. QED
    BY <1>1, <1>2, <1>12, <2>1, <2>2
<1>20. CASE CopyGeneration
  <2>1. CASE box.state = "running"
    <3>1. /\ vol' = vol /\ box' = box
          /\ \A g \in Gens : here'.gens[g] = here.gens[g] \/ here'.gens[g] = vol.gens[g]
      BY <1>20, CopyDoes DEF CopyGeneration
    <3>2. QED
      BY <1>1, <1>6, <1>12, <2>1, <3>1
  <2>2. QED
    BY <1>20, <2>1 DEF CopyGeneration
<1>21. CASE Trim
  <2>1. /\ vol' = vol /\ box' = box
        /\ \A g \in Gens : here'.gens[g] = here.gens[g] \/ here'.gens[g] = NoGen
    BY <1>21, TrimDoes DEF Trim
  <2>2. CASE box.state = "none"
    BY <1>4, <2>1, <2>2 DEF Followed
  <2>3. CASE box.state # "none"
    BY <1>1, <1>2, <1>12, <2>1, <2>3
  <2>4. QED
    BY <2>2, <2>3
<1>22. CASE SeedVolume
  <2>1. here' = here /\ box'.state = "missing"
    BY <1>22 DEF SeedVolume
  <2>2. /\ vol'.cursor = vol.cursor
        /\ \A g \in Gens :
             \/ vol'.gens[g] = vol.gens[g]
                /\ (vol.gens[g].status = "none" /\ here.gens[g].status # "none" => ~Wanted(g))
             \/ vol'.gens[g] = here.gens[g] /\ vol.gens[g].status = "none"
    BY <1>22, SeedDoes
  <2>3. CASE box.state = "none"
    <3>1. \A g \in Gens : vol.gens[g].status = "none"
      BY <1>2, <2>3 DEF Followed
    <3>2. \A g \in Gens : here'.gens[g].status # "none" /\ Wanted(g) =>
            Ahead(vol'.gens[g], here'.gens[g])
      BY <1>6, <2>1, <2>2, <3>1
    <3>3. QED
      BY <1>4, <1>7, <2>1, <3>2
  <2>4. CASE box.state # "none"
    BY <1>1, <1>6, <1>12, <2>1, <2>2, <2>4
  <2>5. QED
    BY <2>3, <2>4
<1>23. CASE SweepGenerations
  <2>1. box.state # "none" /\ box' = box
    BY <1>23 DEF SweepGenerations, StagesKnown
  <2>2. /\ vol' = vol
        /\ \A g \in Gens : here'.gens[g] = IF vol.gens[g].status = "none"
                                           THEN here.gens[g] ELSE vol.gens[g]
    BY <1>23, SweepDoes
  <2>3. QED
    BY <1>1, <1>6, <1>12, <2>1, <2>2
<1>24. CASE RemoveVolume \/ RemoveMissing \/ LoseHome
  BY <1>4, <1>24 DEF RemoveVolume, RemoveMissing, LoseHome
<1>25. QED
  BY <1>14, <1>15, <1>16, <1>17, <1>18, <1>19, <1>20, <1>21, <1>22, <1>23, <1>24 DEF Moving

\* What a copy or a sweep overwrites here, it brings back, or it is past.
LEMMA Overwritten ==
  ASSUME TypeOK, Traced, Followed, box.state # "none",
         NEW g \in Gens, vol.gens[g].status # "none", NEW c \in here.gens[g].chunks
  PROVE  c \in vol.gens[g].chunks \/ Past(c)
<1>1. <<c, g>> \in into /\ here.gens[g].status # "none"
  BY DEF Traced
<1>2. CASE Wanted(g)
  BY <1>1, <1>2 DEF Followed
<1>3. CASE ~Wanted(g)
  <2>1. here.cursor \in Nat
    BY Sorts, Constants DEF Tree
  <2>2. Window # 0 /\ g < here.cursor - Window
    BY <1>3, <2>1, Constants DEF Wanted
  <2>3. QED
    BY <1>1, <2>1, <2>2, BehindWindow DEF Past
<1>4. QED
  BY <1>2, <1>3

\* What is kept here stays kept here, whatever the step.
LEMMA KeptHereStays ==
  ASSUME TypeOK, StagesKnown, TrainerKnows, vol.cursor <= vol.model,
         vol.seed.cursor <= vol.seed.model, Traced, Followed,
         here'.cursor \in Nat, here.cursor <= here'.cursor, [Next]_vars,
         NEW c, KeptHere(c)
  PROVE  KeptHere(c)'
<1>1. /\ here \in Tree /\ vol \in Volume /\ here.cursor \in Nat
      /\ into \subseteq into'
  BY Sorts, TracedStep, Constants DEF Tree
<1>2. Past(c) => Past(c)'
  BY <1>1, PastStays
<1>3. CASE Past(c)
  BY <1>2, <1>3 DEF KeptHere
<1>4. ASSUME NEW g \in Gens, c \in here.gens[g].chunks
      PROVE  KeptHere(c)'
  <2>1. ASSUME c \in here'.gens[g].chunks PROVE KeptHere(c)'
    <3>1. c \in Filed(here')
      BY <2>1, FiledIn
    <3>2. QED
      BY <3>1 DEF KeptHere
  <2>2. CASE here'.gens = here.gens
    BY <1>4, <2>1, <2>2
  <2>3. CASE ~Moving
    BY <2>2, <2>3, QuietSteps DEF Quiet
  <2>4. CASE Deliver \/ Unlink \/ SweepRest
    BY <1>1, <2>2, <2>4 DEF Deliver, Unlink, SweepRest, Tree
  <2>5. CASE Open \/ Assign \/ EvictAtHome \/ Relay \/ SeedVolume \/ RemoveVolume
             \/ RemoveMissing \/ LoseHome
    BY <2>2, <2>5 DEF Open, Assign, EvictAtHome, Relay, SeedVolume, RemoveVolume,
                      RemoveMissing, LoseHome
  <2>6. CASE CopyGeneration
    <3>1. \/ here'.gens[g] = here.gens[g]
          \/ here'.gens[g] = vol.gens[g] /\ vol.gens[g].status = "complete"
      BY <2>6, CopyDoes
    <3>2. CASE box.state = "running"
      <4>1. vol.gens[g].status = "complete" => c \in vol.gens[g].chunks \/ Past(c)
        BY <1>4, <3>2, Overwritten
      <4>2. QED
        BY <1>2, <1>4, <2>1, <3>1, <4>1 DEF KeptHere
    <3>3. CASE box.state # "running"
      BY <2>6, <3>3 DEF CopyGeneration
    <3>4. QED
      BY <3>2, <3>3
  <2>7. CASE Trim
    <3>1. \/ here'.gens[g] = here.gens[g]
          \/ Window # 0 /\ g < here.cursor - Window
      BY <2>7, TrimDoes
    <3>2. Window # 0 /\ g < here.cursor - Window => Past(c)
      BY <1>1, <1>4, BehindWindow DEF Past, Traced
    <3>3. QED
      BY <1>2, <1>4, <2>1, <3>1, <3>2 DEF KeptHere
  <2>8. CASE SweepGenerations
    <3>1. here'.gens[g] = IF vol.gens[g].status = "none" THEN here.gens[g] ELSE vol.gens[g]
      BY <2>8, SweepDoes
    <3>2. box.state # "none"
      BY <2>8 DEF SweepGenerations, StagesKnown
    <3>3. vol.gens[g].status # "none" => c \in vol.gens[g].chunks \/ Past(c)
      BY <1>4, <3>2, Overwritten
    <3>4. QED
      BY <1>2, <1>4, <2>1, <3>1, <3>3 DEF KeptHere
  <2>9. QED
    BY <2>3, <2>4, <2>5, <2>6, <2>7, <2>8 DEF Moving
<1>5. QED
  BY <1>3, <1>4, FiledIn DEF KeptHere

\* What is kept somewhere stays kept, but for a volume lost.
LEMMA KeptStays ==
  ASSUME TypeOK, StagesKnown, TrainerKnows, vol.cursor <= vol.model,
         vol.seed.cursor <= vol.seed.model, AckedIsHere, Traced, Followed, SweptSoFar,
         here'.cursor \in Nat, here.cursor <= here'.cursor, [Next]_vars,
         ~(RemoveMissing \/ LoseHome), NEW c, Kept(c)
  PROVE  Kept(c)'
<1>1. /\ here \in Tree /\ vol \in Volume /\ here.cursor \in Nat
  BY Sorts, Constants DEF Tree
<1>2. KeptHere(c) => Kept(c)'
  BY KeptHereStays DEF Kept
<1>3. ASSUME NEW g \in Gens, c \in vol.gens[g].chunks
      PROVE  Kept(c)'
  <2>1. ASSUME c \in vol'.gens[g].chunks PROVE Kept(c)'
    <3>1. c \in Filed(vol')
      BY <2>1, FiledIn
    <3>2. QED
      BY <3>1 DEF Kept
  <2>2. CASE vol'.gens = vol.gens
    BY <1>3, <2>1, <2>2
  <2>3. CASE ~Moving
    BY <2>2, <2>3, QuietSteps DEF Quiet
  <2>4. CASE Relay
    BY <1>1, <2>2, <2>4 DEF Relay, Volume
  <2>5. CASE Deliver \/ Unlink \/ SweepRest \/ CopyGeneration \/ Trim \/ SweepGenerations
    BY <2>2, <2>5 DEF Deliver, Unlink, SweepRest, CopyGeneration, Trim, SweepGenerations
  <2>6. CASE Open
    BY <1>3, <2>1, <2>6, OpenDoes
  <2>7. CASE Assign
    <3>1. vol.gens[g].chunks \subseteq vol'.gens[g].chunks
      <4>1. PICK d \in vol.staging :
              \/ vol'.gens = vol.gens
              \/ \E h \in Gens :
                   /\ vol'.gens[h].chunks = vol.gens[h].chunks \cup {d}
                   /\ \A i \in Gens : i # h => vol'.gens[i] = vol.gens[i]
        BY <2>7, AssignDoes
      <4>2. QED
        BY <4>1
    <3>2. QED
      BY <1>3, <2>1, <3>1
  <2>8. CASE EvictAtHome
    <3>1. /\ vol'.gens[g] = IF g \in EvictedAtHome THEN NoGen ELSE vol.gens[g]
          /\ g \in EvictedAtHome => g \in vol.acked
      BY <2>8, EvictDoes
    <3>2. CASE g \notin EvictedAtHome
      BY <1>3, <2>1, <3>1, <3>2
    <3>3. CASE g \in EvictedAtHome
      <4>1. CASE Window = 0 \/ g >= here.cursor - Window
        <5>1. c \in here.gens[g].chunks
          BY <1>3, <3>1, <3>3, <4>1 DEF AckedIsHere
        <5>2. c \in Filed(here)
          BY <5>1, FiledIn
        <5>3. QED
          BY <1>2, <5>2 DEF KeptHere
      <4>2. CASE ~(Window = 0 \/ g >= here.cursor - Window)
        <5>1. Window # 0 /\ g < here.cursor - Window
          BY <1>1, <4>2, Constants
        <5>2. Past(c)
          BY <1>1, <1>3, <5>1, BehindWindow DEF Past, Traced
        <5>3. QED
          BY <1>2, <5>2 DEF KeptHere
      <4>3. QED
        BY <4>1, <4>2
    <3>4. QED
      BY <3>2, <3>3
  <2>9. CASE SeedVolume
    <3>1. vol'.gens[g] = vol.gens[g] \/ vol.gens[g].status = "none"
      BY <2>9, SeedDoes
    <3>2. vol.gens[g].status # "none"
      BY <1>3 DEF Traced
    <3>3. QED
      BY <1>3, <2>1, <3>1, <3>2
  <2>10. CASE RemoveVolume
    <3>1. c \in Filed(vol) /\ op = "volume"
      BY <1>3, <2>10, FiledIn DEF RemoveVolume
    <3>2. QED
      BY <1>2, <3>1 DEF SweptSoFar
  <2>11. QED
    BY <2>3, <2>4, <2>5, <2>6, <2>7, <2>8, <2>9, <2>10 DEF Moving
<1>4. QED
  BY <1>2, <1>3, FiledIn DEF Kept

\* An unswept volume that goes takes what is not here, and that is noted.
LEMMA LossDoes ==
  ASSUME here \in Tree, RemoveMissing \/ LoseHome
  PROVE  /\ here' = here /\ vol' = EmptyVolume /\ sent' = sent /\ into' = into
         /\ box'.state = "none" /\ op' = "idle"
         /\ transfer'.at = "unlink" => transfer' = transfer
         /\ lost \subseteq lost'
         /\ \A c : c \in Filed(vol) \cup vol.staging /\ c \notin lost' =>
              c \in Filed(here) \/ (c \in here.staging /\ c \notin transfer.chunks)
         /\ unswept' = unswept \cup (Complete(vol) \ Complete(here))
<1>1. Severed.at = "unlink" => Severed = transfer
  BY DEF Severed, Resting
<1>2. Loses
  BY DEF RemoveMissing, LoseHome
<1>3. lost' = lost \cup (ChunksIn(vol) \ ChunksIn([here EXCEPT !.staging = @ \ transfer.chunks]))
  BY <1>2 DEF Loses
<1>4. QED
  BY <1>1, <1>2, <1>3 DEF RemoveMissing, LoseHome, Loses, Free, ChunksIn, Filed

\* A sweep's stages bring what they say, and nothing undoes it before the volume
\* goes: the container has stopped, and no transfer is under way.
LEMMA SweptStep ==
  ASSUME ~Overlap, TypeOK, StagesKnown, TrainerKnows, vol.cursor <= vol.model,
         vol.seed.cursor <= vol.seed.model, Traced, Followed, SweptSoFar,
         here'.cursor \in Nat, here.cursor <= here'.cursor, [Next]_vars
  PROVE  SweptSoFar'
<1>1. here \in Tree /\ vol \in Volume /\ here.cursor \in Nat /\ transfer \in Thread
  BY Sorts, Constants DEF Tree
<1>2. \A c : KeptHere(c) => KeptHere(c)'
  BY KeptHereStays
<1>3. \A g \in Gens : Wanted(g)' => Wanted(g)
  BY <1>1, WantedBack
<1>4. \A g \in Gens : g \in Complete(here) <=> here.gens[g].status = "complete"
  BY DEF Complete
<1>5. \A g \in Gens : g \in Complete(here)' <=> here'.gens[g].status = "complete"
  BY DEF Complete
<1>6. Complete(vol) \subseteq Gens /\ Complete(here) \subseteq Gens
  BY DEF Complete
\* A step that leaves the volume's generations, and what is wanted of those here.
<1>7. ASSUME op' \in {"rest", "container", "volume"} => op \in {"rest", "container", "volume"},
             vol'.gens = vol.gens,
             \A g \in Gens : here'.gens[g] = here.gens[g] \/ ~Wanted(g),
             op' \in {"container", "volume"} =>
               vol'.staging \subseteq here'.staging /\ transfer'.at # "unlink"
      PROVE  SweptSoFar'
  <2>1. Filed(vol)' = Filed(vol) /\ Complete(vol)' = Complete(vol)
    BY <1>7 DEF Filed, Complete
  <2>2. ASSUME op' \in {"rest", "container", "volume"}
        PROVE  /\ \A c \in Filed(vol)' : KeptHere(c)'
               /\ \A g \in Complete(vol)' : Wanted(g)' => g \in Complete(here)'
    BY <1>2, <1>3, <1>4, <1>5, <1>6, <1>7, <2>1, <2>2 DEF SweptSoFar
  <2>3. QED
    BY <1>7, <2>2 DEF SweptSoFar
<1>8. ASSUME op' \notin {"rest", "container", "volume"} PROVE SweptSoFar'
  BY <1>8 DEF SweptSoFar
<1>9. CASE ~Moving
  BY <1>7, <1>9, QuietSteps DEF Quiet, SweptSoFar
<1>10. CASE Deliver
  <2>1. /\ vol' = vol /\ op' = op /\ transfer' = transfer
        /\ here'.gens = here.gens /\ here.staging \subseteq here'.staging
    BY <1>1, <1>10 DEF Deliver, Tree
  <2>2. QED
    BY <1>7, <2>1 DEF SweptSoFar
<1>11. CASE Open \/ Assign \/ EvictAtHome
  BY <1>8, <1>11 DEF Open, Assign, EvictAtHome, Working, StagesKnown
<1>12. CASE Relay
  <2>1. CASE here.staging = {}
    <3>1. here' = here /\ vol' = vol /\ op' = op /\ transfer'.at # "unlink"
      BY <1>12, <2>1 DEF Relay, Goes, Resting
    <3>2. QED
      BY <1>7, <3>1 DEF SweptSoFar
  <2>2. CASE here.staging # {}
    BY <1>8, <1>12, <2>2 DEF Relay, StagesKnown
  <2>3. QED
    BY <2>1, <2>2
<1>13. CASE Unlink
  <2>1. /\ vol' = vol /\ op' = op /\ transfer.at = "unlink" /\ here'.gens = here.gens
    BY <1>1, <1>13 DEF Unlink, Tree
  <2>2. QED
    BY <1>7, <2>1 DEF SweptSoFar
<1>14. CASE CopyGeneration
  <2>1. CASE box.state = "running"
    BY <1>8, <1>14, <2>1 DEF CopyGeneration, StagesKnown
  <2>2. CASE box.state # "running"
    BY <1>14, <2>2 DEF CopyGeneration
  <2>3. QED
    BY <2>1, <2>2
<1>15. CASE Trim
  <2>1. /\ vol' = vol /\ op' = op /\ here'.staging = here.staging /\ transfer'.at # "unlink"
        /\ \A g \in Gens : \/ here'.gens[g] = here.gens[g]
                           \/ Window # 0 /\ g < here.cursor - Window
    BY <1>15, TrimDoes DEF Trim
  <2>2. \A g \in Gens : Window # 0 /\ g < here.cursor - Window => ~Wanted(g)
    BY <1>1, Constants DEF Wanted
  <2>3. QED
    BY <1>7, <2>1, <2>2 DEF SweptSoFar
<1>16. CASE SeedVolume \/ RemoveVolume \/ LoseHome \/ RemoveMissing
  BY <1>8, <1>16 DEF SeedVolume, RemoveVolume, LoseHome, RemoveMissing, Free
<1>17. CASE SweepGenerations
  <2>1. /\ vol' = vol /\ op' = "rest"
        /\ \A g \in Gens : here'.gens[g] = IF vol.gens[g].status = "none"
                                           THEN here.gens[g] ELSE vol.gens[g]
    BY <1>17, SweepDoes DEF SweepGenerations
  <2>2. ASSUME NEW c \in Filed(vol) PROVE KeptHere(c)'
    <3>1. PICK g \in Gens : c \in vol.gens[g].chunks
      BY <2>2, FiledIn
    <3>2. c \in here'.gens[g].chunks
      BY <2>1, <3>1 DEF Traced
    <3>3. c \in Filed(here')
      BY <3>2, FiledIn
    <3>4. QED
      BY <3>3 DEF KeptHere
  <2>3. \A g \in Complete(vol) : g \in Complete(here)'
    BY <2>1 DEF Complete
  <2>4. QED
    BY <2>1, <2>2, <2>3 DEF SweptSoFar
<1>18. CASE SweepRest
  <2>1. /\ vol' = vol /\ op = "rest" /\ op' = "container" /\ transfer' = transfer
        /\ here'.gens = here.gens /\ here'.staging = here.staging \cup vol.staging
        /\ transfer.at # "unlink"
    BY <1>1, <1>18 DEF SweepRest, MayTouch, Tree
  <2>2. QED
    BY <1>7, <2>1
<1>19. QED
  BY <1>9, <1>10, <1>11, <1>12, <1>13, <1>14, <1>15, <1>16, <1>17, <1>18 DEF Moving

\* ChunkKept, in these terms.
LEMMA ChunkKeptForm ==
  ChunkKept <=> \A c \in sent \ lost : c \in here.staging \cup vol.staging \/ Kept(c)
BY DEF ChunkKept, ChunksIn, Kept, KeptHere, Past, Filed

\* The same after a step.
LEMMA ChunkKeptNext ==
  ChunkKept' <=> \A c \in sent' \ lost' : c \in here'.staging \cup vol'.staging \/ Kept(c)'
BY DEF ChunkKept, ChunksIn, Kept, KeptHere, Past, Filed

\* No chunk delivered goes missing, whatever the step.
LEMMA ChunksStep ==
  ASSUME TypeOK, StagesKnown, TrainerKnows, vol.cursor <= vol.model,
         vol.seed.cursor <= vol.seed.model, AckedIsHere, Traced, Followed, SweptSoFar,
         LedgerKept, RelayedKept, ChunkKept,
         here'.cursor \in Nat, here.cursor <= here'.cursor, [Next]_vars
  PROVE  LedgerKept' /\ RelayedKept' /\ ChunkKept'
<1>1. here \in Tree /\ vol \in Volume /\ here.cursor \in Nat /\ transfer \in Thread
  BY Sorts, Constants DEF Tree
<1>2. \A c : KeptHere(c) => KeptHere(c)'
  BY KeptHereStays
<1>3. \A c : KeptHere(c)' => Kept(c)'
  BY DEF Kept
<1>4. /\ \A c \in here.ledger \ lost : KeptHere(c)
      /\ \A c \in vol.ledger \ lost : Kept(c)
      /\ transfer.at = "unlink" => \A c \in transfer.chunks \ lost : c \in vol.staging \/ Kept(c)
      /\ \A c \in sent \ lost : c \in here.staging \cup vol.staging \/ Kept(c)
  BY ChunkKeptForm DEF LedgerKept, RelayedKept
<1>5. ASSUME \A c \in here'.ledger \ lost' : KeptHere(c)',
             \A c \in vol'.ledger \ lost' : Kept(c)',
             transfer'.at = "unlink" =>
               \A c \in transfer'.chunks \ lost' : c \in vol'.staging \/ Kept(c)',
             \A c \in sent' \ lost' : c \in here'.staging \cup vol'.staging \/ Kept(c)'
      PROVE  LedgerKept' /\ RelayedKept' /\ ChunkKept'
  BY <1>5, ChunkKeptNext DEF LedgerKept, RelayedKept
<1>6. CASE RemoveMissing \/ LoseHome
  <2>1. /\ here' = here /\ vol' = EmptyVolume /\ sent' = sent /\ lost \subseteq lost'
        /\ transfer'.at = "unlink" => transfer' = transfer
        /\ \A c : c \in Filed(vol) \cup vol.staging /\ c \notin lost' =>
             c \in Filed(here) \/ (c \in here.staging /\ c \notin transfer.chunks)
    BY <1>1, <1>6, LossDoes
  <2>2. vol'.ledger = {}
    BY <2>1 DEF EmptyVolume
  <2>3. \A c : c \in Filed(vol) \cup vol.staging /\ c \notin lost' =>
          KeptHere(c) \/ (c \in here.staging /\ c \notin transfer.chunks)
    BY <2>1 DEF KeptHere
  <2>4. \A c : Kept(c) => c \in Filed(vol) \/ KeptHere(c)
    BY DEF Kept
  <2>5. \A c \in here'.ledger \ lost' : KeptHere(c)'
    BY <1>2, <1>4, <2>1
  <2>6. transfer'.at = "unlink" => \A c \in transfer'.chunks \ lost' : Kept(c)'
    BY <1>2, <1>3, <1>4, <2>1, <2>3, <2>4
  <2>7. \A c \in sent' \ lost' : c \in here'.staging \/ Kept(c)'
    BY <1>2, <1>3, <1>4, <2>1, <2>3, <2>4
  <2>8. QED
    BY <1>5, <2>2, <2>5, <2>6, <2>7
<1>7. CASE ~(RemoveMissing \/ LoseHome)
  <2>1. \A c : Kept(c) => Kept(c)'
    BY <1>7, KeptStays
  <2>2. ASSUME lost' = lost, sent' = sent, here'.ledger = here.ledger,
               \A c \in vol'.ledger \ lost : c \in vol.ledger \/ c \in here.ledger \/ Kept(c)',
               transfer'.at = "unlink" =>
                 \A c \in transfer'.chunks \ lost :
                   \/ c \in vol'.staging \/ Kept(c)'
                   \/ transfer.at = "unlink" /\ c \in transfer.chunks /\ c \notin vol.staging,
               \A c \in (here.staging \cup vol.staging) \ lost :
                 c \in here'.staging \cup vol'.staging \/ Kept(c)'
        PROVE  LedgerKept' /\ RelayedKept' /\ ChunkKept'
    BY <1>2, <1>3, <1>4, <1>5, <2>1, <2>2
  <2>3. CASE ~Moving
    <3>1. /\ lost' = lost /\ sent' = sent /\ here'.ledger = here.ledger
          /\ here'.staging = here.staging /\ vol'.staging = vol.staging
          /\ vol'.ledger = vol.ledger
          /\ transfer'.at = "unlink" =>
               transfer.at = "unlink" /\ transfer'.chunks = transfer.chunks
      BY <2>3, QuietSteps DEF Quiet
    <3>2. QED
      BY <1>4, <2>1, <2>2, <3>1
  <2>4. CASE Deliver
    <3>1. PICK c : /\ sent' = sent \cup {c}
                   /\ here' = [here EXCEPT !.staging = @ \cup {c}]
      BY <2>4 DEF Deliver
    <3>2. /\ here'.staging = here.staging \cup {c} /\ here'.ledger = here.ledger
          /\ vol' = vol /\ transfer' = transfer /\ lost' = lost
      BY <1>1, <2>4, <3>1 DEF Deliver, Tree, history
    <3>3. QED
      BY <1>2, <1>4, <1>5, <2>1, <3>1, <3>2
  <2>5. CASE Open
    <3>1. vol'.staging = vol.staging /\ vol'.ledger = vol.ledger
      BY <2>5, OpenDoes
    <3>2. here' = here /\ transfer' = transfer /\ lost' = lost /\ sent' = sent
      BY <2>5 DEF Open, history
    <3>3. QED
      BY <1>4, <2>1, <2>2, <3>1, <3>2
  <2>6. CASE Assign
    <3>1. here' = here /\ transfer' = transfer /\ lost' = lost /\ sent' = sent
      BY <2>6 DEF Assign
    <3>2. PICK c \in vol.staging :
            /\ vol'.staging = vol.staging \ {c}
            /\ \/ c \in vol.ledger /\ vol'.ledger = vol.ledger
               \/ /\ vol'.ledger = vol.ledger \cup {c}
                  /\ \E g \in Gens : vol'.gens[g].chunks = vol.gens[g].chunks \cup {c}
      BY <2>6, AssignDoes
    <3>3. c \notin lost => Kept(c)'
      <4>1. CASE c \in vol.ledger
        BY <1>4, <2>1, <4>1
      <4>2. CASE c \notin vol.ledger
        <5>1. c \in Filed(vol')
          BY <3>2, <4>2, FiledIn
        <5>2. QED
          BY <5>1 DEF Kept
      <4>3. QED
        BY <4>1, <4>2
    <3>4. QED
      BY <1>4, <2>1, <2>2, <3>1, <3>2, <3>3
  <2>7. CASE EvictAtHome
    <3>1. vol'.staging = vol.staging /\ vol'.ledger = vol.ledger
      BY <2>7, EvictDoes
    <3>2. here' = here /\ transfer' = transfer /\ lost' = lost /\ sent' = sent
      BY <2>7 DEF EvictAtHome, history
    <3>3. QED
      BY <1>4, <2>1, <2>2, <3>1, <3>2
  <2>8. CASE Relay
    <3>1. here' = here /\ lost' = lost /\ sent' = sent
      BY <2>8 DEF Relay, history
    <3>2. CASE here.staging = {}
      BY <1>4, <2>1, <2>2, <2>8, <3>1, <3>2 DEF Relay, Goes, Resting
    <3>3. CASE here.staging # {}
      <4>1. /\ vol'.staging = vol.staging \cup here.staging /\ vol'.ledger = vol.ledger
            /\ transfer'.chunks = here.staging
        BY <1>1, <2>8, <3>3 DEF Relay, Resting, Volume
      <4>2. QED
        BY <1>4, <2>1, <2>2, <3>1, <4>1
    <3>4. QED
      BY <3>2, <3>3
  <2>9. CASE Unlink
    <3>1. /\ vol' = vol /\ lost' = lost /\ sent' = sent /\ transfer.at = "unlink"
          /\ transfer'.at # "unlink"
          /\ here'.staging = here.staging \ transfer.chunks /\ here'.ledger = here.ledger
      BY <1>1, <2>9 DEF Unlink, Goes, Resting, Tree, history
    <3>2. QED
      BY <1>4, <2>1, <2>2, <3>1
  <2>10. CASE CopyGeneration \/ Trim
    <3>1. /\ vol' = vol /\ transfer'.at # "unlink"
          /\ here'.staging = here.staging /\ here'.ledger = here.ledger
      BY <2>10, CopyDoes, TrimDoes
    <3>2. lost' = lost /\ sent' = sent
      BY <2>10 DEF CopyGeneration, Trim, history
    <3>3. QED
      BY <1>4, <2>1, <2>2, <3>1, <3>2
  <2>11. CASE SeedVolume
    <3>1. vol'.staging = vol.staging /\ vol'.ledger = vol.ledger \cup here.ledger
      BY <2>11, SeedDoes
    <3>2. here' = here /\ transfer' = transfer /\ lost' = lost /\ sent' = sent
      BY <2>11 DEF SeedVolume, history
    <3>3. QED
      BY <1>4, <2>1, <2>2, <3>1, <3>2
  <2>12. CASE SweepGenerations
    <3>1. /\ vol' = vol /\ transfer' = transfer
          /\ here'.staging = here.staging /\ here'.ledger = here.ledger
      BY <2>12, SweepDoes
    <3>2. lost' = lost /\ sent' = sent
      BY <2>12 DEF SweepGenerations, history
    <3>3. QED
      BY <1>4, <2>1, <2>2, <3>1, <3>2
  <2>13. CASE SweepRest
    <3>1. /\ vol' = vol /\ transfer' = transfer /\ lost' = lost /\ sent' = sent /\ op = "rest"
          /\ here'.staging = here.staging \cup vol.staging
          /\ here'.ledger \in {here.ledger, vol.ledger}
      BY <1>1, <2>13 DEF SweepRest, Tree, history
    <3>2. \A c \in vol.ledger \ lost : KeptHere(c)
      BY <1>4, <3>1 DEF SweptSoFar, Kept
    <3>3. \A c \in here'.ledger \ lost' : KeptHere(c)'
      BY <1>2, <1>4, <3>1, <3>2
    <3>4. QED
      BY <1>4, <1>5, <2>1, <3>1, <3>3
  <2>14. CASE RemoveVolume
    <3>1. /\ here' = here /\ transfer' = transfer /\ lost' = lost /\ sent' = sent
          /\ vol'.ledger = {} /\ op = "volume"
      BY <2>14 DEF RemoveVolume, EmptyVolume, history
    <3>2. vol.staging \subseteq here.staging /\ transfer.at # "unlink"
      BY <3>1 DEF SweptSoFar
    <3>3. QED
      BY <1>4, <2>1, <2>2, <3>1, <3>2
  <2>15. QED
    BY <1>7, <2>3, <2>4, <2>5, <2>6, <2>7, <2>8, <2>9, <2>10, <2>11, <2>12, <2>13, <2>14
       DEF Moving
<1>8. QED
  BY <1>6, <1>7

-----------------------------------------------------------------------------
\* The window.

\* Installing leaves the checkpoint, or puts in one of the pairs.
LEMMA InstalledFrom ==
  ASSUME NEW tree \in Tree, NEW pairs \in SUBSET Rows
  PROVE  Install(tree, pairs).model \in {tree.model} \cup pairs
<1> DEFINE winners == {n \in pairs : Beats(tree, n)}
           top == Max(winners)
<1>1. CASE winners = {}
  BY <1>1 DEF Install
<1>2. CASE winners # {}
  <2>1. top \in pairs
    BY <1>2, RowsEnds
  <2>2. Install(tree, pairs) = [tree EXCEPT !.model = top, !.cursor = top]
    BY <1>2 DEF Install
  <2> HIDE DEF top
  <2>3. Install(tree, pairs).model = top
    BY <2>2 DEF Tree
  <2>4. QED
    BY <2>1, <2>3
<1>3. QED
  BY <1>1, <1>2

\* Only training makes a new pair; whatever else happens hands on those there are.
LEMMA PairsStep ==
  ASSUME TypeOK, PairKnown, TrainerKnows, [Next]_vars
  PROVE  /\ ~Train => PairsAbout' \subseteq PairsAbout \cup {0}
         /\ Train => PairsAbout' \subseteq PairsAbout \cup {trainer.index + 1}
<1>1. /\ here \in Tree /\ vol \in Volume /\ trainer \in Trainer /\ transfer \in Thread
  BY Sorts
<1>2. ASSUME NEW extra,
             here'.model \in PairsAbout \cup extra, vol'.model \in PairsAbout \cup extra,
             vol'.seed.model \in PairsAbout \cup extra,
             transfer'.pairs \subseteq PairsAbout \cup extra,
             vol'.out \subseteq PairsAbout \cup extra,
             trainer'.queue \subseteq PairsAbout \cup extra
      PROVE  PairsAbout' \subseteq PairsAbout \cup extra
  BY <1>2 DEF PairsAbout
<1>3. /\ here.model \in PairsAbout /\ vol.model \in PairsAbout /\ vol.seed.model \in PairsAbout
      /\ transfer.pairs \subseteq PairsAbout /\ vol.out \subseteq PairsAbout
      /\ trainer.queue \subseteq PairsAbout
  BY DEF PairsAbout
<1>4. /\ Resting.pairs = {} /\ Off.queue = {} /\ NoSeed.model = 0
      /\ Severed.pairs \subseteq transfer.pairs /\ Abandoned.pairs \subseteq transfer.pairs
  BY DEF Resting, Off, NoSeed, Severed, Abandoned
<1>5. EmptyVolume.model = 0 /\ EmptyVolume.seed.model = 0 /\ EmptyVolume.out = {}
  BY <1>4 DEF EmptyVolume
<1>6. /\ Drained.model = vol.model /\ Drained.seed = vol.seed
      /\ Drained.out \subseteq vol.out \cup trainer.queue
  BY <1>1 DEF Drained, Volume
<1>7. Flushed.model \in {here.model} \cup vol.out
  BY <1>1, InstalledFrom DEF Flushed, Volume
<1> HIDE DEF PairsAbout
<1>8. CASE Train
  <2>1. /\ here' = here /\ transfer' = transfer /\ trainer'.queue = trainer.queue
        /\ vol'.model = trainer.index + 1 /\ vol'.seed = vol.seed /\ vol'.out = vol.out
    BY <1>1, <1>8 DEF Train, Trainer, Volume
  <2>2. QED
    BY <1>2, <1>3, <1>8, <2>1
\* A step that takes each of the six from where pairs are.
<1>9. ASSUME here'.model \in PairsAbout \cup {0}, vol'.model \in PairsAbout \cup {0},
             vol'.seed.model \in PairsAbout \cup {0},
             transfer'.pairs \subseteq PairsAbout \cup {0},
             vol'.out \subseteq PairsAbout \cup {0},
             trainer'.queue \subseteq PairsAbout \cup {0}
      PROVE  PairsAbout' \subseteq PairsAbout \cup {0}
  BY <1>2, <1>9
<1> DEFINE Handed == PairsAbout' \subseteq PairsAbout \cup {0}
<1>10. ASSUME UNCHANGED vars PROVE Handed
  BY <1>3, <1>9, <1>10 DEF vars
<1>11. ASSUME TakeSeed PROVE Handed
  <2> DEFINE model == IF vol.seed # NoSeed /\ Beats(vol, vol.seed.cursor)
                      THEN vol.seed.model ELSE vol.model
  <2>1. model \in PairsAbout
    BY <1>3
  <2>2. /\ vol' = [vol EXCEPT !.model = model, !.cursor = model, !.seed = NoSeed]
        /\ trainer' = [Off EXCEPT !.at = "work", !.index = model]
        /\ here' = here /\ transfer' = transfer
    BY <1>11 DEF TakeSeed
  <2> HIDE DEF model
  <2>3. vol'.model = model /\ vol'.seed = NoSeed /\ vol'.out = vol.out /\ trainer'.queue = {}
    BY <1>1, <1>4, <2>2 DEF Volume, Off
  <2>4. QED
    BY <1>3, <1>4, <1>9, <2>1, <2>2, <2>3
<1>12. ASSUME Publish PROVE Handed
  <2>1. /\ here' = here /\ transfer' = transfer
        /\ trainer'.queue = trainer.queue \cup {vol.model}
        /\ vol'.model = vol.model /\ vol'.seed = vol.seed /\ vol'.out = vol.out
    BY <1>1, <1>12 DEF Publish, TrainerKnows, Trainer, Volume
  <2>2. QED
    BY <1>3, <1>9, <2>1
<1>13. ASSUME PushPair \/ DropOlder PROVE Handed
  <2>1. PushPair => Min(trainer.queue) \in trainer.queue
    BY <1>1, RowsEnds DEF PushPair, Trainer
  <2>2. /\ here' = here /\ transfer' = transfer
        /\ trainer'.queue \subseteq trainer.queue
        /\ vol'.model = vol.model /\ vol'.seed = vol.seed
    BY <1>1, <1>13 DEF PushPair, DropOlder, Trainer, Volume
  <2>3. vol'.out \subseteq vol.out \cup trainer.queue
    <3>1. CASE PushPair
      <4>1. vol'.out = vol.out \cup {Min(trainer.queue)}
        BY <1>1, <3>1 DEF PushPair, Volume
      <4>2. QED
        BY <2>1, <3>1, <4>1
    <3>2. CASE DropOlder
      BY <1>1, <3>2 DEF DropOlder, Volume
    <3>3. QED
      BY <1>13, <3>1, <3>2
  <2>4. QED
    BY <1>3, <1>9, <2>1, <2>2, <2>3
<1>14. ASSUME PullPairs \/ RemovePulled \/ InstallModel \/ InstallCursor PROVE Handed
  <2>1. trainer' = trainer
    BY <1>14 DEF PullPairs, RemovePulled, InstallModel, InstallCursor
  <2>2. InstallModel \/ InstallCursor => Min(transfer.pairs) \in transfer.pairs
    BY <1>1, RowsEnds DEF InstallModel, InstallCursor, PairKnown, Thread
  <2>3. here'.model \in {here.model} \cup transfer.pairs
    BY <1>1, <1>14, <2>2 DEF PullPairs, RemovePulled, InstallModel, InstallCursor, Tree
  <2>4. transfer'.pairs \subseteq transfer.pairs \cup vol.out
    BY <1>1, <1>14 DEF PullPairs, RemovePulled, InstallModel, InstallCursor, Resting, Thread
  <2>5. vol'.model = vol.model /\ vol'.seed = vol.seed /\ vol'.out \subseteq vol.out
    BY <1>1, <1>14 DEF PullPairs, RemovePulled, InstallModel, InstallCursor, Volume
  <2>6. QED
    BY <1>3, <1>9, <2>1, <2>2, <2>3, <2>4, <2>5
<1>15. ASSUME PushSeed PROVE Handed
  <2>1. /\ here' = here /\ trainer' = trainer /\ transfer' = transfer
        /\ vol'.model = vol.model /\ vol'.out = vol.out
        /\ vol'.seed.model \in {here.model, vol.seed.model}
    BY <1>1, <1>15 DEF PushSeed, Volume
  <2>2. QED
    BY <1>3, <1>9, <2>1
<1>16. ASSUME Finish \/ Replace \/ SweepPairs PROVE Handed
  <2>1. /\ vol' = vol /\ trainer' = trainer /\ transfer' = transfer /\ here' = Flushed
    BY <1>16 DEF Finish, Replace, SweepPairs
  <2>2. QED
    BY <1>3, <1>7, <1>9, <2>1
<1>17. ASSUME Exit \/ Pause PROVE Handed
  <2>1. /\ vol' = Drained /\ trainer' = Off /\ here' = here /\ transfer' = transfer
    BY <1>17 DEF Exit, Pause
  <2>2. QED
    BY <1>3, <1>4, <1>6, <1>9, <2>1
<1>18. ASSUME RemoveVolume \/ RemoveMissing \/ LoseHome PROVE Handed
  <2>1. /\ vol' = EmptyVolume /\ here' = here
        /\ trainer'.queue \subseteq trainer.queue /\ transfer'.pairs \subseteq transfer.pairs
    BY <1>4, <1>18 DEF RemoveVolume, RemoveMissing, LoseHome, Off
  <2>2. QED
    BY <1>3, <1>5, <1>9, <2>1
<1>19. ASSUME Open \/ Assign \/ EvictAtHome \/ Relay \/ SeedVolume \/ Acknowledge PROVE Handed
  <2>1. /\ here' = here
        /\ trainer'.queue = trainer.queue
        /\ transfer' = transfer \/ transfer'.pairs = {}
    BY <1>1, <1>19 DEF Open, Assign, EvictAtHome, Relay, SeedVolume, Acknowledge, Goes, Resting,
                       Trainer
  <2>2. vol'.model = vol.model /\ vol'.seed = vol.seed /\ vol'.out = vol.out
    <3>1. CASE Relay \/ Acknowledge
      BY <1>1, <3>1 DEF Relay, Acknowledge, Volume
    <3>2. CASE Assign
      BY <3>2, AssignDoes
    <3>3. QED
      BY <1>19, <3>1, <3>2, OpenDoes, EvictDoes, SeedDoes
  <2>3. QED
    BY <1>3, <1>9, <2>1, <2>2
<1>20. ASSUME Deliver \/ Unlink \/ CopyGeneration \/ Trim \/ SweepGenerations \/ SweepRest
       PROVE  Handed
  <2>1. vol' = vol /\ trainer' = trainer
    BY <1>20 DEF Deliver, Unlink, CopyGeneration, Trim, SweepGenerations, SweepRest
  <2>2. here'.model = here.model /\ (transfer' = transfer \/ transfer'.pairs = {})
    <3>1. CASE Deliver \/ Unlink \/ SweepRest
      BY <1>1, <3>1 DEF Deliver, Unlink, SweepRest, Goes, Resting, Tree
    <3>2. QED
      BY <1>20, <3>1, CopyDoes, TrimDoes, SweepDoes
  <2>3. QED
    BY <1>3, <1>9, <2>1, <2>2
<1>21. ASSUME Installed \/ CutShort \/ Restart \/ Create \/ Start \/ Remove \/ RemoveContainer
              \/ CommandFails \/ TransferFails \/ Crash \/ DashboardCrash
       PROVE  Handed
  <2>1. vol' = vol /\ here' = here
    BY <1>21 DEF Installed, CutShort, Restart, Create, Start, Remove, RemoveContainer,
                 CommandFails, TransferFails, Crash, DashboardCrash
  <2>2. /\ transfer'.pairs \subseteq transfer.pairs
        /\ trainer'.queue \subseteq trainer.queue
    BY <1>4, <1>21 DEF Installed, CutShort, Restart, Create, Start, Remove, RemoveContainer,
                       CommandFails, TransferFails, Crash, DashboardCrash, Goes, Off, Resting
  <2>3. QED
    BY <1>3, <1>9, <2>1, <2>2
<1>22. QED
  BY <1>8, <1>10, <1>11, <1>12, <1>13, <1>14, <1>15, <1>16, <1>17, <1>18, <1>19, <1>20, <1>21
     DEF Next, Home, Transfer, Placement, Removal, Operator, Fault

\* A generation complete at the home stays so, or is evicted behind the window,
\* unless the volume goes.
LEMMA CompleteStays ==
  ASSUME TypeOK, StagesKnown, TrainerKnows, vol.cursor <= vol.model,
         vol.seed.cursor <= vol.seed.model, [Next]_vars,
         ~(RemoveVolume \/ RemoveMissing \/ LoseHome),
         NEW g \in Gens, vol.gens[g].status = "complete"
  PROVE  \/ vol'.gens[g].status = "complete"
         \/ /\ EvictAtHome /\ g \in vol.acked
            /\ Window # 0 /\ g < vol.cursor - Window
<1>1. vol \in Volume
  BY Sorts
<1>2. CASE ~Moving
  BY <1>2, QuietSteps DEF Quiet
<1>3. CASE Deliver \/ Unlink \/ CopyGeneration \/ Trim \/ SweepGenerations \/ SweepRest
  BY <1>3 DEF Deliver, Unlink, CopyGeneration, Trim, SweepGenerations, SweepRest
<1>4. CASE Relay
  BY <1>1, <1>4 DEF Relay, Volume
<1>5. CASE Open \/ SeedVolume
  BY <1>5, OpenDoes, SeedDoes
<1>6. CASE Assign
  <2>1. PICK c \in vol.staging :
          \/ vol'.gens = vol.gens
          \/ \E h \in Gens : /\ vol.gens[h].status = "generating"
                             /\ \A i \in Gens : i # h => vol'.gens[i] = vol.gens[i]
    BY <1>6, AssignDoes
  <2>2. QED
    BY <2>1
<1>7. CASE EvictAtHome
  BY <1>7, EvictDoes
<1>8. QED
  BY <1>2, <1>3, <1>4, <1>5, <1>6, <1>7 DEF Moving

\* What goes unswept is only added to.
LEMMA UnsweptGrows ==
  ASSUME [Next]_vars
  PROVE  /\ unswept \subseteq unswept'
         /\ ~(RemoveMissing \/ LoseHome) => unswept' = unswept
<1>1. CASE UNCHANGED vars
  BY <1>1 DEF vars, history
<1>2. CASE RemoveMissing \/ LoseHome
  BY <1>2 DEF RemoveMissing, LoseHome, Loses
<1>3. CASE Home \/ Transfer \/ Deliver \/ Restart \/ Finish
  BY <1>3 DEF Home, Open, Assign, TakeSeed, Train, Publish, EvictAtHome, PushPair, DropOlder,
              Exit, Transfer, PullPairs, RemovePulled, InstallModel, InstallCursor, Installed,
              Relay, Unlink, CopyGeneration, Acknowledge, Trim, CutShort, Deliver, Restart,
              Finish, history
<1>4. CASE Placement \/ Removal \/ Pause \/ Replace \/ Remove
  BY <1>4 DEF Placement, SeedVolume, Create, Start, PushSeed, Removal, SweepPairs,
              SweepGenerations, SweepRest, RemoveContainer, RemoveVolume, Pause, Replace,
              Remove, history
<1>5. CASE CommandFails \/ TransferFails \/ Crash \/ DashboardCrash
  BY <1>5 DEF CommandFails, TransferFails, Crash, DashboardCrash, history
<1>6. QED
  BY <1>1, <1>2, <1>3, <1>4, <1>5 DEF Next, Operator, Fault

\* A generation wanted that is complete somewhere stays so, or went unswept.
LEMMA CoverStays ==
  ASSUME TypeOK, StagesKnown, TrainerKnows, vol.cursor <= vol.model,
         vol.seed.cursor <= vol.seed.model, AckedIsHere, Followed, SweptSoFar, [Next]_vars,
         NEW g \in Gens, Wanted(g), g \in Complete(here) \cup Complete(vol) \cup unswept
  PROVE  g \in Complete(here)' \cup Complete(vol)' \cup unswept'
<1>1. here \in Tree /\ vol \in Volume /\ here.cursor \in Nat
  BY Sorts, Constants DEF Tree
<1> DEFINE Whole(tree) == tree.gens[g].status = "complete"
<1>2. /\ g \in Complete(here) <=> Whole(here)
      /\ g \in Complete(vol) <=> Whole(vol)
      /\ g \in Complete(here)' <=> Whole(here')
      /\ g \in Complete(vol)' <=> Whole(vol')
  BY DEF Complete
<1>3. unswept \subseteq unswept'
  BY UnsweptGrows
<1>4. ~(Window # 0 /\ g < here.cursor - Window)
  BY <1>1, Constants DEF Wanted
<1>5. CASE RemoveMissing \/ LoseHome
  <2>1. here' = here /\ unswept' = unswept \cup (Complete(vol) \ Complete(here))
    BY <1>1, <1>5, LossDoes
  <2>2. QED
    BY <1>2, <2>1
<1>6. CASE RemoveVolume
  <2>1. here' = here /\ op = "volume"
    BY <1>6 DEF RemoveVolume
  <2>2. g \in Complete(vol) => g \in Complete(here)
    BY <2>1 DEF SweptSoFar
  <2>3. QED
    BY <1>2, <1>3, <2>1, <2>2
<1>7. CASE ~(RemoveVolume \/ RemoveMissing \/ LoseHome)
  <2>1. ASSUME Whole(vol) PROVE Whole(vol') \/ Whole(here')
    <3>1. CASE EvictAtHome /\ g \in vol.acked
      <4>1. here.gens[g] = vol.gens[g] /\ here' = here
        BY <3>1 DEF AckedIsHere, Wanted, EvictAtHome
      <4>2. QED
        BY <2>1, <4>1
    <3>2. QED
      BY <1>7, <2>1, <3>1, CompleteStays
  <2>2. ASSUME Whole(here) PROVE Whole(vol') \/ Whole(here')
    <3>1. CASE here'.gens = here.gens
      BY <2>2, <3>1
    <3>2. CASE ~Moving
      BY <3>1, <3>2, QuietSteps DEF Quiet
    <3>3. CASE Deliver \/ Unlink \/ SweepRest
      BY <1>1, <3>1, <3>3 DEF Deliver, Unlink, SweepRest, Tree
    <3>4. CASE Open \/ Assign \/ EvictAtHome \/ Relay \/ SeedVolume
      BY <3>1, <3>4 DEF Open, Assign, EvictAtHome, Relay, SeedVolume
    <3>5. CASE CopyGeneration
      BY <2>2, <3>5, CopyDoes
    <3>6. CASE Trim
      BY <1>4, <2>2, <3>6, TrimDoes
    <3>7. CASE SweepGenerations
      <4>1. /\ vol' = vol
            /\ here'.gens[g] = here.gens[g] \/ vol.gens[g].status # "none"
        BY <3>7, SweepDoes
      <4>2. vol.gens[g].status # "none" => Whole(vol)
        BY <2>2, <3>7 DEF Followed, SweepGenerations, StagesKnown
      <4>3. QED
        BY <2>2, <4>1, <4>2
    <3>8. QED
      BY <1>7, <3>2, <3>3, <3>4, <3>5, <3>6, <3>7 DEF Moving
  <2>3. QED
    BY <1>2, <1>3, <2>1, <2>2
<1>8. QED
  BY <1>5, <1>6, <1>7

\* Behind every pair, every generation wanted is complete somewhere.
LEMMA SomewhereStep ==
  ASSUME TypeOK, PairKnown, StagesKnown, TrainerKnows, vol.cursor <= vol.model,
         vol.seed.cursor <= vol.seed.model, AckedIsHere, Followed, SweptSoFar,
         WindowSomewhere, here'.cursor \in Nat, here.cursor <= here'.cursor, [Next]_vars
  PROVE  WindowSomewhere'
<1>1. /\ vol \in Volume /\ here.cursor \in Nat
      /\ vol.cursor \in Nat /\ vol.model \in Nat /\ trainer.index \in Nat
  BY Sorts, Constants DEF Tree, Volume, Trainer
<1> DEFINE Cover == Complete(here) \cup Complete(vol) \cup unswept
<1>2. \A g \in Gens : Wanted(g)' => Wanted(g)
  BY <1>1, WantedBack
<1>3. \A g \in Gens : Wanted(g) /\ g \in Cover => g \in Cover'
  BY CoverStays
<1>4. ASSUME NEW n \in PairsAbout', NEW g \in Gens, g < n, Wanted(g)
      PROVE  g \in Cover'
  <2>1. CASE n \in PairsAbout
    BY <1>3, <1>4, <2>1 DEF WindowSomewhere
  <2>2. CASE n = 0
    BY <1>4, <2>2, Constants
  <2>3. CASE Train /\ n = trainer.index + 1
    <3>1. g < trainer.index \/ g = trainer.index
      BY <1>1, <1>4, <2>3, Constants
    <3>2. vol.gens[trainer.index].status = "complete" /\ trainer.at = "work"
      BY <2>3 DEF Train, Working
    <3>3. g = trainer.index => g \in Cover
      BY <3>2 DEF Complete
    <3>4. g < trainer.index => g < vol.model /\ vol.model \in PairsAbout
      BY <1>1, <3>2, Constants DEF TrainerKnows, PairsAbout
    <3>5. g < trainer.index => g \in Cover
      BY <1>4, <3>4 DEF WindowSomewhere
    <3>6. QED
      BY <1>3, <1>4, <3>1, <3>3, <3>5
  <2>4. QED
    BY <2>1, <2>2, <2>3, PairsStep
<1>5. QED
  BY <1>2, <1>4 DEF WindowSomewhere

\* Few steps change the home's checkpoint, its cursor or the seed pushed.
LEMMA PairOfHome ==
  ASSUME TypeOK, TrainerKnows, [Next]_vars,
         ~(TakeSeed \/ Train \/ Publish \/ PushSeed \/ RemoveVolume \/ RemoveMissing \/ LoseHome)
  PROVE  vol'.model = vol.model /\ vol'.cursor = vol.cursor /\ vol'.seed = vol.seed
<1>1. vol \in Volume
  BY Sorts
<1>2. Drained.model = vol.model /\ Drained.cursor = vol.cursor /\ Drained.seed = vol.seed
  BY <1>1 DEF Drained, Volume
<1>3. CASE UNCHANGED vars \/ Deliver \/ Restart \/ Finish
  BY <1>3 DEF vars, Deliver, Restart, Finish
<1>4. CASE Home
  BY <1>1, <1>2, <1>4, OpenDoes, AssignDoes, EvictDoes
     DEF Home, PushPair, DropOlder, Exit, Volume
<1>5. CASE Transfer
  <2>1. CASE RemovePulled \/ Relay \/ Acknowledge
    BY <1>1, <2>1 DEF RemovePulled, Relay, Acknowledge, Volume
  <2>2. QED
    BY <1>5, <2>1 DEF Transfer, PullPairs, InstallModel, InstallCursor, Installed, Unlink,
                      CopyGeneration, Trim, CutShort
<1>6. CASE Placement
  BY <1>6, SeedDoes DEF Placement, Create, Start
<1>7. CASE Removal
  BY <1>7 DEF Removal, SweepPairs, SweepGenerations, SweepRest, RemoveContainer
<1>8. CASE Operator \/ Fault
  BY <1>2, <1>8 DEF Operator, Pause, Replace, Remove, Fault, CommandFails, TransferFails, Crash,
                    DashboardCrash
<1>9. QED
  BY <1>3, <1>4, <1>5, <1>6, <1>7, <1>8 DEF Next

\* At the home, behind its checkpoint and behind a seed it would take.
LEMMA AtHomeStep ==
  ASSUME TypeOK, StagesKnown, TrainerKnows, CursorBehindWeights, AckedIsHere, Followed,
         WindowSomewhere, WindowAtHome, [Next]_vars
  PROVE  WindowAtHome'
<1>1. /\ vol \in Volume /\ here \in Tree
      /\ here.cursor \in Nat /\ here.model \in Nat /\ vol.cursor \in Nat /\ vol.model \in Nat
      /\ vol.seed.cursor \in Nat /\ vol.seed.model \in Nat /\ trainer.index \in Nat
      /\ Window \in Nat
  BY Sorts, Constants DEF Tree, Volume, Trainer
<1>2. vol.cursor <= vol.model /\ vol.seed.cursor <= vol.seed.model
  BY DEF CursorBehindWeights, WindowAtHome
<1> DEFINE Cover == Complete(vol) \cup unswept
           Within(g, n) == Window = 0 \/ g >= n - Window
           Takes == vol.seed # NoSeed /\ (vol.model = 0 \/ vol.seed.cursor >= vol.cursor)
<1>3. /\ \A g \in Gens : g < vol.model /\ Within(g, vol.cursor) => g \in Cover
      /\ Takes => \A g \in Gens : g < vol.seed.model /\ Within(g, vol.seed.cursor) => g \in Cover
  BY DEF WindowAtHome, Beats
<1>4. ASSUME vol'.seed.cursor <= vol'.seed.model,
             \A g \in Gens : g < vol'.model /\ Within(g, vol'.cursor) => g \in Cover',
             Takes' =>
               \A g \in Gens : g < vol'.seed.model /\ Within(g, vol'.seed.cursor) => g \in Cover'
      PROVE  WindowAtHome'
  BY <1>4 DEF WindowAtHome, Beats
<1>5. unswept \subseteq unswept'
  BY UnsweptGrows
<1>6. \A n, m \in Nat, g \in Gens : n <= m /\ Within(g, m) => Within(g, n)
  <2> SUFFICES ASSUME NEW n \in Nat, NEW m \in Nat, NEW g \in Gens, n <= m, Within(g, m)
               PROVE  Within(g, n)
    OBVIOUS
  <2>1. g \in Nat
    BY Constants
  <2>2. QED
    BY <1>1, <2>1
<1>7. \A n \in Nat, g \in Gens : Within(g, n) => ~(Window # 0 /\ g < n - Window)
  BY <1>1, Constants
<1>8. \A g \in Gens : g \in Nat
  BY Constants
<1>9. NoSeed.cursor = 0 /\ NoSeed.model = 0
  BY DEF NoSeed
<1>10. ~(0 - Window > 0) /\ \A g \in Gens : ~(g < 0 - Window)
  BY <1>1, <1>8
<1> HIDE DEF Within
<1>11. ASSUME vol'.gens = vol.gens PROVE \A g : g \in Cover => g \in Cover'
  BY <1>5, <1>11 DEF Complete
<1>12. CASE RemoveVolume \/ RemoveMissing \/ LoseHome
  <2>1. vol' = EmptyVolume
    BY <1>12 DEF RemoveVolume, RemoveMissing, LoseHome
  <2>2. vol'.model = 0 /\ vol'.seed = NoSeed
    BY <2>1 DEF EmptyVolume
  <2>3. QED
    BY <1>4, <1>8, <1>9, <2>2
<1>13. CASE TakeSeed
  <2> DEFINE model == IF Takes THEN vol.seed.model ELSE vol.model
  <2>1. vol' = [vol EXCEPT !.model = model, !.cursor = model, !.seed = NoSeed]
    BY <1>13 DEF TakeSeed, Beats
  <2>2. ASSUME NEW g \in Gens, g < model, Within(g, model) PROVE g \in Cover
    <3>1. CASE Takes
      BY <1>1, <1>2, <1>3, <1>6, <2>2, <3>1
    <3>2. CASE ~Takes
      BY <1>1, <1>2, <1>3, <1>6, <2>2, <3>2
    <3>3. QED
      BY <3>1, <3>2
  <2> HIDE DEF model
  <2>3. vol'.model = model /\ vol'.cursor = model /\ vol'.seed = NoSeed /\ vol'.gens = vol.gens
    BY <1>1, <2>1 DEF Volume
  <2>4. QED
    BY <1>4, <1>9, <1>11, <2>2, <2>3
<1>14. CASE Train
  <2>1. /\ vol'.model = trainer.index + 1 /\ vol'.cursor = vol.cursor /\ vol'.seed = vol.seed
        /\ vol'.gens = vol.gens /\ vol.gens[trainer.index].status = "complete"
        /\ vol.cursor = trainer.index
    BY <1>1, <1>14 DEF Train, Working, TrainerKnows, Volume
  <2>2. ASSUME NEW g \in Gens, g < vol'.model, Within(g, vol.cursor) PROVE g \in Cover
    <3>1. g < vol.model \/ g = trainer.index
      BY <1>1, <1>2, <1>8, <2>1, <2>2
    <3>2. g = trainer.index => g \in Cover
      BY <2>1 DEF Complete
    <3>3. QED
      BY <1>3, <2>2, <3>1, <3>2
  <2>3. Takes' => Takes
    BY <1>1, <2>1
  <2>4. QED
    BY <1>2, <1>3, <1>4, <1>11, <2>1, <2>2, <2>3
<1>15. CASE Publish
  <2>1. /\ vol'.model = vol.model /\ vol'.cursor = vol.model /\ vol'.seed = vol.seed
        /\ vol'.gens = vol.gens
    BY <1>1, <1>15 DEF Publish, TrainerKnows, Volume
  <2>2. Takes' => Takes
    BY <1>1, <1>2, <2>1
  <2>3. \A g \in Gens : Within(g, vol'.cursor) => Within(g, vol.cursor)
    BY <1>1, <1>2, <1>6, <2>1
  <2>4. QED
    BY <1>2, <1>3, <1>4, <1>11, <2>1, <2>2, <2>3
<1>16. CASE PushSeed
  <2>1. CASE box.state # "running"
    BY <1>2, <1>3, <1>4, <1>11, <1>16, <2>1 DEF PushSeed
  <2>2. CASE box.state = "running"
    <3>1. /\ vol'.seed = [model |-> here.model, cursor |-> here.cursor]
          /\ vol'.model = vol.model /\ vol'.cursor = vol.cursor /\ vol'.gens = vol.gens
      BY <1>1, <1>16, <2>2 DEF PushSeed, Volume
    <3>2. ASSUME vol.model = 0 \/ here.cursor >= vol.cursor,
                 NEW g \in Gens, g < here.model, Within(g, here.cursor)
          PROVE  g \in Cover
      <4>1. g \in Complete(here) \cup Cover
        BY <3>2 DEF WindowSomewhere, PairsAbout, Wanted, Within
      <4>2. ~(Window # 0 /\ g < vol.cursor - Window)
        <5>1. CASE vol.model = 0
          BY <1>1, <1>2, <1>10, <5>1
        <5>2. CASE here.cursor >= vol.cursor
          BY <1>1, <1>6, <1>7, <3>2, <5>2
        <5>3. QED
          BY <3>2, <5>1, <5>2
      <4>3. ASSUME g \in Complete(here) PROVE g \in Complete(vol)
        BY <2>2, <3>2, <4>2, <4>3 DEF Followed, Complete, Wanted, Within
      <4>4. QED
        BY <4>1, <4>3
    <3>3. vol'.seed.model = here.model /\ vol'.seed.cursor = here.cursor
      BY <3>1
    <3>4. here.cursor <= here.model
      BY DEF CursorBehindWeights
    <3>5. QED
      BY <1>3, <1>4, <1>11, <3>1, <3>2, <3>3, <3>4
  <2>3. QED
    BY <2>1, <2>2
<1>17. CASE ~(TakeSeed \/ Train \/ Publish \/ PushSeed \/ RemoveVolume \/ RemoveMissing
              \/ LoseHome)
  <2>1. vol'.model = vol.model /\ vol'.cursor = vol.cursor /\ vol'.seed = vol.seed
    BY <1>17, PairOfHome
  <2>2. ASSUME NEW g \in Cover, g \in Gens, ~(Window # 0 /\ g < vol.cursor - Window)
        PROVE  g \in Cover'
    BY <1>2, <1>5, <1>17, <2>2, CompleteStays DEF Complete
  <2>3. \A g \in Gens : Within(g, vol.cursor) => ~(Window # 0 /\ g < vol.cursor - Window)
    BY <1>1, <1>7
  <2>4. ASSUME Takes, NEW g \in Gens, Within(g, vol.seed.cursor)
        PROVE  ~(Window # 0 /\ g < vol.cursor - Window)
    <3>1. CASE vol.model = 0
      BY <1>1, <1>2, <1>10, <3>1
    <3>2. CASE vol.seed.cursor >= vol.cursor
      BY <1>1, <1>6, <1>7, <2>4, <3>2
    <3>3. QED
      BY <2>4, <3>1, <3>2
  <2>5. QED
    BY <1>2, <1>3, <1>4, <2>1, <2>2, <2>3, <2>4
<1>18. QED
  BY <1>12, <1>13, <1>14, <1>15, <1>16, <1>17

-----------------------------------------------------------------------------
\* Nothing is anywhere at first.
LEMMA KeptInit == Init => KeptInv
<1> SUFFICES ASSUME Init PROVE KeptInv
  OBVIOUS
<1>1. MovesInv
  BY MovesInit
<1>2. /\ \A g \in Gens : here.gens[g] = NoGen /\ vol.gens[g] = NoGen
      /\ here.ledger = {} /\ vol.ledger = {} /\ sent = {} /\ op = "idle"
      /\ box.state = "none" /\ vol = EmptyVolume /\ transfer.at = "idle"
      /\ here.model = 0 /\ vol.model = 0 /\ vol.cursor = 0 /\ vol.seed = NoSeed
      /\ vol.out = {} /\ transfer.pairs = {} /\ trainer.queue = {}
  BY DEF Init, Empty, EmptyVolume, Off, Resting
<1>3. NoGen.status = "none" /\ NoGen.chunks = {} /\ NoSeed.model = 0 /\ NoSeed.cursor = 0
  BY DEF NoGen, NoSeed
<1>4. Traced /\ Followed
  BY <1>2, <1>3 DEF Traced, Followed
<1>5. LedgerKept /\ RelayedKept /\ SweptSoFar /\ ChunkKept
  BY <1>2 DEF LedgerKept, RelayedKept, SweptSoFar, ChunkKept
<1>6. \A g \in Gens : ~(g < 0)
  BY Constants
<1>7. WindowSomewhere
  BY <1>2, <1>3, <1>6 DEF WindowSomewhere, PairsAbout
<1>8. WindowAtHome
  BY <1>2, <1>3, <1>6 DEF WindowAtHome
<1>9. QED
  BY <1>1, <1>4, <1>5, <1>7, <1>8 DEF KeptInv

\* Every step keeps it, unless a sweep may meet a half-installed pair.
LEMMA KeptStep ==
  ASSUME ~Overlap
  PROVE  KeptInv /\ [Next]_vars => KeptInv'
<1> SUFFICES ASSUME KeptInv, [Next]_vars PROVE KeptInv'
  OBVIOUS
<1>1. /\ TypeOK /\ StagesKnown /\ TrainerKnows /\ PairKnown /\ CursorBehindWeights
      /\ AckedIsHere /\ MovesInv
  BY DEF KeptInv, MovesInv
<1>2. /\ Traced /\ Followed /\ LedgerKept /\ RelayedKept /\ SweptSoFar /\ ChunkKept
      /\ WindowSomewhere /\ WindowAtHome
  BY DEF KeptInv
<1>3. MovesInv' /\ here.cursor <= here'.cursor
  BY <1>1, MovesStep
<1>4. here'.cursor \in Nat /\ vol'.cursor \in Nat
  BY <1>3, SortsNext, Constants DEF MovesInv, Tree, Volume
<1>5. vol.cursor <= vol.model /\ vol.seed.cursor <= vol.seed.model
  BY <1>1, <1>2 DEF CursorBehindWeights, WindowAtHome
<1>6. Traced'
  BY <1>1, <1>2, <1>5, TracedStep
<1>7. Followed'
  BY <1>1, <1>2, <1>3, <1>4, <1>5, FollowedStep
<1>8. SweptSoFar'
  BY <1>1, <1>2, <1>3, <1>4, <1>5, SweptStep
<1>9. LedgerKept' /\ RelayedKept' /\ ChunkKept'
  BY <1>1, <1>2, <1>3, <1>4, <1>5, ChunksStep
<1>10. WindowSomewhere'
  BY <1>1, <1>2, <1>3, <1>4, <1>5, SomewhereStep
<1>11. WindowAtHome'
  BY <1>1, <1>2, AtHomeStep
<1>12. QED
  BY <1>3, <1>6, <1>7, <1>8, <1>9, <1>10, <1>11 DEF KeptInv

\* The inductive invariant of what a home keeps: where each generation and chunk
\* has got to, at every stage of a relay, a copy, a sweep, a seed and a loss.
THEOREM KeptInvariant == ASSUME ~Overlap PROVE Spec => []KeptInv
<1>1. KeptInv /\ [Next]_vars => KeptInv'
  BY KeptStep
<1>2. QED
  BY KeptInit, <1>1, PTL DEF Spec

\* A delivered chunk is staged or in a generation somewhere until the cursor here
\* has passed it, unless it went with an unswept volume (relay_files, collect,
\* keep_unpulled, the ledger).
THEOREM ChunkNeverLost == ASSUME ~Overlap PROVE Spec => []ChunkKept
<1>1. KeptInv => ChunkKept
  BY DEF KeptInv
<1>2. QED
  BY KeptInvariant, <1>1, PTL

\* A trainer that starts finds the window behind its cursor whole, wherever the
\* home was moved and whatever was lost, but for generations that went unswept
\* (_seed_home, ensure_window).
THEOREM ResumesWhole == ASSUME ~Overlap PROVE Spec => WindowWhole
<1>1. ASSUME KeptInv, [Next]_vars, trainer.at = "seed", trainer'.at = "work",
             NEW g \in Gens, g < trainer'.index,
             Window = 0 \/ g >= trainer'.index - Window
      PROVE  vol.gens[g].status = "complete" \/ g \in unswept
  <2>1. TypeOK /\ StagesKnown /\ CursorBehindWeights /\ WindowAtHome
    BY <1>1 DEF KeptInv, MovesInv
  <2>2. /\ trainer \in Trainer /\ vol \in Volume
        /\ vol.cursor \in Nat /\ vol.model \in Nat /\ Window \in Nat /\ g \in Nat
        /\ vol.seed.cursor \in Nat /\ vol.seed.model \in Nat
    BY <2>1, Sorts, Constants DEF Volume
  <2>3. TakeSeed
    <3>1. Home => TakeSeed
      BY <1>1, <2>2 DEF Home, Open, Assign, Train, Publish, EvictAtHome, PushPair, DropOlder,
                        Exit, Working, Off, Trainer
    <3>2. ~Transfer /\ ~Deliver /\ ~Finish /\ ~Removal
      BY <1>1 DEF Transfer, PullPairs, RemovePulled, InstallModel, InstallCursor, Installed,
                  Relay, Unlink, CopyGeneration, Acknowledge, Trim, CutShort, Deliver, Finish,
                  Removal, SweepPairs, SweepGenerations, SweepRest, RemoveContainer, RemoveVolume
    <3>3. ~Placement /\ ~Operator /\ ~Fault /\ ~Restart /\ ~UNCHANGED vars
      BY <1>1 DEF Placement, SeedVolume, Create, Start, PushSeed, Operator, Pause, Replace,
                  Remove, RemoveMissing, Fault, CommandFails, TransferFails, Crash,
                  DashboardCrash, LoseHome, Restart, Off, vars
    <3>4. QED
      BY <1>1, <3>1, <3>2, <3>3 DEF Next
  <2>4. trainer'.index = IF vol.seed # NoSeed /\ Beats(vol, vol.seed.cursor)
                         THEN vol.seed.model ELSE vol.model
    BY <2>3 DEF TakeSeed, Off
  <2>5. vol.cursor <= vol.model /\ vol.seed.cursor <= vol.seed.model
    BY <2>1 DEF CursorBehindWeights, WindowAtHome
  <2>6. CASE vol.seed # NoSeed /\ Beats(vol, vol.seed.cursor)
    <3>1. Window = 0 \/ g >= vol.seed.cursor - Window
      BY <1>1, <2>2, <2>4, <2>5, <2>6
    <3>2. QED
      BY <1>1, <2>1, <2>4, <2>6, <3>1 DEF WindowAtHome, Complete
  <2>7. CASE ~(vol.seed # NoSeed /\ Beats(vol, vol.seed.cursor))
    <3>1. Window = 0 \/ g >= vol.cursor - Window
      BY <1>1, <2>2, <2>4, <2>5, <2>7
    <3>2. QED
      BY <1>1, <2>1, <2>4, <2>7, <3>1 DEF WindowAtHome, Complete
  <2>8. QED
    BY <2>6, <2>7
<1>2. KeptInv /\ [Next]_vars =>
        [trainer.at = "seed" /\ trainer'.at = "work" =>
           \A g \in Gens :
             /\ g < trainer'.index
             /\ Window = 0 \/ g >= trainer'.index - Window
             => vol.gens[g].status = "complete" \/ g \in unswept]_trainer
  BY <1>1
<1>3. QED
  BY KeptInvariant, <1>2, PTL DEF Spec, WindowWhole
=============================================================================
