------------------------- MODULE MatchDispatchProofs -------------------------
(***************************************************************************)
(* Proofs about match evaluation, for every number of generations, cadence *)
(* and number of faults: the state keeps its type, the match slot is       *)
(* finished only once every due generation has its row, a played model     *)
(* keeps its result until it is accounted for, and nothing is assigned     *)
(* whose result is on its way.                                             *)
(***************************************************************************)
EXTENDS MatchDispatchProps, TLAPS

-----------------------------------------------------------------------------
\* Types.

\* No results, and the results of one place over those of another, are results.
LEMMA ResultTypes ==
  /\ NoResults \in [Gens -> Result]
  /\ \A a, b \in [Gens -> Result] : Over(a, b) \in [Gens -> Result]
  /\ \A a \in [Gens -> Result] : Waiting(a) \subseteq Gens
  /\ \A a, b \in [Gens -> Result] : Waiting(Over(a, b)) = Waiting(a) \cup Waiting(b)
BY DEF NoResults, Over, Waiting, Result

\* What the worker, the collection and the tick are at rest, and the tick when its
\* answer is due.
LEMMA PollingType ==
  Polling \in [at : {"poll", "play", "mark"}, gen : Nat] /\ Polling.at = "poll"
BY DEF Polling

\* The collection at rest.
LEMMA NoPullType ==
  /\ NoPull \in [at : {"none", "copy", "delete"}, batch : SUBSET Gens]
  /\ NoPull.at = "none"
BY DEF NoPull

\* The tick at rest.
LEMMA NoTickType ==
  /\ NoTick \in [at : {"none", "ingest", "unlink", "list", "clear", "owe"}, offered : BOOLEAN,
                  files : SUBSET Gens, gen : Nat, spent : SUBSET Gens, busy : BOOLEAN]
  /\ NoTick.at = "none"
BY DEF NoTick

\* A generation seen exported is one of the training's.
LEMMA PendingGens == TypeOK => Pending \subseteq Gens
BY DEF Pending, TypeOK

\* So is one that is about to be saved.
LEMMA NextGen == TypeOK /\ made < MaxGen => made \in Gens /\ made + 1 \in 0 .. MaxGen
BY MatchAssumption DEF MatchAssumption, TypeOK, Gens

\* What is ingested is one of the files the tick listed.
LEMMA IngestTakes == Ingest => \E g \in tick.files : IngestFile(g)
BY DEF Ingest, Oldest

\* The types hold at first,
LEMMA TypeInit == Init => TypeOK
<1>1. MaxGen \in Nat /\ MaxFaults \in Nat
  BY MatchAssumption DEF MatchAssumption
<1>2. QED
  <2> SUFFICES ASSUME Init PROVE TypeOK
    OBVIOUS
  <2>1. worker = Polling /\ pull = NoPull /\ tick = NoTick /\ out = NoResults /\ here = NoResults
    BY DEF Init
  <2>2. trained = FALSE /\ up = TRUE /\ finished = FALSE
    BY DEF Init
  <2>3. trained \in BOOLEAN /\ up \in BOOLEAN /\ finished \in BOOLEAN
    BY <2>2
  <2>4. made = 0 /\ sent = 0 /\ cursor = 0 /\ faults = 0
    BY DEF Init
  <2>8. outbox = {} /\ pairs = {} /\ exported = {}
    BY DEF Init
  <2>5. inbox = {} /\ marks = {} /\ recorded = {} /\ quarantined = {}
    BY DEF Init
  <2>6. out \in [Gens -> Result] /\ here \in [Gens -> Result]
    BY <2>1, ResultTypes
  <2>7. QED
    BY <1>1, <2>1, <2>3, <2>4, <2>5, <2>6, <2>8, PollingType, NoPullType, NoTickType DEF TypeOK

\* and every step keeps them.
LEMMA TypeStep == TypeOK /\ [Next]_vars => TypeOK'
<1> SUFFICES ASSUME TypeOK, [Next]_vars PROVE TypeOK'
  OBVIOUS
<1>0. MaxGen \in Nat /\ MaxFaults \in Nat /\ Gens \subseteq Nat
  BY MatchAssumption DEF MatchAssumption, Gens
<1>1. CASE Begin
  BY ResultTypes, NoTickType, NoPullType, <1>1 DEF Begin, TypeOK, training, box
<1>2. CASE Ingest
  <2>1. PICK g \in tick.files : IngestFile(g)
    BY <1>2, IngestTakes
  <2>2. g \in Gens
    BY <2>1 DEF TypeOK
  <2>3. UNCHANGED <<training, box, finished, pull, faults>>
    BY <1>2 DEF Ingest
  <2>4. CASE here[g] = "bad"
    BY <2>1, <2>2, <2>3, <2>4 DEF IngestFile, Result, TypeOK, training, box
  <2>5. CASE here[g] # "bad"
    BY <1>0, <2>1, <2>2, <2>3, <2>5 DEF IngestFile, TypeOK, training, box
  <2>6. QED
    BY <2>4, <2>5
<1>3. CASE Unlink
  BY <1>3 DEF Unlink, Result, TypeOK, training, box
<1>4. CASE Choose
  <2>1. UNCHANGED <<training, box, here, recorded, quarantined, finished, pull, faults>>
    BY <1>4 DEF Choose
  <2>2. CASE tick.offered /\ Pending # {}
    <3>1. PICK g \in Pending : tick' = [tick EXCEPT !.at = "list", !.gen = g]
      BY <1>4, <2>2 DEF Choose, Newest
    <3>2. g \in Gens
      BY <3>1, PendingGens
    <3>3. QED
      BY <1>0, <2>1, <3>1, <3>2 DEF TypeOK, training, box
  <2>3. CASE ~(tick.offered /\ Pending # {})
    <3>1. tick' = [NoTick EXCEPT !.at = "owe"]
      BY <1>4, <2>3 DEF Choose
    <3>2. QED
      BY <2>1, <3>1, NoTickType DEF TypeOK, training, box
  <2>4. QED
    BY <2>2, <2>3
<1>5. CASE List
  BY <1>5 DEF List, SpentMarks, TypeOK, training, box
<1>6. CASE Clear
  BY <1>6 DEF Clear, TypeOK, training
<1>7. CASE Put
  BY NoTickType, <1>7 DEF Put, TypeOK, training
<1>8. CASE Busy
  BY NoTickType, <1>8 DEF Busy, TypeOK, training, box
<1>9. CASE Finish
  BY NoTickType, <1>9 DEF Finish, TypeOK, training, box
<1>10. CASE TickFails
  BY <1>0, NoTickType, <1>10 DEF TickFails, Fault, TypeOK, training, box
<1>11. CASE PullCopies
  BY ResultTypes, <1>11 DEF PullCopies, Taken, TypeOK, training, box
<1>12. CASE PullDeletes
  BY NoPullType, <1>12 DEF PullDeletes, Result, TypeOK, training
<1>13. CASE PullFails
  BY <1>0, NoPullType, <1>13 DEF PullFails, Fault, TypeOK, training, box
<1>14. CASE Save
  BY NextGen, <1>14 DEF Save, TypeOK, matching, box
<1>15. CASE Send
  <2>1. sent + 1 \in 1 .. MaxGen
    BY <1>0, <1>15 DEF Send, TypeOK
  <2>2. QED
    BY <1>0, <1>15, <2>1 DEF Send, TypeOK, matching, box
<1>15b. CASE SendFails
  BY <1>15b DEF SendFails, TypeOK, matching, box
<1>16. CASE Collect
  BY <1>16 DEF Collect, Oldest, TypeOK, matching, box
<1>17. CASE Install
  <2>1. cursor' \in 0 .. MaxGen /\ pairs' = {}
    BY <1>0, <1>17 DEF Install, TypeOK
  <2>2. QED
    BY <1>17, <2>1 DEF Install, TypeOK, matching, box
<1>18. CASE TrainerFinishes
  <2>1. cursor' \in pairs \cup {cursor}
    BY <1>18 DEF TrainerFinishes, Newest
  <2>2. cursor' \in 0 .. MaxGen
    BY <1>0, <2>1 DEF TypeOK
  <2>3. QED
    BY <1>18, <2>2 DEF TrainerFinishes, TypeOK, matching, box
<1>19. CASE Interrupt
  BY <1>0, <1>19 DEF Interrupt, Fault, TypeOK, matching, box
<1>20. CASE LoseHome
  <2>1. faults' \in 0 .. MaxFaults
    BY <1>0, <1>20 DEF LoseHome, Fault, TypeOK
  <2>2. made' \in 0 .. MaxGen /\ sent' \in 0 .. MaxGen /\ outbox' = {} /\ pairs' = {}
    BY <1>20 DEF LoseHome, TypeOK
  <2>3. UNCHANGED <<exported, cursor, trained, matching>>
    BY <1>20 DEF LoseHome
  <2>4. QED
    BY <2>1, <2>2, <2>3 DEF TypeOK, matching, box
<1>21. CASE Play
  BY <1>0, <1>21 DEF Play, Newest, TypeOK, training
<1>22. CASE Deliver
  BY <1>0, <1>22 DEF Deliver, Result, Fault, TypeOK, training
<1>23. CASE Mark
  BY PollingType, <1>23 DEF Mark, TypeOK, training
<1>24. CASE Stop
  <2>1. up' \in BOOLEAN
    BY <1>24 DEF Stop
  <2>2. faults' \in 0 .. MaxFaults
    BY <1>0, <1>24 DEF Stop, Fault, TypeOK
  <2>3. worker' = Polling
    BY <1>24 DEF Stop
  <2>4. UNCHANGED <<training, inbox, marks, out, here, recorded, quarantined, finished, pull, tick>>
    BY <1>24 DEF Stop
  <2>5. QED
    BY <2>1, <2>2, <2>3, <2>4, PollingType DEF TypeOK, training
<1>25. CASE Start
  BY <1>25 DEF Start, TypeOK, training
<1>26. CASE Replace
  BY <1>0, ResultTypes, <1>26 DEF Replace, Taken, Fresh, Fault, TypeOK, training
<1>27. CASE Lose
  <2>1. up' \in BOOLEAN
    BY <1>27 DEF Lose
  <2>2. faults' \in 0 .. MaxFaults
    BY <1>0, <1>27 DEF Lose, Fault, TypeOK
  <2>3. worker' = Polling /\ out' = NoResults /\ inbox' = {} /\ marks' = {}
    BY <1>27 DEF Lose, Fresh
  <2>4. UNCHANGED <<training, here, recorded, quarantined, finished, pull, tick>>
    BY <1>27 DEF Lose
  <2>5. out' \in [Gens -> Result]
    BY <2>3, ResultTypes
  <2>6. QED
    BY <2>1, <2>2, <2>3, <2>4, <2>5, PollingType DEF TypeOK, training
<1>28. CASE Crash
  BY <1>0, NoTickType, NoPullType, <1>28 DEF Crash, Fault, TypeOK, training, box
<1>29. CASE UNCHANGED vars
  BY <1>29 DEF vars, training, matching, box, TypeOK
<1>30. QED
  BY <1>1, <1>2, <1>3, <1>4, <1>5, <1>6, <1>7, <1>8, <1>9, <1>10, <1>11, <1>12, <1>13,
     <1>14, <1>15, <1>15b, <1>16, <1>17, <1>18, <1>19, <1>20, <1>21, <1>22, <1>23, <1>24,
     <1>25, <1>26, <1>27, <1>28, <1>29
     DEF Next, Tick, Transfer, Train, Work

\* Every variable keeps its type.
THEOREM TypeCorrect == Spec => []TypeOK
<1>1. QED
  BY TypeInit, TypeStep, PTL DEF Spec

-----------------------------------------------------------------------------
\* The slot's finish.

\* Every export below the trainer's cursor is at the trainer or here, and those below
\* the cursor here are here: a pair comes with the exports up to its own.  A trainer
\* seen finished has made them all and has none left.
DeliveryInv ==
  /\ cursor <= sent /\ sent <= made
  /\ \A p \in pairs : p <= sent
  /\ \A g \in Gens : g < made => g \in exported \cup outbox
  /\ \A g \in outbox : g >= cursor
  /\ trained => made = MaxGen /\ outbox = {}

FinishInv == DeliveryInv /\ (finished => trained) /\ FinishedMeansAllMatched

\* With every export here and nothing outstanding, every due generation has a row.
LEMMA NothingOutstanding ==
  ASSUME TypeOK, DeliveryInv, trained, ~Outstanding
  PROVE  Due \subseteq recorded
<1>1. SUFFICES ASSUME NEW g \in Gens, Every > 0, g % Every = 0 PROVE g \in recorded
  BY DEF Due
<1>2. g < made /\ outbox = {}
  BY MatchAssumption DEF MatchAssumption, Gens, DeliveryInv
<1>3. g \in exported
  BY <1>2 DEF DeliveryInv
<1>4. Pending = {}
  BY <1>1 DEF Outstanding
<1>5. QED
  BY <1>1, <1>3, <1>4 DEF Pending

\* Each step of the training leaves an export where it was or brings it here; a lost
\* home makes again what the cursor here has not passed.
LEMMA DeliveryStep == TypeOK /\ DeliveryInv /\ [Next]_vars => DeliveryInv'
<1> SUFFICES ASSUME TypeOK, DeliveryInv, [Next]_vars PROVE DeliveryInv'
  OBVIOUS
<1>0. MaxGen \in Nat /\ Gens \subseteq Nat /\ {made, sent, cursor} \subseteq 0 .. MaxGen
      /\ pairs \subseteq Nat /\ outbox \subseteq Gens
  BY MatchAssumption DEF MatchAssumption, Gens, TypeOK
<1>1. CASE UNCHANGED training
  BY <1>1 DEF training, DeliveryInv
<1>2. CASE Save
  <2>1. ~trained
    BY <1>0, <1>2 DEF Save, DeliveryInv
  <2>2. \A g \in Gens : g < made + 1 => g < made \/ g = made
    BY <1>0
  <2>3. made + 1 \in Nat /\ sent <= made + 1 /\ made >= cursor
    BY <1>0 DEF DeliveryInv
  <2>4. QED
    BY <1>2, <2>1, <2>2, <2>3 DEF Save, DeliveryInv
<1>3. CASE Send
  BY <1>0, <1>3 DEF Send, DeliveryInv
<1>4. CASE SendFails \/ Interrupt
  <2>1. sent' = made /\ UNCHANGED <<made, outbox, pairs, exported, cursor, trained>>
    BY <1>4 DEF SendFails, Interrupt
  <2>2. cursor <= made /\ (\A p \in pairs : p <= made)
    BY <1>0 DEF DeliveryInv
  <2>3. QED
    BY <1>0, <2>1, <2>2 DEF DeliveryInv
<1>5. CASE Collect
  BY <1>5 DEF Collect, Oldest, DeliveryInv
<1>6. CASE Install
  <2>1. PICK c \in pairs : /\ \A g \in outbox : g >= c
                          /\ cursor' = IF c > cursor THEN c ELSE cursor
    BY <1>6 DEF Install
  <2>2. cursor' <= sent /\ (\A g \in outbox : g >= cursor')
    BY <1>0, <2>1 DEF DeliveryInv
  <2>3. QED
    BY <1>6, <2>2 DEF Install, DeliveryInv
<1>7. CASE TrainerFinishes
  <2>1. cursor' <= sent
    BY <1>7 DEF TrainerFinishes, Newest, DeliveryInv
  <2>2. QED
    BY <1>7, <2>1 DEF TrainerFinishes, DeliveryInv
<1>8. CASE LoseHome
  <2>1. ASSUME NEW g \in Gens, g < cursor PROVE g \in exported
    BY <1>0, <2>1 DEF DeliveryInv
  <2>2. QED
    BY <1>0, <1>8, <2>1 DEF LoseHome, DeliveryInv
<1>9. QED
  BY <1>1, <1>2, <1>3, <1>4, <1>5, <1>6, <1>7, <1>8
     DEF Next, Tick, Transfer, Train, Work, vars, Begin, Ingest, Unlink, Choose, List, Clear,
         Put, Busy, Finish, TickFails, PullCopies, PullDeletes, PullFails, Play, Deliver, Mark,
         Stop, Start, Replace, Lose, Crash

\* Only a tick that owes nothing finishes the slot, and what is recorded stays so.
LEMMA FinishStep == TypeOK /\ FinishInv /\ [Next]_vars => FinishInv'
<1> SUFFICES ASSUME TypeOK, FinishInv, [Next]_vars PROVE FinishInv'
  OBVIOUS
<1>0. DeliveryInv'
  BY DeliveryStep DEF FinishInv
<1>1. CASE Finish
  <2>1. ~Outstanding /\ trained => Due \subseteq recorded
    BY NothingOutstanding DEF FinishInv
  <2>2. QED
    BY <1>0, <1>1, <2>1 DEF Finish, FinishInv, FinishedMeansAllMatched, training
<1>2. CASE Ingest
  <2>1. recorded \subseteq recorded'
    BY <1>2, IngestTakes DEF IngestFile
  <2>2. QED
    BY <1>0, <1>2, <2>1 DEF Ingest, FinishInv, FinishedMeansAllMatched, training
<1>3. CASE TrainerFinishes
  BY <1>0, <1>3 DEF TrainerFinishes, FinishInv, FinishedMeansAllMatched, matching
<1>4. CASE UNCHANGED <<trained, finished, recorded>>
  BY <1>0, <1>4 DEF FinishInv, FinishedMeansAllMatched
<1>5. QED
  BY <1>1, <1>2, <1>3, <1>4
     DEF Next, Tick, Transfer, Train, Work, vars, training, matching, Begin, Unlink, Choose,
         List, Clear, Put, Busy, TickFails, PullCopies, PullDeletes, PullFails, Save, Send,
         SendFails, Collect, Install, Interrupt, LoseHome, Play, Deliver, Mark, Stop, Start,
         Replace, Lose, Crash

\* The match slot is finished only once every due generation of the training has its
\* row, however the trainer was interrupted (_outstanding, _dispatch_role,
\* _final_flush_collected).
THEOREM FinishedIsMatched == Spec => []FinishedMeansAllMatched
<1>1. Init => FinishInv
  BY MatchAssumption
     DEF MatchAssumption, Init, FinishInv, DeliveryInv, FinishedMeansAllMatched, Gens
<1>2. FinishInv => FinishedMeansAllMatched
  BY DEF FinishInv
<1>3. QED
  BY <1>1, <1>2, FinishStep, TypeCorrect, PTL DEF Spec

-----------------------------------------------------------------------------
\* The result of a played model.

\* A generation whose result is somewhere: in transit, or accounted for.
Kept == Settled \cup InTransit

\* A marked model's result is kept, and so is the delivered one of a model about to be
\* marked.  What a collection is about to delete is here, and what the tick is about
\* to unlink is recorded.
KeptInv ==
  /\ marks \subseteq Kept
  /\ worker.at = "mark" => worker.gen \in Kept
  /\ worker.at # "poll" => up /\ worker.gen \in inbox
  /\ pull.at = "delete" => pull.batch \subseteq Settled \cup Waiting(here)
  /\ tick.at = "unlink" => tick.gen \in recorded

\* A marked generation keeps its result until it is settled: each place copies before
\* it deletes.
LEMMA KeptStep == TypeOK /\ KeptInv /\ [Next]_vars => KeptInv'
<1> SUFFICES ASSUME TypeOK, KeptInv, [Next]_vars PROVE KeptInv'
  OBVIOUS
<1>1. CASE Begin
  BY <1>1 DEF Begin, KeptInv, Kept, Settled, InTransit, box
<1>2. CASE Ingest
  <2>1. PICK g \in tick.files : IngestFile(g)
    BY <1>2, IngestTakes
  <2>2. UNCHANGED <<training, box, finished, pull, faults>> /\ tick.at = "ingest"
    BY <1>2 DEF Ingest
  <2>3. CASE here[g] = "bad"
    BY <2>1, <2>2, <2>3 DEF IngestFile, KeptInv, Kept, Settled, InTransit, Waiting, box, TypeOK
  <2>4. CASE here[g] # "bad"
    <3>1. tick'.at = "unlink" /\ tick'.gen = g /\ tick'.files = tick.files
      BY <2>1, <2>4 DEF IngestFile, TypeOK
    <3>2. recorded' = recorded \cup {g} /\ quarantined' = quarantined /\ here' = here
      BY <2>1, <2>4 DEF IngestFile
    <3>3. QED
      BY <2>2, <3>1, <3>2 DEF KeptInv, Kept, Settled, InTransit, box
  <2>5. QED
    BY <2>3, <2>4
<1>3. CASE Unlink
  BY <1>3 DEF Unlink, KeptInv, Kept, Settled, InTransit, Waiting, box
<1>4. CASE Choose
  BY <1>4 DEF Choose, NoTick, KeptInv, Kept, Settled, InTransit, box, TypeOK
<1>5. CASE List
  BY <1>5 DEF List, KeptInv, Kept, Settled, InTransit, box
<1>6. CASE Clear
  BY <1>6 DEF Clear, KeptInv, Kept, Settled, InTransit
<1>7. CASE Put
  BY <1>7 DEF Put, KeptInv, Kept, Settled, InTransit
<1>8. CASE Busy
  BY <1>8 DEF Busy, KeptInv, Kept, Settled, InTransit, box
<1>9. CASE Finish
  BY <1>9 DEF Finish, NoTick, KeptInv, Kept, Settled, InTransit, box
<1>10. CASE TickFails
  BY <1>10 DEF TickFails, NoTick, KeptInv, Kept, Settled, InTransit, box
<1>11. CASE PullCopies
  BY <1>11 DEF PullCopies, Taken, Over, KeptInv, Kept, Settled, InTransit, Waiting, box
<1>12. CASE PullDeletes
  BY <1>12 DEF PullDeletes, NoPull, KeptInv, Kept, Settled, InTransit, Waiting
<1>13. CASE PullFails
  BY <1>13 DEF PullFails, NoPull, KeptInv, Kept, Settled, InTransit, box
<1>14. CASE UNCHANGED matching
  BY <1>14 DEF matching, KeptInv, Kept, Settled, InTransit, box
<1>15. CASE Play
  BY <1>15 DEF Play, Newest, KeptInv, Kept, Settled, InTransit
<1>16. CASE Deliver
  BY <1>16 DEF Deliver, KeptInv, Kept, Settled, InTransit, Waiting, TypeOK
<1>17. CASE Mark
  BY <1>17 DEF Mark, Polling, KeptInv, Kept, Settled, InTransit
<1>18. CASE Stop
  BY <1>18 DEF Stop, Polling, KeptInv, Kept, Settled, InTransit
<1>19. CASE Start
  BY <1>19 DEF Start, KeptInv, Kept, Settled, InTransit
<1>20. CASE Replace
  <2>1. marks' = {} /\ pull' = NoPull /\ tick'.at = "none" /\ worker' = worker
    BY <1>20 DEF Replace, Fresh
  <2>2. worker'.at = "poll"
    BY <1>20, <2>1 DEF KeptInv, Replace
  <2>3. QED
    BY <2>1, <2>2, NoPullType DEF KeptInv
<1>21. CASE Lose
  BY <1>21 DEF Lose, Fresh, Polling, KeptInv, Settled
<1>22. CASE Crash
  BY <1>22 DEF Crash, NoTick, NoPull, KeptInv, Kept, Settled, InTransit, box
<1>23. QED
  BY <1>1, <1>2, <1>3, <1>4, <1>5, <1>6, <1>7, <1>8, <1>9, <1>10, <1>11, <1>12, <1>13,
     <1>14, <1>15, <1>16, <1>17, <1>18, <1>19, <1>20, <1>21, <1>22
     DEF Next, Tick, Transfer, Train, Work, Save, Send, SendFails, Collect, Install,
         TrainerFinishes, Interrupt, LoseHome, vars

\* A played model whose match is not accounted for has its result in the container
\* or here (_spent_marks).
THEOREM MarkKeepsResult == Spec => []MarkHasResult
<1>1. Init => KeptInv
  BY DEF Init, KeptInv, Polling, NoPull, NoTick
<1>2. KeptInv => MarkHasResult
  BY DEF KeptInv, Kept, MarkHasResult
<1>3. QED
  BY <1>1, <1>2, KeptStep, TypeCorrect, PTL DEF Spec

-----------------------------------------------------------------------------
\* The assignment.

\* A generation the tick need not assign: in the inbox, played or not, or settled.
Known == inbox \cup marks \cup Settled

\* A result in the container is of a known generation; during a tick with the
\* container up so is one here, or the tick has listed it.  What the tick is about to
\* assign has no row; unless it found the slot busy, the inbox it will put it in is
\* empty but for the spent marks.
LedgerInv ==
  /\ worker.at # "poll" => up /\ worker.gen \in inbox
  /\ Waiting(out) \subseteq Known
  /\ tick.at # "none" /\ up => Waiting(here) \subseteq Known \cup tick.files
  /\ tick.at = "unlink" => tick.gen \in recorded
  /\ tick.at \in {"list", "clear"} => tick.files = {} /\ tick.gen \notin recorded
  /\ tick.at = "clear" => tick.spent \subseteq Settled
  /\ tick.at = "clear" /\ ~tick.busy => inbox = {} /\ marks \subseteq tick.spent

\* Every step keeps what the places know of one another.
LEMMA LedgerStep == TypeOK /\ LedgerInv /\ [Next]_vars => LedgerInv'
<1> SUFFICES ASSUME TypeOK, LedgerInv, [Next]_vars PROVE LedgerInv'
  OBVIOUS
<1>1. CASE Begin
  BY <1>1 DEF Begin, LedgerInv, Known, Settled, box
<1>2. CASE Ingest
  <2>1. PICK g \in tick.files : IngestFile(g)
    BY <1>2, IngestTakes
  <2>2. UNCHANGED <<training, box, finished, pull, faults>> /\ tick.at = "ingest"
    BY <1>2 DEF Ingest
  <2>3. CASE here[g] = "bad"
    BY <2>1, <2>2, <2>3 DEF IngestFile, LedgerInv, Known, Settled, Waiting, box, TypeOK
  <2>4. CASE here[g] # "bad"
    <3>1. tick'.at = "unlink" /\ tick'.gen = g /\ tick'.files = tick.files
      BY <2>1, <2>4 DEF IngestFile, TypeOK
    <3>2. recorded' = recorded \cup {g} /\ quarantined' = quarantined /\ here' = here
      BY <2>1, <2>4 DEF IngestFile
    <3>3. QED
      BY <2>2, <3>1, <3>2 DEF LedgerInv, Known, Settled, box
  <2>5. QED
    BY <2>3, <2>4
<1>3. CASE Unlink
  BY <1>3 DEF Unlink, LedgerInv, Known, Settled, Waiting, box
<1>4. CASE Choose
  BY <1>4 DEF Choose, NoTick, Newest, Pending, LedgerInv, Known, Settled, box, TypeOK
<1>5. CASE List
  BY <1>5 DEF List, SpentMarks, LedgerInv, Known, Settled, box, TypeOK
<1>6. CASE Clear
  BY <1>6 DEF Clear, Oldest, LedgerInv, Known, Settled
<1>7. CASE Put
  BY <1>7 DEF Put, LedgerInv, Known, Settled
<1>8. CASE Busy
  BY <1>8 DEF Busy, LedgerInv, Known, Settled, box
<1>9. CASE Finish
  BY <1>9 DEF Finish, NoTick, LedgerInv, Known, Settled, box
<1>10. CASE TickFails
  BY <1>10 DEF TickFails, NoTick, LedgerInv, Known, Settled, box
<1>11. CASE PullCopies
  BY <1>11 DEF PullCopies, Taken, Over, LedgerInv, Known, Settled, Waiting, box
<1>12. CASE PullDeletes
  BY <1>12 DEF PullDeletes, LedgerInv, Known, Settled, Waiting
<1>13. CASE PullFails
  BY <1>13 DEF PullFails, LedgerInv, Known, Settled, box
<1>14. CASE UNCHANGED matching
  BY <1>14 DEF matching, LedgerInv, Known, Settled, box
<1>15. CASE Play
  BY <1>15 DEF Play, Newest, LedgerInv, Known, Settled
<1>16. CASE Deliver
  BY <1>16 DEF Deliver, LedgerInv, Known, Settled, Waiting, TypeOK
<1>17. CASE Mark
  BY <1>17 DEF Mark, Polling, LedgerInv, Known, Settled
<1>18. CASE Stop
  BY <1>18 DEF Stop, Polling, LedgerInv, Known, Settled
<1>19. CASE Start
  BY <1>19 DEF Start, LedgerInv, Known, Settled
<1>20. CASE Replace
  <2>1. Waiting(out') = {}
    BY <1>20 DEF Replace, Fresh, NoResults, Waiting
  <2>2. tick'.at = "none" /\ worker'.at = "poll"
    BY <1>20 DEF Replace, LedgerInv
  <2>3. QED
    BY <2>1, <2>2 DEF LedgerInv
<1>21. CASE Lose
  BY <1>21 DEF Lose, Fresh, Polling, NoResults, LedgerInv, Settled, Waiting
<1>22. CASE Crash
  BY <1>22 DEF Crash, NoTick, LedgerInv, Known, Settled, box
<1>23. QED
  BY <1>1, <1>2, <1>3, <1>4, <1>5, <1>6, <1>7, <1>8, <1>9, <1>10, <1>11, <1>12, <1>13,
     <1>14, <1>15, <1>16, <1>17, <1>18, <1>19, <1>20, <1>21, <1>22
     DEF Next, Tick, Transfer, Train, Work, Save, Send, SendFails, Collect, Install,
         TrainerFinishes, Interrupt, LoseHome, vars

\* A tick assigns only what is neither recorded nor on its way, but for what was once
\* quarantined (the inbox as the ledger of assignments).
THEOREM NothingInTransitAssigned == Spec => NoReplayInTransit
<1> DEFINE Step == \A g \in inbox' \ inbox : g \notin quarantined => g \notin InTransit
<1>1. Init => LedgerInv
  BY DEF Init, LedgerInv, Polling, NoTick, Waiting, NoResults
<1>2. TypeOK /\ LedgerInv /\ [Next]_vars => [Step]_vars
  <2> SUFFICES ASSUME TypeOK, LedgerInv, Next PROVE Step
    OBVIOUS
  <2>1. CASE Put
    BY <2>1 DEF Put, LedgerInv, Known, Settled, InTransit
  <2>2. inbox' \subseteq inbox \/ Put
    BY DEF Next, Tick, Transfer, Train, Work, Begin, Ingest, Unlink, Choose, List, Clear,
           Busy, Finish, TickFails, PullCopies, PullDeletes, PullFails, Save, Send,
           SendFails, Collect, Install, TrainerFinishes, Interrupt, LoseHome, matching, Play,
           Deliver, Mark, Stop, Start, Replace, Lose, Crash, Fresh, box
  <2>3. QED
    BY <2>1, <2>2
<1>3. QED
  BY <1>1, <1>2, LedgerStep, TypeCorrect, PTL DEF Spec, NoReplayInTransit
=============================================================================
