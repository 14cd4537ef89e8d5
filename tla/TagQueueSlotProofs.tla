------------------------ MODULE TagQueueSlotProofs ------------------------
(***************************************************************************)
(* More proofs about the tag queue, for every pool, set of tags and roles: *)
(* whose slots are where, what a drain leaves behind, and where a released *)
(* tag goes.                                                               *)
(*                                                                         *)
(* Some of them hold only for part of the operator's commands and of the   *)
(* faults; each theorem assumes just that part, and says why.              *)
(***************************************************************************)
EXTENDS TagQueueProofs

-----------------------------------------------------------------------------
\* The steps, by what they change.

\* A lease: one begins, ends, or changes its phase.
LeaseSteps ==
  \/ \E m \in Machines :
       \/ Requeue(m) \/ (StopRental(m) /\ (StopPlaced(m) \/ StopHeld(m)))
       \/ LeaseOrphaned(m) \/ CompleteReservation(m) \/ FailLease(m)
       \/ CompleteLease(m) \/ HandOver(m) \/ FinishRelease(m) \/ LoseMachine(m)
       \/ LaunchRefused(m)
  \/ ReconcileRentals
  \/ \E i \in DOMAIN queue, m \in Machines :
       Place(i, m) \/ RecordRental(i, m) \/ StartRental(i, m)
  \/ \E i \in DOMAIN queue, m \in Machines, S \in SUBSET Slots : PlaceRaises(i, m, S)

\* A slot, and no lease.
SlotSteps ==
  \/ \E t \in Tags : DeleteTask(t)
  \/ \E t \in Tags, S \in SUBSET Slots : DeletePartway(t, S)
  \/ \E t \in Tags, r \in Roles :
       StartSlot(t, r) \/ PauseSlot(t, r) \/ RemoveSlot(t, r)
       \/ NoteFinished(t, r) \/ NoteFailed(t, r)
  \/ \E m \in Machines :
       \/ Release(m) \/ StartReserved(m) \/ PauseFailed(m)
       \/ \E wanted \in BOOLEAN : ReservationRaises(m, wanted)
       \/ \E S \in SUBSET Slots : FinishPartway(m, S)
       \/ \E r \in Roles : CreateReserved(m, r) \/ LoseSlot(m, r)
  \/ \E i \in DOMAIN queue, m \in Machines, S \in SUBSET Slots : RentalRaises(i, m, S)

\* A worker or its container, and neither.
WorkSteps ==
  \/ \E t \in Tags, r \in Roles : WorkerExits(t, r) \/ StopWorker(t, r) \/ StartWorker(t, r)
  \/ \E m \in Machines : InstanceLost(m)

\* A drain, and what it sweeps.
DrainSteps ==
  \/ \E m \in Machines : ResubmitDrain(m) \/ DrainFailed(m) \/ DrainRaises(m) \/ DrainDone(m)
  \/ \E m \in Machines, r \in Roles : DrainSlot(m, r)
  \/ Crash

\* None of these.
Calm == /\ UNCHANGED <<lease, slot, host, work, out, drain, left>>
        /\ exists \subseteq exists'

LEMMA StepKinds ==
  ASSUME [Next]_vars
  PROVE  LeaseSteps \/ SlotSteps \/ WorkSteps \/ DrainSteps \/ Calm
<1>1. CASE UNCHANGED vars
  BY <1>1 DEF vars, store, world, threads, Calm
<1>2. CASE Commands
  <2>1. ASSUME NEW t \in Tags, CreateTask(t) \/ Enqueue(t) PROVE Calm
    BY <2>1 DEF CreateTask, Enqueue, threads, world, Calm
  <2>2. ASSUME NEW i \in DOMAIN queue, Dequeue(i) \/ Move(i) PROVE Calm
    BY <2>2 DEF Dequeue, Move, threads, world, Calm
  <2>3. ASSUME NEW m \in Machines, AddMachine(m) \/ RemoveMachine(m) PROVE Calm
    BY <2>3 DEF AddMachine, RemoveMachine, threads, world, Calm
  <2>4. ASSUME StopCloud \/ RemoveCapacity \/ \E n \in 0 .. MaxCap : SetCap(n) PROVE Calm
    BY <2>4 DEF StopCloud, RemoveCapacity, SetCap, threads, world, Calm
  <2>5. ASSUME NEW m \in Machines, Release(m) \/ Requeue(m) PROVE LeaseSteps \/ SlotSteps
    BY <2>5, Zenon DEF LeaseSteps, SlotSteps
  <2>6. ASSUME NEW t \in Tags, \/ DeleteTask(t)
                              \/ \E S \in SUBSET Slots : DeletePartway(t, S)
                              \/ \E r \in Roles : \/ StartSlot(t, r) \/ PauseSlot(t, r)
                                                  \/ RemoveSlot(t, r)
        PROVE  SlotSteps
    BY <2>6, Zenon DEF SlotSteps
  <2>7. QED
    BY <1>2, <2>1, <2>2, <2>3, <2>4, <2>5, <2>6, Zenon DEF Commands
<1>3. CASE StopStep
  <2>1. CASE StopEnds
    BY <2>1 DEF StopEnds, store, threads, world, Calm
  <2>2. ASSUME NEW m \in Machines, StopRental(m), StopUnleased(m) \/ StopReleasing(m)
        PROVE  Calm
    BY <2>2 DEF StopRental, StopUnleased, StopReleasing, Calm
  <2>3. ASSUME NEW m \in Machines, StopRental(m)
        PROVE  LeaseSteps \/ Calm
    <3>1. StopUnleased(m) \/ StopReleasing(m) \/ StopPlaced(m) \/ StopHeld(m)
      BY <2>3 DEF StopRental
    <3>2. QED
      BY <2>2, <2>3, <3>1 DEF LeaseSteps
  <2>4. QED
    BY <1>3, <2>1, <2>3 DEF StopStep
<1>4. CASE Tick
  <2>1. ASSUME \/ TickStarts \/ StaleDropped \/ AdvanceBuilds \/ ListingFails
               \/ LoseLease \/ LeasesAdvanced \/ Placed \/ TickEnds
        PROVE  Calm
    BY <2>1 DEF TickStarts, StaleDropped, AdvanceBuilds, ListingFails, LoseLease,
       LeasesAdvanced, Placed, TickEnds, store, threads, world, Calm
  <2>2. ASSUME NEW i \in DOMAIN queue, DropStaleEntry(i) PROVE Calm
    BY <2>2 DEF DropStaleEntry, threads, world, Calm
  <2>3. ASSUME NEW m \in Machines, LeaseWaits(m) \/ Launch(m) PROVE Calm
    BY <2>3 DEF LeaseWaits, Launch, store, threads, world, Calm
  <2>4. ASSUME NEW m \in Machines, AdvanceLease(m)
        PROVE  LeaseSteps \/ SlotSteps \/ DrainSteps \/ Calm
    BY <2>3, <2>4, Zenon DEF AdvanceLease, LeaseSteps, SlotSteps, DrainSteps
  <2>5. QED
    BY <1>4, <2>1, <2>2, <2>3, <2>4, Zenon DEF Tick, LeaseSteps, SlotSteps
<1>5. CASE Threads
  <2>1. ASSUME NEW t \in Tags, BuildEnds(t) PROVE Calm
    BY <2>1 DEF BuildEnds, store, world, Calm
  <2>2. QED
    BY <1>5, <2>1, Zenon DEF Threads, DrainSteps
<1>6. CASE Workers
  BY <1>6, Zenon DEF Workers, WorkSteps, SlotSteps
<1>7. CASE World
  <2>1. ASSUME NEW m \in Machines, HandRun(m) PROVE Calm
    BY <2>1 DEF HandRun, store, threads, Calm
  <2>2. QED
    BY <1>7, <2>1, Zenon DEF World, DrainSteps, WorkSteps
<1>8. QED
  BY <1>1, <1>2, <1>3, <1>4, <1>5, <1>6, <1>7 DEF Next

-----------------------------------------------------------------------------
\* Where the slots are.

\* No machine gets a tag, ...
NoNewTag == \A m \in Machines : lease'[m].tag \in {lease[m].tag, NoTag}

\* ... and no role a slot, or a slot another machine.
SlotsStay == \A x \in Slots : slot'[x] # "none" => slot[x] # "none" /\ host'[x] = host[x]

\* The steps that start a lease, or a slot.
Places ==
  \/ \E i \in DOMAIN queue, m \in Machines :
       Place(i, m) \/ RecordRental(i, m) \/ StartRental(i, m)
  \/ \E i \in DOMAIN queue, m \in Machines, S \in SUBSET Slots :
       PlaceRaises(i, m, S) \/ RentalRaises(i, m, S)
  \/ \E m \in Machines, r \in Roles : CreateReserved(m, r)

\* The change of one lease, of the same tag or of none.
LEMMA OneLeaseChanges ==
  ASSUME TypeOK, NEW m \in Machines, NEW l, lease' = [lease EXCEPT ![m] = l],
         l.tag = lease[m].tag \/ l = NoLease
  PROVE  NoNewTag
BY DEF TypeOK, NoNewTag, NoLease

\* A change of phase keeps the tag.
LEMMA PhaseTag ==
  ASSUME NEW l, NEW p PROVE InPhase(l, p).tag = l.tag
BY DEF InPhase, Lease

LEMMA TagsStay ==
  ASSUME TypeOK, LeaseSteps
  PROVE  NoNewTag \/ Places
<1>1. ASSUME NEW m \in Machines, NEW l, StartRelease(m, l), l.tag = lease[m].tag
      PROVE  NoNewTag
  BY <1>1, OneLeaseChanges, PhaseTag DEF StartRelease
<1>2. ASSUME NEW m \in Machines, Requeue(m) \/ (StopRental(m) /\ StopPlaced(m))
      PROVE  NoNewTag
  <2>1. RequeueLease(m) /\ Lease(lease[m].tag, lease[m].phase, TRUE).tag = lease[m].tag
    BY <1>2 DEF Requeue, StopPlaced, Lease
  <2>2. QED
    BY <1>1, <2>1 DEF RequeueLease
<1>3. ASSUME NEW m \in Machines,
             \/ StopRental(m) /\ StopHeld(m)
             \/ CompleteLease(m) \/ HandOver(m)
      PROVE  NoNewTag
  BY <1>1, <1>3 DEF StopHeld, CompleteLease, HandOver
<1>4. ASSUME NEW m \in Machines, FailLease(m) PROVE NoNewTag
  BY <1>1, <1>4, OneLeaseChanges, PhaseTag DEF FailLease
<1>5. ASSUME NEW m \in Machines, CompleteReservation(m) PROVE NoNewTag
  BY <1>5, OneLeaseChanges, PhaseTag DEF CompleteReservation
<1>6. ASSUME NEW m \in Machines,
             LeaseOrphaned(m) \/ FinishRelease(m) \/ LoseMachine(m) \/ LaunchRefused(m)
      PROVE  NoNewTag
  BY <1>6, OneLeaseChanges DEF LeaseOrphaned, FinishRelease, LoseMachine, LaunchRefused
<1>7. ASSUME ReconcileRentals PROVE NoNewTag
  <2>1. \A m \in Machines : lease'[m] \in {lease[m], NoLease}
    BY <1>7 DEF ReconcileRentals
  <2>2. QED
    BY <2>1 DEF NoNewTag, NoLease
<1>8. QED
  BY <1>2, <1>3, <1>4, <1>5, <1>6, <1>7, Zenon DEF LeaseSteps, Places

LEMMA SlotsStayPut ==
  ASSUME TypeOK, AddedThere, LeaseSteps \/ SlotSteps
  PROVE  SlotsStay \/ Places
<1> USE DEF SlotsStay
<1>1. ASSUME NEW t, PauseSlots(t), host' = host PROVE SlotsStay
  BY <1>1 DEF PauseSlots
<1>2. ASSUME NEW S, DropSlots(S) PROVE SlotsStay
  BY <1>2 DEF DropSlots
<1>3. ASSUME UNCHANGED <<slot, host>> PROVE SlotsStay
  BY <1>3
<1>4. ASSUME NEW m \in Machines,
             \/ Requeue(m)
             \/ StopRental(m) /\ (StopPlaced(m) \/ StopHeld(m))
             \/ PauseFailed(m) \/ FailLease(m)
      PROVE  SlotsStay
  BY <1>1, <1>3, <1>4 DEF Requeue, StopRental, StopPlaced, StopHeld, PauseFailed, FailLease,
     RequeueLease
<1>5. ASSUME NEW m \in Machines, \/ LeaseOrphaned(m) \/ CompleteReservation(m)
                                 \/ CompleteLease(m) \/ HandOver(m)
                                 \/ LoseMachine(m) \/ LaunchRefused(m)
      PROVE  SlotsStay
  BY <1>3, <1>5 DEF LeaseOrphaned, CompleteReservation, CompleteLease, HandOver, LoseMachine,
     LaunchRefused
<1>6. ASSUME NEW m \in Machines, FinishRelease(m) \/ \E S \in SUBSET Slots : FinishPartway(m, S)
      PROVE  SlotsStay
  BY <1>2, <1>6 DEF FinishRelease, FinishPartway
<1>7. ASSUME ReconcileRentals PROVE SlotsStay
  BY <1>3, <1>7 DEF ReconcileRentals
<1>8. ASSUME NEW t \in Tags, DeleteTask(t) \/ \E S \in SUBSET Slots : DeletePartway(t, S)
      PROVE  SlotsStay
  BY <1>2, <1>8 DEF DeleteTask, DeletePartway
<1>9. ASSUME NEW t \in Tags, NEW r \in Roles,
             \/ StartSlot(t, r) \/ PauseSlot(t, r)
             \/ NoteFinished(t, r) \/ NoteFailed(t, r)
      PROVE  SlotsStay
  BY <1>9 DEF StartSlot, PauseSlot, NoteFinished, NoteFailed, TypeOK
<1>10. ASSUME NEW t \in Tags, NEW r \in Roles, RemoveSlot(t, r) PROVE SlotsStay
  BY <1>2, <1>10 DEF RemoveSlot
<1>11. ASSUME NEW m \in Machines,
              \/ Release(m) \/ StartReserved(m)
              \/ \E wanted \in BOOLEAN : ReservationRaises(m, wanted)
       PROVE  SlotsStay
  BY <1>11 DEF Release, StartReserved, ReservationRaises, AddedThere
<1>12. ASSUME NEW m \in Machines, NEW r \in Roles, LoseSlot(m, r) PROVE SlotsStay
  BY <1>2, <1>12 DEF LoseSlot
<1> HIDE DEF SlotsStay
<1>13. ASSUME LeaseSteps PROVE SlotsStay \/ Places
  BY <1>4, <1>5, <1>6, <1>7, <1>13, Zenon DEF LeaseSteps, Places
<1>14. ASSUME SlotSteps PROVE SlotsStay \/ Places
  BY <1>4, <1>6, <1>8, <1>9, <1>10, <1>11, <1>12, <1>14, Zenon DEF SlotSteps, Places
<1>15. QED
  BY <1>13, <1>14

\* A queued tag leases no other machine when the pass places it.
LEMMA PlacedAlone ==
  ASSUME PlacementInv, NEW i \in DOMAIN queue, NEW m \in Machines,
         at \in {"placing", "renting"}, lease[m].tag = queue[i].tag
  PROVE  FALSE
<1>1. queue[i].tag \in Tags /\ queue[i].tag \in Queued
  BY QueueSorts DEF PlacementInv, Queued
<1>2. lease[m] # NoLease
  BY <1>1, LeaseSorts DEF PlacementInv
<1>3. m \in DoublyKnown
  BY <1>1, <1>2 DEF DoublyKnown
<1>4. QED
  BY <1>3 DEF PlacementInv, StaleEntriesGone

\* A queued tag has no slot.
LEMMA QueuedBare ==
  ASSUME PlacementInv, NEW i \in DOMAIN queue, NEW x \in Slots, x[1] = queue[i].tag
  PROVE  slot[x] = "none"
<1>1. queue[i].tag \in Queued
  BY DEF Queued
<1>2. PICK t \in Tags, r \in Roles : x = <<t, r>>
  BY DEF Slots
<1>3. t = queue[i].tag
  BY <1>2
<1>4. ~HasSlots(t)
  BY <1>1, <1>3 DEF PlacementInv, QueuedWithoutSlots
<1>5. QED
  BY <1>2, <1>4 DEF HasSlots

\* The slots of a leased tag stay on its machine.
LEMMA AtLeaseStep ==
  ASSUME PlacementInv, SlotsAtLease, [Next]_vars
  PROVE  SlotsAtLease'
<1>k. TypeOK /\ AddedThere
  BY DEF PlacementInv
<1>1. ASSUME NoNewTag, SlotsStay PROVE SlotsAtLease'
  <2> SUFFICES ASSUME NEW m \in Machines, NEW x \in Slots,
                      lease'[m].tag = x[1], slot'[x] # "none"
               PROVE  host'[x] = m
    BY DEF SlotsAtLease
  <2>1. x[1] # NoTag
    BY NullAssumption DEF Slots
  <2>2. lease[m].tag = x[1] /\ slot[x] # "none" /\ host'[x] = host[x]
    BY <1>1, <2>1 DEF NoNewTag, SlotsStay
  <2>3. QED
    BY <2>2 DEF SlotsAtLease
<1>2. ASSUME NEW i \in DOMAIN queue, NEW m \in Machines,
             \A n \in Machines : n # m => lease[n].tag # queue[i].tag /\ lease'[n] = lease[n],
             lease'[m].tag = queue[i].tag,
             \A x \in Slots : IF slot'[x] = slot[x] THEN host'[x] = host[x]
                                                  ELSE x[1] = queue[i].tag /\ host'[x] = m
      PROVE  SlotsAtLease'
  <2> SUFFICES ASSUME NEW n \in Machines, NEW x \in Slots,
                      lease'[n].tag = x[1], slot'[x] # "none"
               PROVE  host'[x] = n
    BY DEF SlotsAtLease
  <2>1. CASE n = m
    <3>1. x[1] = queue[i].tag
      BY <1>2, <2>1
    <3>2. slot[x] = "none"
      BY <3>1, QueuedBare
    <3>3. slot'[x] # slot[x]
      BY <3>2
    <3>4. QED
      BY <1>2, <2>1, <3>3
  <2>2. CASE n # m
    <3>1. lease[n].tag = x[1] /\ x[1] # queue[i].tag
      BY <1>2, <2>2
    <3>2. slot'[x] = slot[x] /\ host'[x] = host[x]
      BY <1>2, <3>1
    <3>3. QED
      BY <3>1, <3>2 DEF SlotsAtLease
  <2>3. QED
    BY <2>1, <2>2
<1>3. ASSUME NEW i \in DOMAIN queue, NEW m \in Machines,
             \/ Place(i, m) \/ RecordRental(i, m)
             \/ \E S \in SUBSET Slots : PlaceRaises(i, m, S)
      PROVE  SlotsAtLease'
  <2>1. /\ at \in {"placing", "renting"}
        /\ \E p : lease' = [lease EXCEPT ![m] = Lease(queue[i].tag, p, FALSE)]
    BY <1>3 DEF Place, RecordRental, PlaceRaises
  <2>2. \A n \in Machines : n # m => lease[n].tag # queue[i].tag /\ lease'[n] = lease[n]
    BY <1>k, <2>1, PlacedAlone DEF TypeOK
  <2>3. lease'[m].tag = queue[i].tag
    BY <1>k, <2>1 DEF TypeOK, Lease
  <2>4. \A x \in Slots : IF slot'[x] = slot[x] THEN host'[x] = host[x]
                                              ELSE x[1] = queue[i].tag /\ host'[x] = m
    <3>1. CASE Place(i, m)
      BY <3>1 DEF Place, StartSlots
    <3>2. CASE RecordRental(i, m)
      BY <3>2 DEF RecordRental
    <3>3. ASSUME NEW S \in SUBSET Slots, PlaceRaises(i, m, S)
          PROVE  \A x \in Slots : IF slot'[x] = slot[x] THEN host'[x] = host[x]
                                                      ELSE x[1] = queue[i].tag /\ host'[x] = m
      BY <3>3 DEF PlaceRaises
    <3>4. QED
      BY <1>3, <3>1, <3>2, <3>3
  <2>5. QED
    BY <1>2, <2>2, <2>3, <2>4
<1>4. ASSUME NEW i \in DOMAIN queue, NEW m \in Machines,
             StartRental(i, m) \/ \E S \in SUBSET Slots : RentalRaises(i, m, S)
      PROVE  SlotsAtLease'
  <2>1. /\ lease[m].tag = queue[i].tag
        /\ lease' \in {lease, [lease EXCEPT ![m] = InPhase(lease[m], "running")]}
    BY <1>4 DEF StartRental, RentalRaises, LeasedOn
  <2>2. lease[m] # NoLease
    BY <1>k, <2>1, LeaseSorts, QueueSorts
  <2>3. \A n \in Machines : n # m => lease[n].tag # queue[i].tag /\ lease'[n] = lease[n]
    BY <1>k, <2>1, <2>2 DEF TypeOK, PlacementInv, OneLeasePerTag
  <2>4. lease'[m].tag = queue[i].tag
    BY <1>k, <2>1, PhaseTag DEF TypeOK
  <2>5. \A x \in Slots : IF slot'[x] = slot[x] THEN host'[x] = host[x]
                                              ELSE x[1] = queue[i].tag /\ host'[x] = m
    BY <1>k, <1>4 DEF StartRental, RentalRaises, StartSlots, TypeOK
  <2>6. QED
    BY <1>2, <2>3, <2>4, <2>5
<1>5. ASSUME NEW m \in Machines, NEW r \in Roles, CreateReserved(m, r)
      PROVE  SlotsAtLease'
  <2>1. lease[m].phase = "reserved"
    BY <1>5 DEF CreateReserved, Completing
  <2>2. lease[m] # NoLease
    BY <2>1 DEF NoLease
  <2>3. \A n \in Machines : lease[n].tag = lease[m].tag => n = m
    BY <2>2 DEF PlacementInv, OneLeasePerTag
  <2>4. lease' = lease /\ \A x \in Slots :
          IF x = <<lease[m].tag, r>>
            THEN host'[x] = m
            ELSE (slot'[x] = "none" <=> slot[x] = "none") /\ host'[x] = host[x]
    BY <1>k, <1>5 DEF CreateReserved, TypeOK, AddedThere
  <2>5. QED
    BY <2>3, <2>4 DEF SlotsAtLease
<1>6. CASE Places
  BY <1>3, <1>4, <1>5, <1>6, Zenon DEF Places
<1>7. CASE LeaseSteps
  BY <1>1, <1>6, <1>7, <1>k, TagsStay, SlotsStayPut
<1>8. CASE SlotSteps
  <2>1. lease' = lease
    BY <1>8 DEF SlotSteps, DeleteTask, DeletePartway, StartSlot, PauseSlot, RemoveSlot,
       NoteFinished, NoteFailed, Release, StartReserved, PauseFailed, ReservationRaises,
     RentalRaises, FinishPartway, CreateReserved, LoseSlot
  <2>2. NoNewTag
    BY <2>1 DEF NoNewTag
  <2>3. QED
    BY <1>1, <1>6, <1>8, <1>k, <2>2, SlotsStayPut
<1>9. CASE WorkSteps \/ DrainSteps \/ Calm
  <2>1. UNCHANGED <<lease, slot, host>>
    BY <1>9 DEF WorkSteps, WorkerExits, StopWorker, StartWorker, InstanceLost, DrainSteps,
       ResubmitDrain, DrainFailed, DrainRaises, DrainDone, DrainSlot, Crash, Calm, store
  <2>2. QED
    BY <2>1 DEF SlotsAtLease
<1>10. QED
  BY <1>7, <1>8, <1>9, StepKinds

\* Where the writer goes in a step.
LEMMA WriterGoes ==
  ASSUME [Next]_vars
  PROVE  \/ at' \in {"idle", "stopping"}
         \/ Tick
         \/ UNCHANGED <<exists, queue, lease, writer>>
<1>1. CASE UNCHANGED vars
  BY <1>1 DEF vars, store
<1>2. CASE Commands
  BY <1>2 DEF Commands, Command, CreateTask, Enqueue, DeleteTask, DeletePartway, Dequeue, Move,
     Release, Requeue, AddMachine, RemoveMachine, StartSlot, PauseSlot, RemoveSlot, StopCloud,
     RemoveCapacity, SetCap, writer
<1>3. CASE StopStep
  BY <1>3 DEF StopStep, StopEnds, StopRental
<1>4. CASE Threads
  BY <1>4 DEF Threads, DrainRaises, DrainDone, DrainSlot, BuildEnds, store
<1>5. CASE Workers
  <2>1. ASSUME NEW t \in Tags, NEW r \in Roles,
               \/ WorkerExits(t, r) \/ StopWorker(t, r) \/ StartWorker(t, r)
               \/ NoteFinished(t, r) \/ NoteFailed(t, r)
        PROVE  UNCHANGED <<exists, queue, lease, writer>>
    BY <2>1 DEF WorkerExits, StopWorker, StartWorker, NoteFinished, NoteFailed, store
  <2>2. QED
    BY <1>5, <2>1 DEF Workers
<1>6. CASE World
  BY <1>6 DEF World, Crash, InstanceLost, HandRun, store
<1>7. QED
  BY <1>1, <1>2, <1>3, <1>4, <1>5, <1>6 DEF Next

\* No pass deletes a task, and from the stale entries on each tag that it finds
\* queued, or queues, has one.
LEMMA EntriesStep ==
  ASSUME PlacementInv, EntriesExist, [Next]_vars
  PROVE  EntriesExist'
<1>k. TypeOK /\ QueuedOnce
  BY DEF PlacementInv
<1>1. CASE at' \in {"idle", "stopping", "dropping"}
  BY <1>1 DEF EntriesExist
<1>2. CASE UNCHANGED <<exists, queue, lease, writer>>
  BY <1>2 DEF EntriesExist, writer, Queued
<1>3. ASSUME at \notin {"idle", "stopping", "dropping", "lost"},
             at' # "lost", exists' = exists, Queued' \subseteq Queued
      PROVE  EntriesExist'
  BY <1>3 DEF EntriesExist
<1>4. CASE StaleDropped
  <2>1. exists' = exists /\ queue' = queue /\ at' = "builds"
        /\ \A i \in DOMAIN queue : queue[i].tag \in exists
    BY <1>4 DEF StaleDropped, Stale, store
  <2>2. QED
    BY <2>1 DEF EntriesExist, Queued
<1>5. CASE TickStarts \/ TickEnds \/ \E i \in DOMAIN queue : DropStaleEntry(i)
  <2>1. at' \in {"idle", "dropping"}
    BY <1>5 DEF TickStarts, TickEnds, DropStaleEntry, writer
  <2>2. QED
    BY <1>1, <2>1
<1>6. CASE AdvanceBuilds
  <2>1. at = "builds" /\ at' = "rentals" /\ exists' = exists
        /\ DOMAIN queue' = DOMAIN queue
        /\ \A i \in DOMAIN queue : queue'[i].tag = queue[i].tag
    BY <1>6 DEF AdvanceBuilds, Entry
  <2>2. QED
    BY <1>3, <2>1 DEF Queued
<1>7. CASE ListingFails \/ ReconcileRentals \/ LeasesAdvanced \/ Placed
  <2>1. /\ at \in {"rentals", "leases", "placing"}
        /\ at' \in {"leases", "placing", "renting"}
        /\ exists' = exists /\ queue' = queue
    BY <1>7 DEF ListingFails, ReconcileRentals, LeasesAdvanced, Placed, store
  <2>2. QED
    BY <1>3, <2>1 DEF Queued
<1>8. ASSUME NEW m \in Machines, FinishRelease(m) PROVE EntriesExist'
  <2>1. at = "leases" /\ at' = "leases" /\ exists' = exists /\ lease[m].tag \in exists
    BY <1>8 DEF FinishRelease, Advance, Visit
  <2>2. PICK t \in Tags : t = lease[m].tag
    BY <2>1, <1>k DEF TypeOK
  <2>3. Queued' \subseteq Queued \cup {t}
    <3>1. CASE queue' = queue
      BY <3>1 DEF Queued
    <3>2. CASE queue' = <<Requeued(t)>> \o queue
      <4>1. t \notin Queued
        <5>1. lease[m] # NoLease
          BY <2>2, <1>k, LeaseSorts
        <5>2. QED
          BY <5>1, <2>1, <2>2, VisitKnown DEF VisitStages
      <4>2. Requeued(t) \in Entries /\ Requeued(t).tag = t /\ queue \in Seq(Entries)
        BY <1>k, RequeuedEntry DEF TypeOK
      <4>3. QED
        BY <1>k, <3>2, <4>1, <4>2, EntryPrepended
    <3>3. QED
      BY <1>8, <2>2, <3>1, <3>2 DEF FinishRelease
  <2>4. QED
    BY <2>1, <2>2, <2>3 DEF EntriesExist
<1>9. ASSUME NEW m \in Machines, LoseMachine(m) PROVE EntriesExist'
  <2>1. at \in {"leases", "losing"} /\ exists' = exists /\ queue' = queue
        /\ carry' = lease[m] /\ lease[m].tag \in exists
    BY <1>9 DEF LoseMachine
  <2>2. QED
    BY <2>1 DEF EntriesExist, Queued
<1>10. CASE LoseLease
  <2>1. at = "lost" /\ at' = "leases" /\ exists' = exists /\ carry.tag \in exists
    BY <1>10 DEF LoseLease, EntriesExist
  <2>2. PICK t \in Tags : t = carry.tag
    BY <2>1, <1>k DEF TypeOK
  <2>3. Queued' \subseteq Queued \cup {t}
    <3>1. CASE queue' = queue
      BY <3>1 DEF Queued
    <3>2. CASE queue' = <<Requeued(t)>> \o queue
      <4>1. t \notin Queued
        BY <2>1, <2>2 DEF PlacementInv, LostTagOut
      <4>2. Requeued(t) \in Entries /\ Requeued(t).tag = t /\ queue \in Seq(Entries)
        BY <1>k, RequeuedEntry DEF TypeOK
      <4>3. QED
        BY <1>k, <3>2, <4>1, <4>2, EntryPrepended
    <3>3. QED
      BY <1>10, <2>2, <3>1, <3>2 DEF LoseLease
  <2>4. QED
    BY <2>1, <2>2, <2>3 DEF EntriesExist
<1>11. ASSUME NEW m \in Machines,
              \/ LeaseOrphaned(m) \/ CompleteReservation(m) \/ FailLease(m)
              \/ CompleteLease(m) \/ HandOver(m) \/ ResubmitDrain(m) \/ DrainFailed(m)
              \/ LeaseWaits(m) \/ StartReserved(m) \/ PauseFailed(m)
              \/ \E wanted \in BOOLEAN : ReservationRaises(m, wanted)
              \/ \E S \in SUBSET Slots : FinishPartway(m, S)
              \/ \E r \in Roles : CreateReserved(m, r) \/ LoseSlot(m, r)
              \/ Launch(m)
       PROVE  EntriesExist'
  <2>1. /\ at \in {"leases", "starting", "losing", "launching"}
        /\ at' \in {"leases", "starting", "losing", "launched"}
        /\ exists' = exists /\ queue' = queue
    BY <1>11 DEF LeaseOrphaned, CompleteReservation, PauseFailed, FailLease, CompleteLease,
       HandOver, ResubmitDrain, DrainFailed, LeaseWaits, StartReserved, ReservationRaises,
       FinishPartway, CreateReserved, LoseSlot, Launch, Advance, Visit, Completing, writer, store
  <2>2. QED
    BY <1>3, <2>1 DEF Queued
<1>12. ASSUME NEW m \in Machines, LaunchRefused(m) PROVE EntriesExist'
  BY <1>1, <1>12 DEF LaunchRefused
<1>13. ASSUME NEW i \in DOMAIN queue, NEW m \in Machines,
              \/ Place(i, m) \/ StartRental(i, m)
              \/ \E S \in SUBSET Slots : PlaceRaises(i, m, S) \/ RentalRaises(i, m, S)
       PROVE  EntriesExist'
  <2>1. /\ at \in {"placing", "launched"} /\ at' \in {"placing", "renting", "idle"}
        /\ exists' = exists /\ queue' = RemoveAt(queue, i)
    BY <1>13 DEF Place, StartRental, PlaceRaises, RentalRaises
  <2>2. Queued' \subseteq Queued
    BY <1>k, <2>1, EntryRemoved DEF TypeOK
  <2>3. QED
    BY <1>3, <2>1, <2>2
<1>14. ASSUME NEW i \in DOMAIN queue, NEW m \in Machines, RecordRental(i, m)
       PROVE  EntriesExist'
  <2>1. at = "renting" /\ at' = "launching" /\ exists' = exists /\ queue' = queue
    BY <1>14 DEF RecordRental
  <2>2. QED
    BY <1>3, <2>1 DEF Queued
<1>15. CASE Tick
  <2>1. ASSUME NEW m \in Machines, AdvanceLease(m) PROVE EntriesExist'
    BY <1>8, <1>9, <1>11, <2>1, Zenon DEF AdvanceLease
  <2>2. QED
    BY <1>4, <1>5, <1>6, <1>7, <1>10, <1>11, <1>12, <1>13, <1>14, <1>15, <2>1, Zenon DEF Tick
<1>16. QED
  BY <1>1, <1>2, <1>15, WriterGoes

\* Where the writer is about to place, to rent or to start, what it works from
\* stays so: only this pass changes it.
LEMMA StagesStep ==
  ASSUME PlacementInv, PlanFree, RentalReserved, StartingReserved, [Next]_vars
  PROVE  PlanFree' /\ RentalReserved' /\ StartingReserved'
<1>k. TypeOK /\ AddedThere
  BY DEF PlacementInv
<1> DEFINE P == PlanFree' /\ RentalReserved' /\ StartingReserved'
<1>1. CASE at' \notin {"placing", "launching", "launched", "starting"}
  BY <1>1 DEF PlanFree, RentalReserved, StartingReserved
<1>2. CASE UNCHANGED <<exists, queue, lease, writer>>
  BY <1>2 DEF PlanFree, RentalReserved, StartingReserved, writer, Queued
<1>3. CASE LeasesAdvanced
  <2>1. /\ at' = "placing" /\ lease' = lease /\ pool' = pool
        /\ plan' \in Matchings(QueueOrder, Eligible)
    BY <1>3 DEF LeasesAdvanced, store
  <2>2. IsMatching(plan') /\ plan' \subseteq Eligible
    BY <2>1 DEF Matchings
  <2>3. \A p \in plan' : lease[p[2]] = NoLease
    BY <2>2 DEF Eligible, Free
  <2>4. PlanFree'
    BY <2>1, <2>2, <2>3 DEF PlanFree, IsMatching
  <2>5. QED
    BY <2>1, <2>4 DEF RentalReserved, StartingReserved
<1>4. ASSUME NEW i \in DOMAIN queue, NEW m \in Machines, Place(i, m) PROVE P
  <2>1. /\ at = "placing" /\ at' = "placing" /\ <<queue[i].tag, m>> \in plan
        /\ lease' = [lease EXCEPT ![m] = Lease(queue[i].tag, "running", FALSE)]
        /\ plan' = plan \ {<<queue[i].tag, m>>}
    BY <1>4 DEF Place
  <2>2. IsMatching(plan)
    BY <2>1 DEF PlanFree
  <2>3. ASSUME NEW p \in plan' PROVE lease'[p[2]] = NoLease
    <3>1. p \in plan /\ p # <<queue[i].tag, m>> /\ p \in Tags \X Machines
      BY <1>k, <2>1 DEF TypeOK
    <3>2. p[2] # m
      BY <2>1, <2>2, <3>1 DEF IsMatching
    <3>3. QED
      BY <2>1, <3>1, <3>2, <1>k DEF PlanFree, TypeOK
  <2>4. IsMatching(plan')
    BY <2>1, <2>2 DEF IsMatching
  <2>5. PlanFree'
    BY <2>3, <2>4 DEF PlanFree, IsMatching
  <2>6. QED
    BY <2>1, <2>5 DEF RentalReserved, StartingReserved
<1>5. ASSUME NEW i \in DOMAIN queue, NEW m \in Machines, RecordRental(i, m) PROVE P
  <2>1. /\ at' = "launching" /\ todo' = {m} /\ queue' = queue
        /\ lease' = [lease EXCEPT ![m] = Lease(queue[i].tag, "reserved", FALSE)]
    BY <1>5 DEF RecordRental
  <2>2. lease'[m] = Lease(queue[i].tag, "reserved", FALSE) /\ lease'[m].tag = queue[i].tag
    BY <1>k, <2>1 DEF TypeOK, Lease
  <2>3. RentalReserved'
    BY <2>1, <2>2 DEF RentalReserved, Queued
  <2>4. QED
    BY <2>1, <2>3 DEF PlanFree, StartingReserved
<1>6. ASSUME NEW m \in Machines, Launch(m) PROVE P
  <2>1. at = "launching" /\ at' = "launched" /\ UNCHANGED <<todo, queue, lease>>
    BY <1>6 DEF Launch, store
  <2>2. QED
    BY <2>1 DEF PlanFree, RentalReserved, StartingReserved, Queued
<1>7. ASSUME NEW m \in Machines, NEW r \in Roles, CreateReserved(m, r) PROVE P
  <2>1. /\ at' = "starting" /\ carry' = lease[m] /\ lease[m].phase = "reserved"
        /\ added' = {<<lease[m].tag, r>>}
    BY <1>7 DEF CreateReserved, Completing
  <2>2. QED
    BY <2>1 DEF PlanFree, RentalReserved, StartingReserved
<1>8. ASSUME NEW m \in Machines, StartReserved(m) PROVE P
  <2>1. at = "starting" /\ UNCHANGED <<at, carry>> /\ added' = {}
    BY <1>8 DEF StartReserved
  <2>2. QED
    BY <2>1 DEF PlanFree, RentalReserved, StartingReserved
<1>9. CASE Tick
  <2>1. CASE \/ TickStarts \/ StaleDropped \/ AdvanceBuilds \/ ListingFails \/ ReconcileRentals
             \/ LoseLease \/ Placed \/ TickEnds \/ \E i \in DOMAIN queue : DropStaleEntry(i)
    <3>1. at' \notin {"placing", "launching", "launched", "starting"}
      BY <2>1 DEF TickStarts, StaleDropped, AdvanceBuilds, ListingFails, ReconcileRentals,
         LoseLease, Placed, TickEnds, DropStaleEntry, writer
    <3>2. QED
      BY <1>1, <3>1
  <2>2. ASSUME NEW m \in Machines,
               \/ LeaseOrphaned(m) \/ CompleteReservation(m) \/ FailLease(m)
               \/ CompleteLease(m) \/ HandOver(m) \/ ResubmitDrain(m) \/ DrainFailed(m)
               \/ FinishRelease(m) \/ LeaseWaits(m) \/ LoseMachine(m)
               \/ \E wanted \in BOOLEAN : ReservationRaises(m, wanted)
               \/ \E S \in SUBSET Slots : FinishPartway(m, S)
               \/ \E r \in Roles : LoseSlot(m, r)
               \/ LaunchRefused(m)
        PROVE  P
    <3>1. at' \notin {"placing", "launching", "launched", "starting"}
      BY <2>2 DEF LeaseOrphaned, CompleteReservation, FailLease, CompleteLease, HandOver,
         ResubmitDrain, DrainFailed, FinishRelease, LeaseWaits, LoseMachine, ReservationRaises,
         FinishPartway, LoseSlot, LaunchRefused, Advance, Visit
    <3>2. QED
      BY <1>1, <3>1
  <2>3. ASSUME NEW i \in DOMAIN queue, NEW m \in Machines,
               \/ StartRental(i, m)
               \/ \E S \in SUBSET Slots : PlaceRaises(i, m, S) \/ RentalRaises(i, m, S)
        PROVE  P
    <3>1. at' \notin {"placing", "launching", "launched", "starting"}
      BY <2>3 DEF StartRental, PlaceRaises, RentalRaises
    <3>2. QED
      BY <1>1, <3>1
  <2>p. ASSUME NEW m \in Machines, PauseFailed(m) PROVE P
    BY <1>2, <2>p DEF PauseFailed
  <2>4. ASSUME NEW m \in Machines, AdvanceLease(m) PROVE P
    BY <1>7, <1>8, <2>2, <2>p, <2>4, Zenon DEF AdvanceLease
  <2>5. QED
    BY <1>3, <1>4, <1>5, <1>6, <1>9, <2>1, <2>2, <2>3, <2>4, Zenon DEF Tick
<1>10. QED
  BY <1>1, <1>2, <1>9, WriterGoes

\* The other steps change no lease.
LEMMA OtherSteps ==
  ASSUME SlotSteps \/ WorkSteps \/ DrainSteps \/ Calm
  PROVE  lease' = lease
<1>1. CASE SlotSteps
  BY <1>1 DEF SlotSteps, DeleteTask, DeletePartway, StartSlot, PauseSlot, RemoveSlot,
     NoteFinished, NoteFailed, Release, StartReserved, PauseFailed, ReservationRaises,
     RentalRaises, FinishPartway, CreateReserved, LoseSlot
<1>2. CASE WorkSteps \/ DrainSteps \/ Calm
  BY <1>2 DEF WorkSteps, WorkerExits, StopWorker, StartWorker, InstanceLost, DrainSteps,
     ResubmitDrain, DrainFailed, DrainRaises, DrainDone, DrainSlot, Crash, Calm, store
<1>3. QED
  BY <1>1, <1>2

\* A lease is marked for requeueing only as its release starts.
LEMMA RequeueStep ==
  ASSUME PlacementInv, RentalReserved, RequeueReleases, [Next]_vars
  PROVE  RequeueReleases'
<1>k. TypeOK
  BY DEF PlacementInv
<1>1. ASSUME NEW m \in Machines, NEW l, lease' = [lease EXCEPT ![m] = l],
             l.requeue => l.phase = "releasing"
      PROVE  RequeueReleases'
  BY <1>1, <1>k DEF TypeOK, RequeueReleases
<1>2. \A l, p : InPhase(l, p).phase = p /\ InPhase(l, p).requeue = l.requeue
  BY DEF InPhase, Lease
<1>3. ASSUME NEW m \in Machines, NEW l, StartRelease(m, l) PROVE RequeueReleases'
  BY <1>1, <1>2, <1>3 DEF StartRelease
<1>4. ASSUME NEW m \in Machines,
             \/ Requeue(m) \/ (StopRental(m) /\ (StopPlaced(m) \/ StopHeld(m)))
             \/ CompleteLease(m) \/ HandOver(m)
      PROVE  RequeueReleases'
  BY <1>3, <1>4 DEF Requeue, StopPlaced, StopHeld, CompleteLease, HandOver, RequeueLease
<1>5. ASSUME NEW m \in Machines, FailLease(m) PROVE RequeueReleases'
  <2>1. lease[m].phase = "running"
    BY <1>5 DEF FailLease, Advance
  <2>2. InPhase(lease[m], "held").requeue => FALSE
    BY <1>2, <2>1 DEF RequeueReleases
  <2>3. QED
    BY <1>1, <1>3, <1>5, <2>2 DEF FailLease
<1>6. ASSUME NEW m \in Machines, CompleteReservation(m) PROVE RequeueReleases'
  <2>1. lease[m].phase = "reserved"
    BY <1>6 DEF CompleteReservation, Completing
  <2>2. InPhase(lease[m], "running").requeue => FALSE
    BY <1>2, <2>1 DEF RequeueReleases
  <2>3. QED
    BY <1>1, <1>6, <2>2 DEF CompleteReservation
<1>7. ASSUME NEW m \in Machines,
             LeaseOrphaned(m) \/ FinishRelease(m) \/ LoseMachine(m) \/ LaunchRefused(m)
      PROVE  RequeueReleases'
  <2>1. lease' = [lease EXCEPT ![m] = NoLease] /\ ~NoLease.requeue
    BY <1>7 DEF LeaseOrphaned, FinishRelease, LoseMachine, LaunchRefused, NoLease
  <2>2. QED
    BY <1>1, <2>1
<1>8. CASE ReconcileRentals
  <2>1. \A m \in Machines : lease'[m] \in {lease[m], NoLease}
    BY <1>8 DEF ReconcileRentals
  <2>2. QED
    BY <2>1 DEF RequeueReleases, NoLease
<1>9. ASSUME NEW i \in DOMAIN queue, NEW m \in Machines,
             \/ Place(i, m) \/ RecordRental(i, m)
             \/ \E S \in SUBSET Slots : PlaceRaises(i, m, S)
      PROVE  RequeueReleases'
  <2>1. /\ \E p : lease' = [lease EXCEPT ![m] = Lease(queue[i].tag, p, FALSE)]
        /\ \A t, p : ~Lease(t, p, FALSE).requeue
    BY <1>9 DEF Place, RecordRental, PlaceRaises, Lease
  <2>2. QED
    BY <1>1, <2>1
<1>10. ASSUME NEW i \in DOMAIN queue, NEW m \in Machines, StartRental(i, m)
       PROVE  RequeueReleases'
  <2>1. /\ at = "launched" /\ m \in todo
        /\ lease' = [lease EXCEPT ![m] = InPhase(lease[m], "running")]
    BY <1>10 DEF StartRental
  <2>2. ~lease[m].requeue
    <3>1. \A t : Lease(t, "reserved", FALSE).requeue = FALSE
      BY DEF Lease
    <3>2. lease[m] = Lease(lease[m].tag, "reserved", FALSE)
      BY <2>1 DEF RentalReserved
    <3>3. QED
      BY <3>1, <3>2, Zenon
  <2>3. QED
    BY <1>1, <1>2, <2>1, <2>2
<1>11. CASE lease' = lease
  BY <1>11 DEF RequeueReleases
<1>12. CASE LeaseSteps
  BY <1>4, <1>5, <1>6, <1>7, <1>8, <1>9, <1>10, <1>12, Zenon DEF LeaseSteps
<1>13. QED
  BY <1>11, <1>12, StepKinds, OtherSteps

-----------------------------------------------------------------------------
\* Where there is no slot, there is no worker and no container.

\* Nothing starts where no slot is, and each new slot's tag has its task.
LEMMA WholeKept ==
  ASSUME SlotsWhole, exists \subseteq exists',
         \A x \in Slots : slot'[x] = "none" =>
           slot[x] = "none" /\ work'[x] \in {work[x], "none"} /\ (x \in out' => x \in out),
         \A x \in Slots : slot'[x] # "none" /\ slot[x] = "none" => x[1] \in exists
  PROVE  SlotsWhole'
BY DEF SlotsWhole

\* Slots are dropped with what is on them.
LEMMA WholeDropped ==
  ASSUME SlotsWhole, NEW S, DropSlots(S), exists \subseteq exists'
  PROVE  SlotsWhole'
BY DEF SlotsWhole, DropSlots

LEMMA WholeStep ==
  ASSUME PlacementInv, EntriesExist, SlotsWhole, [Next]_vars
  PROVE  SlotsWhole'
<1>k. TypeOK /\ AddedThere
  BY DEF PlacementInv
<1>1. CASE UNCHANGED <<slot, work, out>> /\ exists \subseteq exists'
  BY <1>1, WholeKept
<1>2. ASSUME NEW m \in Machines,
             \/ StopRental(m) /\ StopHeld(m)
             \/ LeaseOrphaned(m) \/ CompleteReservation(m) \/ CompleteLease(m)
             \/ HandOver(m) \/ LoseMachine(m) \/ LaunchRefused(m)
             \/ ResubmitDrain(m) \/ DrainFailed(m) \/ DrainRaises(m) \/ DrainDone(m)
      PROVE  SlotsWhole'
  <2>1. UNCHANGED <<slot, work, out, exists>>
    BY <1>2 DEF StopRental, StopHeld, LeaseOrphaned, CompleteReservation, CompleteLease, HandOver,
       LoseMachine, LaunchRefused, ResubmitDrain, DrainFailed, DrainRaises, DrainDone, store, world
  <2>2. QED
    BY <1>1, <2>1
<1>3. CASE \/ Crash
            \/ \E m \in Machines : FailLease(m) \/ \E i \in DOMAIN queue : RecordRental(i, m)
  <2>1. UNCHANGED <<slot, work, out, exists>>
    BY <1>3 DEF Crash, FailLease, RecordRental, store, world
  <2>2. QED
    BY <1>1, <2>1
<1>r. CASE ReconcileRentals
  <2>1. exists' = exists /\ slot' = slot
    BY <1>r DEF ReconcileRentals
  <2>2. PICK S : S \subseteq Slots /\ GoDown(S)
    BY <1>r DEF ReconcileRentals
  <2>3. \A x \in Slots : work[x] # "alive" => work'[x] = work[x] /\ (x \in out' => x \in out)
    BY <2>2 DEF GoDown
  <2>4. QED
    BY <2>1, <2>3 DEF SlotsWhole
<1>4. ASSUME NEW m \in Machines,
             \/ FinishRelease(m) \/ \E S \in SUBSET Slots : FinishPartway(m, S)
             \/ \E r \in Roles : LoseSlot(m, r)
      PROVE  SlotsWhole'
  <2>1. exists' = exists /\ \E S : DropSlots(S)
    BY <1>4 DEF FinishRelease, FinishPartway, LoseSlot
  <2>2. QED
    BY <2>1, WholeDropped
<1>5. ASSUME NEW t \in Tags,
             \/ \E S \in SUBSET Slots : DeletePartway(t, S)
             \/ \E r \in Roles : RemoveSlot(t, r)
      PROVE  SlotsWhole'
  <2>1. exists' = exists /\ \E S : DropSlots(S)
    BY <1>5 DEF DeletePartway, RemoveSlot
  <2>2. QED
    BY <2>1, WholeDropped
<1>6. ASSUME NEW t \in Tags, DeleteTask(t) PROVE SlotsWhole'
  <2>1. exists' = exists \ {t} /\ DropSlots({t} \X Roles)
    BY <1>6 DEF DeleteTask
  <2>2. \A x \in Slots : x[1] = t => x \in {t} \X Roles
    BY DEF Slots
  <2>3. QED
    BY <2>1, <2>2 DEF SlotsWhole, DropSlots
<1>7. ASSUME exists' = exists, work' = work, out' \subseteq out,
             \A x \in Slots : slot'[x] = "none" <=> slot[x] = "none"
      PROVE  SlotsWhole'
  BY <1>7, WholeKept
<1>8. ASSUME NEW t, PauseSlots(t), UNCHANGED <<exists, work, out>> PROVE SlotsWhole'
  BY <1>7, <1>8 DEF PauseSlots
<1>9. ASSUME NEW m \in Machines,
             Requeue(m) \/ (StopRental(m) /\ StopPlaced(m)) \/ PauseFailed(m)
      PROVE  SlotsWhole'
  <2>1. UNCHANGED <<exists, work, out>> /\ PauseSlots(lease[m].tag)
    BY <1>9 DEF Requeue, StopRental, StopPlaced, PauseFailed, RequeueLease, world
  <2>2. QED
    BY <1>8, <2>1
<1>10. ASSUME NEW m \in Machines,
              \/ Release(m) \/ StartReserved(m)
              \/ \E wanted \in BOOLEAN : ReservationRaises(m, wanted)
       PROVE  SlotsWhole'
  <2>1. UNCHANGED <<exists, work, out>>
    BY <1>10 DEF Release, StartReserved, ReservationRaises, world
  <2>2. \A x \in Slots : slot'[x] = "none" <=> slot[x] = "none"
    BY <1>10, <1>k DEF Release, StartReserved, ReservationRaises, AddedThere
  <2>3. QED
    BY <1>7, <2>1, <2>2
<1>11. ASSUME NEW t \in Tags, NEW r \in Roles,
              PauseSlot(t, r) \/ NoteFinished(t, r) \/ NoteFailed(t, r)
       PROVE  SlotsWhole'
  <2>1. exists' = exists /\ work' = work /\ out' \subseteq out
    BY <1>11 DEF PauseSlot, NoteFinished, NoteFailed, world
  <2>2. \A x \in Slots : slot'[x] = "none" <=> slot[x] = "none"
    BY <1>11, <1>k DEF PauseSlot, NoteFinished, NoteFailed, TypeOK
  <2>3. QED
    BY <1>7, <2>1, <2>2
<1>12. ASSUME NEW m \in Machines, NEW r \in Roles, DrainSlot(m, r) PROVE SlotsWhole'
  <2>1. exists' = exists /\ slot' = slot /\ work' = work /\ out' \subseteq out
    BY <1>12 DEF DrainSlot, store
  <2>2. QED
    BY <1>7, <2>1
<1>13. ASSUME NEW i \in DOMAIN queue, NEW m \in Machines,
              \/ Place(i, m) \/ StartRental(i, m)
              \/ \E S \in SUBSET Slots : PlaceRaises(i, m, S) \/ RentalRaises(i, m, S)
       PROVE  SlotsWhole'
  <2>1. UNCHANGED <<exists, work, out>> /\ at \in {"placing", "launched"}
    BY <1>13 DEF Place, StartRental, PlaceRaises, RentalRaises, world
  <2>2. queue[i].tag \in exists
    BY <2>1 DEF EntriesExist, Queued
  <2>3. \A x \in Slots : \/ slot'[x] = slot[x]
                         \/ slot'[x] = "running" /\ x[1] = queue[i].tag
    BY <1>13 DEF Place, StartRental, PlaceRaises, RentalRaises, StartSlots
  <2>4. QED
    BY <2>1, <2>2, <2>3, WholeKept
<1>14. ASSUME NEW m \in Machines, NEW r \in Roles, CreateReserved(m, r) PROVE SlotsWhole'
  <2>1. UNCHANGED <<exists, work, out>> /\ lease[m].tag \in exists
    BY <1>14 DEF CreateReserved, Completing, world
  <2>2. \A x \in Slots : IF x = <<lease[m].tag, r>> THEN slot[x] = "none"
                                                    ELSE slot'[x] = "none" <=> slot[x] = "none"
    BY <1>14, <1>k DEF CreateReserved, TypeOK, AddedThere
  <2>3. QED
    BY <2>1, <2>2, WholeKept
<1>15. ASSUME NEW t \in Tags, NEW r \in Roles, slot[t, r] # "none", slot'[t, r] # "none",
              exists' = exists, out' \subseteq out \cup {<<t, r>>},
              \A x \in Slots \ {<<t, r>>} : slot'[x] = slot[x] /\ work'[x] = work[x]
       PROVE  SlotsWhole'
  BY <1>15, WholeKept
<1>16. ASSUME NEW t \in Tags, NEW r \in Roles,
              \/ StartSlot(t, r) \/ WorkerExits(t, r) \/ StopWorker(t, r) \/ StartWorker(t, r)
       PROVE  SlotsWhole'
  <2>x. <<t, r>> \in Slots
    BY DEF Slots
  <2>1. slot[t, r] # "none"
    BY <1>16, <2>x DEF StartSlot, WorkerExits, StopWorker, StartWorker, SlotsWhole
  <2>2. exists' = exists /\ out' \subseteq out \cup {<<t, r>>}
    BY <1>16 DEF StartSlot, WorkerExits, StopWorker, StartWorker, store
  <2>3. slot' = slot \/ slot' = [slot EXCEPT ![<<t, r>>] = "running"]
    BY <1>16 DEF StartSlot, WorkerExits, StopWorker, StartWorker, store
  <2>4. work' = work \/ \E w : work' = [work EXCEPT ![<<t, r>>] = w]
    BY <1>16 DEF StartSlot, WorkerExits, StopWorker, StartWorker
  <2>5. slot'[t, r] # "none" /\ \A x \in Slots \ {<<t, r>>} : slot'[x] = slot[x]
    BY <1>k, <2>x, <2>1, <2>3 DEF TypeOK
  <2>6. \A x \in Slots \ {<<t, r>>} : work'[x] = work[x]
    BY <1>k, <2>4 DEF TypeOK
  <2>7. QED
    BY <1>15, <2>1, <2>2, <2>5, <2>6
<1>17. ASSUME NEW m \in Machines, InstanceLost(m) PROVE SlotsWhole'
  <2>1. /\ exists' = exists /\ slot' = slot /\ out' \subseteq out
        /\ \A x \in Slots : work'[x] \in {work[x], "none"}
    BY <1>17 DEF InstanceLost, store
  <2>2. QED
    BY <2>1, WholeKept
<1>18. CASE LeaseSteps
  BY <1>2, <1>3, <1>r, <1>4, <1>9, <1>13, <1>18, Zenon DEF LeaseSteps
<1>19. CASE SlotSteps
  BY <1>4, <1>5, <1>6, <1>9, <1>10, <1>11, <1>13, <1>14, <1>16, <1>19, Zenon DEF SlotSteps
<1>20. CASE WorkSteps \/ DrainSteps
  BY <1>2, <1>3, <1>12, <1>16, <1>17, <1>20, Zenon DEF WorkSteps, DrainSteps
<1>21. CASE Calm
  BY <1>1, <1>21 DEF Calm
<1>22. QED
  BY <1>18, <1>19, <1>20, <1>21, StepKinds

-----------------------------------------------------------------------------
\* The invariant.

LEMMA InitSlots ==
  ASSUME Init
  PROVE  /\ SlotsWhole /\ SlotsAtLease /\ EntriesExist /\ PlanFree
         /\ RentalReserved /\ StartingReserved /\ RequeueReleases
BY NullAssumption DEF Init, SlotsWhole, SlotsAtLease, EntriesExist, PlanFree, RentalReserved,
   StartingReserved, RequeueReleases, NoLease, Slots

\* Wherever restarts, lost rentals and refused removals leave the writer, each
\* slot is on the machine its tag leases, if it leases one, and nothing runs or
\* holds output where no slot is; what the pass is placing, renting or starting
\* is as it found it; a lease marked for requeueing is being released.
THEOREM SlotsInvariant == Spec => []SlotsInv
<1> DEFINE S == /\ SlotsWhole /\ SlotsAtLease /\ EntriesExist /\ PlanFree
                /\ RentalReserved /\ StartingReserved /\ RequeueReleases
<1>1. Init => S
  BY InitSlots
<1>2. PlacementInv /\ S /\ [Next]_vars => S'
  BY WholeStep, AtLeaseStep, EntriesStep, StagesStep, RequeueStep
<1>3. PlacementInv /\ S => SlotsInv
  BY DEF SlotsInv
<1> HIDE DEF S
<1>4. QED
  BY <1>1, <1>2, <1>3, PlacementInvariant, PTL DEF Spec

-----------------------------------------------------------------------------
\* How a lease ends, and what is then left of it.

\* One machine's lease is set to l.
LEMMA OneLeaseSet ==
  ASSUME TypeOK, NEW n \in Machines, NEW l, lease' = [lease EXCEPT ![n] = l],
         NEW m \in Machines
  PROVE  lease'[m] = IF m = n THEN l ELSE lease[m]
BY DEF TypeOK

\* A phase that is not "free" is not that of a machine without a lease.
LEMMA NotFree ==
  /\ \A l, p : InPhase(l, p) = NoLease => p = "free"
  /\ \A t, p, q : Lease(t, p, q) = NoLease => p = "free"
BY DEF InPhase, Lease, NoLease

\* The steps by which the machine m loses its lease.
Ends(m) ==
  \/ LeaseOrphaned(m) \/ FinishRelease(m) \/ LoseMachine(m) \/ LaunchRefused(m)
  \/ ReconcileRentals /\ ~capacity /\ m \in Rentable /\ m \notin pool'

LEMMA LeaseEndsBy ==
  ASSUME TypeOK, [Next]_vars, NEW m \in Machines, lease[m] # NoLease, lease'[m] = NoLease
  PROVE  Ends(m)
<1>1. ASSUME NEW n \in Machines, NEW l, StartRelease(n, l) PROVE FALSE
  <2>1. lease'[m] = IF m = n THEN InPhase(l, "releasing") ELSE lease[m]
    BY <1>1, OneLeaseSet DEF StartRelease
  <2>2. QED
    BY <2>1, NotFree
<1>2. ASSUME NEW n \in Machines,
             \/ Requeue(n) \/ (StopRental(n) /\ (StopPlaced(n) \/ StopHeld(n)))
             \/ CompleteLease(n) \/ HandOver(n)
      PROVE  FALSE
  <2>1. \E l : StartRelease(n, l)
    BY <1>2 DEF Requeue, StopPlaced, StopHeld, CompleteLease, HandOver, RequeueLease
  <2>2. QED
    BY <1>1, <2>1
<1>3. ASSUME NEW n \in Machines, NEW p, p # "free", lease' = [lease EXCEPT ![n] = InPhase(lease[n], p)]
      PROVE  FALSE
  BY <1>3, OneLeaseSet, NotFree
<1>4. ASSUME NEW n \in Machines, FailLease(n) PROVE FALSE
  BY <1>1, <1>3, <1>4 DEF FailLease
<1>5. ASSUME NEW n \in Machines, CompleteReservation(n) PROVE FALSE
  BY <1>3, <1>5 DEF CompleteReservation
<1>6. ASSUME NEW i \in DOMAIN queue, NEW n \in Machines,
             \/ Place(i, n) \/ RecordRental(i, n) \/ StartRental(i, n)
             \/ \E S \in SUBSET Slots : PlaceRaises(i, n, S)
      PROVE  FALSE
  <2>1. CASE StartRental(i, n)
    BY <1>3, <2>1 DEF StartRental
  <2>2. ASSUME NEW p, p # "free", lease' = [lease EXCEPT ![n] = Lease(queue[i].tag, p, FALSE)]
        PROVE  FALSE
    <3>1. lease'[m] = IF m = n THEN Lease(queue[i].tag, p, FALSE) ELSE lease[m]
      BY <2>2, OneLeaseSet
    <3>2. Lease(queue[i].tag, p, FALSE) # NoLease
      BY <2>2, NotFree, Zenon
    <3>3. QED
      BY <3>1, <3>2
  <2>3. QED
    BY <1>6, <2>1, <2>2 DEF Place, RecordRental, PlaceRaises
<1>7. ASSUME NEW n \in Machines,
             LeaseOrphaned(n) \/ FinishRelease(n) \/ LoseMachine(n) \/ LaunchRefused(n)
      PROVE  Ends(m)
  <2>1. lease' = [lease EXCEPT ![n] = NoLease]
    BY <1>7 DEF LeaseOrphaned, FinishRelease, LoseMachine, LaunchRefused
  <2>2. m = n
    BY <2>1, OneLeaseSet
  <2>3. QED
    BY <1>7, <2>2 DEF Ends
<1>8. CASE ReconcileRentals
  <2>1. ~capacity /\ m \in Rentable /\ m \notin pool'
    BY <1>8 DEF ReconcileRentals
  <2>2. QED
    BY <1>8, <2>1 DEF Ends
<1>9. LeaseSteps
  BY StepKinds, OtherSteps
<1>10. QED
  BY <1>2, <1>4, <1>5, <1>6, <1>7, <1>8, <1>9, Zenon DEF LeaseSteps

\* A requeued tag is at the head of the queue, before all that waited, when its
\* machine is free again: no other end of its lease leaves the machine pooled.
THEOREM RequeuedFirst == Spec => ReturnsToHead
<1>1. ASSUME TypeOK, [Next]_vars PROVE BackAtHead
  <2> SUFFICES ASSUME NEW m \in Machines, lease[m].phase = "releasing", lease[m].requeue,
                      lease[m].tag \in exists, lease'[m] = NoLease, m \in pool'
               PROVE  /\ queue' # <<>> /\ Head(queue').tag = lease[m].tag
                      /\ Tail(queue') = queue
    BY DEF BackAtHead
  <2>1. lease[m] # NoLease /\ lease[m].tag \in Tags
    BY <1>1, LeaseSorts DEF Phases
  <2>2. ~LeaseOrphaned(m) /\ ~LoseMachine(m) /\ ~LaunchRefused(m)
    BY DEF LeaseOrphaned, LoseMachine, LaunchRefused
  <2>3. queue' = <<Requeued(lease[m].tag)>> \o queue
    BY <1>1, <2>1, <2>2, LeaseEndsBy DEF Ends, FinishRelease
  <2>4. Requeued(lease[m].tag) \in Entries /\ Requeued(lease[m].tag).tag = lease[m].tag
        /\ queue \in Seq(Entries)
    BY <1>1, <2>1, RequeuedEntry DEF TypeOK
  <2>5. queue' # <<>> /\ Head(queue') = Requeued(lease[m].tag) /\ Tail(queue') = queue
    BY <2>3, <2>4
  <2>6. QED
    BY <2>4, <2>5
<1>2. QED
  BY <1>1, TypeCorrect, PTL DEF Spec, ReturnsToHead

-----------------------------------------------------------------------------
\* Slots have their lease behind them.

\* No rental is dropped from the pool under its lease.  (Once the capacity entry
\* is removed, the pass drops the rentals that have no instance yet, and looks
\* neither at their lease nor at the slots a reservation has by then.)
NoneDropped == Rentable = {} \/ "remove_capacity" \notin Operator

LEMMA CapacityStep ==
  ASSUME NoneDropped, CapacityKept, [Next]_vars
  PROVE  CapacityKept'
<1>1. CASE capacity' = capacity
  BY <1>1 DEF CapacityKept
<1>2. CASE UNCHANGED vars \/ Commands \/ StopStep
  <2>1. CASE UNCHANGED vars \/ StopStep
    BY <1>1, <2>1 DEF vars, store, StopStep, StopEnds, StopRental
  <2>2. CASE RemoveCapacity
    BY <2>2 DEF RemoveCapacity, Command, NoneDropped, CapacityKept
  <2>3. CASE \E n \in 0 .. MaxCap : SetCap(n)
    BY <2>3 DEF SetCap, CapacityKept
  <2>4. CASE Commands /\ ~RemoveCapacity /\ ~\E n \in 0 .. MaxCap : SetCap(n)
    BY <1>1, <2>4 DEF Commands, CreateTask, Enqueue, DeleteTask, DeletePartway, Dequeue, Move,
       Release, Requeue, AddMachine, RemoveMachine, StartSlot, PauseSlot, RemoveSlot, StopCloud
  <2>5. QED
    BY <1>2, <2>1, <2>2, <2>3, <2>4
<1>3. CASE Tick
  <2>1. ASSUME NEW m \in Machines, AdvanceLease(m) PROVE capacity' = capacity
    BY <2>1 DEF AdvanceLease, LeaseOrphaned, CompleteReservation, PauseFailed, FailLease,
       CompleteLease, HandOver, ResubmitDrain, DrainFailed, FinishRelease, FinishPartway,
       LeaseWaits, StartReserved, ReservationRaises, LoseMachine, CreateReserved, LoseSlot, store
  <2>2. CASE \/ TickStarts \/ StaleDropped \/ AdvanceBuilds \/ ListingFails \/ ReconcileRentals
             \/ LoseLease \/ LeasesAdvanced \/ Placed \/ TickEnds
             \/ \E i \in DOMAIN queue : DropStaleEntry(i)
    BY <1>1, <2>2 DEF TickStarts, StaleDropped, AdvanceBuilds, ListingFails, ReconcileRentals,
       LoseLease, LeasesAdvanced, Placed, TickEnds, DropStaleEntry, store
  <2>3. ASSUME NEW m \in Machines,
               \/ Launch(m) \/ LaunchRefused(m)
               \/ \E i \in DOMAIN queue : Place(i, m) \/ RecordRental(i, m) \/ StartRental(i, m)
               \/ \E i \in DOMAIN queue, S \in SUBSET Slots :
                    PlaceRaises(i, m, S) \/ RentalRaises(i, m, S)
        PROVE  capacity' = capacity
    BY <2>3 DEF Launch, LaunchRefused, Place, RecordRental, StartRental, PlaceRaises,
       RentalRaises, store
  <2>4. QED
    BY <1>1, <1>3, <2>1, <2>2, <2>3, Zenon DEF Tick
<1>4. CASE Threads \/ Workers \/ World
  BY <1>1, <1>4 DEF Threads, DrainRaises, DrainDone, DrainSlot, BuildEnds, Workers, WorkerExits,
     StopWorker, StartWorker, NoteFinished, NoteFailed, World, Crash, InstanceLost, HandRun, store
<1>5. QED
  BY <1>2, <1>3, <1>4 DEF Next

LEMMA CapacityNeverDropped == ASSUME NoneDropped PROVE Spec => []CapacityKept
<1>1. Init => CapacityKept
  BY DEF Init, CapacityKept
<1>2. QED
  BY <1>1, CapacityStep, PTL DEF Spec

\* A lease keeps its tag until it ends.
LEMMA LeaseKeepsTag ==
  ASSUME SlotsInv, TypeOK', [Next]_vars,
         NEW m \in Machines, lease[m] # NoLease, lease'[m] # NoLease
  PROVE  lease'[m].tag = lease[m].tag
<1>k. TypeOK /\ LeasesPooled
  BY DEF SlotsInv, PlacementInv
<1>1. CASE NoNewTag
  <2>1. lease'[m] \in Leases
    BY DEF TypeOK
  <2>2. lease'[m].tag # NoTag
    BY <2>1, NullAssumption DEF Leases
  <2>3. QED
    BY <1>1, <2>2 DEF NoNewTag
<1>2. CASE lease' = lease
  BY <1>2
<1>3. ASSUME NEW n \in Machines, lease[n] = NoLease, NEW l, lease' = [lease EXCEPT ![n] = l]
      PROVE  lease'[m] = lease[m]
  BY <1>3, <1>k, OneLeaseSet
<1>4. ASSUME NEW i \in DOMAIN queue, NEW n \in Machines,
             Place(i, n) \/ \E S \in SUBSET Slots : PlaceRaises(i, n, S)
      PROVE  lease'[m] = lease[m]
  <2>1. /\ at = "placing" /\ <<queue[i].tag, n>> \in plan
        /\ \E l : lease' = [lease EXCEPT ![n] = l]
    BY <1>4 DEF Place, PlaceRaises
  <2>2. lease[n] = NoLease
    BY <2>1 DEF SlotsInv, PlanFree
  <2>3. QED
    BY <1>3, <2>1, <2>2
<1>5. ASSUME NEW i \in DOMAIN queue, NEW n \in Machines, RecordRental(i, n)
      PROVE  lease'[m] = lease[m]
  <2>1. n \notin pool /\ \E l : lease' = [lease EXCEPT ![n] = l]
    BY <1>5 DEF RecordRental, CanRent
  <2>2. lease[n] = NoLease
    BY <1>k, <2>1 DEF LeasesPooled
  <2>3. QED
    BY <1>3, <2>1, <2>2
<1>6. ASSUME NEW i \in DOMAIN queue, NEW n \in Machines, StartRental(i, n)
      PROVE  lease'[m].tag = lease[m].tag
  <2>1. lease'[m] = IF m = n THEN InPhase(lease[n], "running") ELSE lease[m]
    BY <1>6, <1>k, OneLeaseSet DEF StartRental
  <2>2. QED
    BY <2>1, PhaseTag
<1>7. CASE Places
  <2>1. ASSUME NEW n \in Machines, NEW r \in Roles, CreateReserved(n, r) PROVE lease' = lease
    BY <2>1 DEF CreateReserved
  <2>2. ASSUME NEW i \in DOMAIN queue, NEW n \in Machines, NEW S \in SUBSET Slots,
               RentalRaises(i, n, S)
        PROVE  lease' = lease
    BY <2>2 DEF RentalRaises
  <2>3. QED
    BY <1>4, <1>5, <1>6, <1>7, <2>1, <2>2 DEF Places
<1>8. QED
  BY <1>1, <1>2, <1>7, <1>k, TagsStay, StepKinds, OtherSteps

\* No slot is left when its lease ends.
LEMMA EndsBare ==
  ASSUME SlotsInv, CapacityKept, NEW m \in Machines, lease[m] # NoLease, Ends(m),
         NEW x \in Slots, x[1] = lease[m].tag
  PROVE  slot[x] = "none" \/ slot'[x] = "none"
<1>k. TypeOK
  BY DEF SlotsInv, PlacementInv
<1>1. PICK t \in Tags, r \in Roles : x = <<t, r>> /\ t = lease[m].tag
  BY DEF Slots
<1>2. CASE LeaseOrphaned(m)
  <2>1. x[1] \notin exists
    BY <1>2 DEF LeaseOrphaned
  <2>2. QED
    BY <2>1 DEF SlotsInv, SlotsWhole
<1>3. CASE FinishRelease(m)
  BY <1>1, <1>3 DEF FinishRelease, DropSlots
<1>4. CASE LoseMachine(m)
  BY <1>1, <1>4 DEF LoseMachine, HasSlots
<1>5. CASE LaunchRefused(m)
  <2>1. lease[m].tag \in Queued
    BY <1>5 DEF LaunchRefused, SlotsInv, RentalReserved
  <2>2. QED
    BY <1>1, <2>1 DEF SlotsInv, PlacementInv, QueuedWithoutSlots, HasSlots
<1>6. CASE ~capacity /\ m \in Rentable
  BY <1>6 DEF CapacityKept
<1>7. QED
  BY <1>2, <1>3, <1>4, <1>5, <1>6 DEF Ends

\* A new slot is its tag's, on the machine the tag leases.
LEMMA NewSlotLeased ==
  ASSUME SlotsInv, TypeOK', [Next]_vars, NEW x \in Slots, slot'[x] # "none",
         slot[x] = "none" \/ host'[x] # host[x]
  PROVE  host'[x] \in Machines /\ lease'[host'[x]].tag = x[1]
<1>k. TypeOK /\ AddedThere
  BY DEF SlotsInv, PlacementInv
<1>1. ASSUME NEW i \in DOMAIN queue, NEW m \in Machines, NEW p, NEW q,
             lease' = [lease EXCEPT ![m] = Lease(queue[i].tag, p, q)]
      PROVE  lease'[m].tag = queue[i].tag
  <2>1. lease'[m] = Lease(queue[i].tag, p, q)
    BY <1>1, <1>k DEF TypeOK
  <2>2. QED
    BY <2>1 DEF Lease
<1>2. ASSUME NEW i \in DOMAIN queue, NEW m \in Machines, Place(i, m)
      PROVE  host'[x] = m /\ lease'[m].tag = x[1]
  <2>1. lease'[m].tag = queue[i].tag
    BY <1>1, <1>2 DEF Place
  <2>2. host'[x] = m /\ x[1] = queue[i].tag
    BY <1>2 DEF Place, StartSlots
  <2>3. QED
    BY <2>1, <2>2
<1>3. ASSUME NEW i \in DOMAIN queue, NEW m \in Machines, NEW S \in SUBSET Slots, PlaceRaises(i, m, S)
      PROVE  host'[x] = m /\ lease'[m].tag = x[1]
  <2>1. lease'[m].tag = queue[i].tag
    BY <1>1, <1>3 DEF PlaceRaises
  <2>2. host'[x] = m /\ x[1] = queue[i].tag
    BY <1>3 DEF PlaceRaises
  <2>3. QED
    BY <2>1, <2>2
<1>4. ASSUME NEW i \in DOMAIN queue, NEW m \in Machines, StartRental(i, m)
      PROVE  host'[x] = m /\ lease'[m].tag = x[1]
  <2>1. lease'[m] = InPhase(lease[m], "running") /\ lease[m].tag = queue[i].tag
    BY <1>4, <1>k DEF StartRental, LeasedOn, TypeOK
  <2>2. host'[x] = m /\ x[1] = queue[i].tag
    BY <1>4 DEF StartRental, StartSlots
  <2>3. QED
    BY <2>1, <2>2, PhaseTag
<1>r. ASSUME NEW i \in DOMAIN queue, NEW m \in Machines, NEW S \in SUBSET Slots,
             RentalRaises(i, m, S)
      PROVE  host'[x] = m /\ lease'[m].tag = x[1]
  BY <1>r DEF RentalRaises, LeasedOn
<1>5. ASSUME NEW m \in Machines, NEW r \in Roles, CreateReserved(m, r)
      PROVE  host'[x] = m /\ lease'[m].tag = x[1]
  <2>1. lease' = lease /\ x = <<lease[m].tag, r>> /\ host'[x] = m
    BY <1>5, <1>k DEF CreateReserved, TypeOK, AddedThere
  <2>2. QED
    BY <2>1
<1>6. ASSUME NEW i \in DOMAIN queue, NEW m \in Machines, RecordRental(i, m)
      PROVE  FALSE
  BY <1>6 DEF RecordRental
<1>7. CASE WorkSteps \/ DrainSteps \/ Calm
  <2>1. UNCHANGED <<slot, host>>
    BY <1>7 DEF WorkSteps, WorkerExits, StopWorker, StartWorker, InstanceLost, DrainSteps,
       ResubmitDrain, DrainFailed, DrainRaises, DrainDone, DrainSlot, Crash, Calm, store
  <2>2. QED
    BY <2>1
<1>8. CASE SlotsStay
  BY <1>8 DEF SlotsStay
<1>9. CASE Places
  BY <1>2, <1>3, <1>4, <1>r, <1>5, <1>6, <1>9 DEF Places
<1>10. QED
  BY <1>7, <1>8, <1>9, <1>k, SlotsStayPut, StepKinds

LEMMA UnderLeaseStep ==
  ASSUME SlotsInv, SlotsInv', CapacityKept, SlotsUnderLease, [Next]_vars
  PROVE  SlotsUnderLease'
<1>k. TypeOK /\ TypeOK' /\ LeasesPooled'
  BY DEF SlotsInv, PlacementInv
<1> SUFFICES ASSUME NEW x \in Slots, slot'[x] # "none"
             PROVE  host'[x] \in pool' /\ lease'[host'[x]].tag = x[1]
  BY DEF SlotsUnderLease, LeasedOn
<1>1. x[1] \in Tags /\ x[1] # NoTag
  BY NullAssumption DEF Slots
<1>2. host'[x] \in Machines /\ lease'[host'[x]].tag = x[1]
  <2>1. CASE slot[x] # "none" /\ host'[x] = host[x]
    <3>1. host[x] \in Machines /\ lease[host[x]].tag = x[1]
      BY <2>1, <1>k DEF SlotsUnderLease, LeasedOn, TypeOK
    <3>2. lease[host[x]] # NoLease
      BY <1>1, <1>k, <3>1, LeaseSorts
    <3>3. lease'[host[x]] # NoLease
      BY <1>k, <2>1, <3>1, <3>2, LeaseEndsBy, EndsBare
    <3>4. QED
      BY <1>k, <2>1, <3>1, <3>2, <3>3, LeaseKeepsTag
  <2>2. QED
    BY <1>k, <2>1, NewSlotLeased
<1>3. lease'[host'[x]] # NoLease
  BY <1>1, <1>2 DEF NoLease
<1>4. QED
  BY <1>2, <1>3, <1>k DEF LeasesPooled

\* A queue-made slot never outlives its lease: not a release, not a lost rental,
\* not a deleted task, not a restart in between.
THEOREM SlotsHaveLease == ASSUME NoneDropped PROVE Spec => []SlotsUnderLease
<1>1. Init => SlotsUnderLease
  BY DEF Init, SlotsUnderLease
<1>2. SlotsInv /\ SlotsInv' /\ CapacityKept /\ SlotsUnderLease /\ [Next]_vars
        => SlotsUnderLease'
  BY UnderLeaseStep
<1>3. QED
  BY <1>1, <1>2, SlotsInvariant, CapacityNeverDropped, PTL DEF Spec

\* Two tags' workers are never alive on one machine: each is in a slot, and the
\* slots of both would be under the machine's one lease.
THEOREM OneTagPerMachine == ASSUME NoneDropped PROVE Spec => []OneTagAlive
<1>1. SlotsInv /\ SlotsUnderLease => OneTagAlive
  BY DEF SlotsInv, SlotsWhole, SlotsUnderLease, LeasedOn, OneTagAlive
<1>2. QED
  BY <1>1, SlotsInvariant, SlotsHaveLease, PTL

-----------------------------------------------------------------------------
\* What a drain has swept stays swept.

\* The operator starts no slot by hand whose tag is held or being released.
\* (`POST /workers` refuses neither: the model's runs show what then happens.)
NoneRestarted == Operator \cap {"start_held", "start_releasing"} = {}

\* A slot becomes wanted by the operator, or as its tag is placed.
LEMMA BecomesWanted ==
  ASSUME SlotsInv, [Next]_vars, NEW x \in Slots, slot'[x] = "running", slot[x] # "running"
  PROVE  \/ \E t \in Tags, r \in Roles : x = <<t, r>> /\ StartSlot(t, r)
         \/ \A m \in Machines : lease[m].tag = x[1] => lease[m].phase = "reserved"
<1>k. TypeOK /\ PlacementInv /\ OneLeasePerTag
  BY DEF SlotsInv, PlacementInv
<1>1. ASSUME NEW S, DropSlots(S) PROVE FALSE
  BY <1>1 DEF DropSlots
<1>2. ASSUME NEW t, PauseSlots(t) PROVE FALSE
  BY <1>2 DEF PauseSlots
<1>3. ASSUME NEW n \in Machines, \/ Requeue(n) \/ (StopRental(n) /\ (StopPlaced(n) \/ StopHeld(n)))
                                 \/ PauseFailed(n) \/ FailLease(n)
      PROVE  FALSE
  BY <1>2, <1>3 DEF Requeue, StopPlaced, StopHeld, PauseFailed, FailLease, RequeueLease
<1>4. ASSUME \/ ReconcileRentals
             \/ \E n \in Machines :
                  \/ LeaseOrphaned(n) \/ CompleteReservation(n) \/ CompleteLease(n) \/ HandOver(n)
                  \/ LoseMachine(n) \/ LaunchRefused(n)
                  \/ \E i \in DOMAIN queue : RecordRental(i, n)
      PROVE  FALSE
  BY <1>4 DEF ReconcileRentals, LeaseOrphaned, CompleteReservation, CompleteLease, HandOver,
     LoseMachine, LaunchRefused, RecordRental
<1>5. ASSUME \/ \E n \in Machines :
                  \/ FinishRelease(n) \/ \E S \in SUBSET Slots : FinishPartway(n, S)
                  \/ \E r \in Roles : LoseSlot(n, r)
             \/ \E t \in Tags :
                  \/ DeleteTask(t) \/ \E S \in SUBSET Slots : DeletePartway(t, S)
                  \/ \E r \in Roles : RemoveSlot(t, r)
      PROVE  FALSE
  BY <1>1, <1>5 DEF FinishRelease, FinishPartway, LoseSlot, DeleteTask, DeletePartway, RemoveSlot
<1>6. ASSUME NEW i \in DOMAIN queue, NEW n \in Machines,
             Place(i, n) \/ \E S \in SUBSET Slots : PlaceRaises(i, n, S)
      PROVE  \A m \in Machines : lease[m].tag # x[1]
  <2>1. at = "placing" /\ x[1] = queue[i].tag
    BY <1>6 DEF Place, PlaceRaises, StartSlots
  <2>2. QED
    BY <1>k, <2>1, PlacedAlone
<1>7. ASSUME NEW i \in DOMAIN queue, NEW n \in Machines,
             StartRental(i, n) \/ \E S \in SUBSET Slots : RentalRaises(i, n, S)
      PROVE  \A m \in Machines : lease[m].tag = x[1] => lease[m].phase = "reserved"
  <2>1. /\ at = "launched" /\ n \in todo /\ lease[n].tag = queue[i].tag /\ x[1] = queue[i].tag
    BY <1>7 DEF StartRental, RentalRaises, StartSlots, LeasedOn
  <2>2. lease[n] = Lease(lease[n].tag, "reserved", FALSE)
    BY <2>1 DEF SlotsInv, RentalReserved
  <2>3. lease[n].phase = "reserved"
    BY <2>2 DEF Lease
  <2>4. lease[n] # NoLease
    BY <2>3 DEF NoLease
  <2>5. QED
    BY <1>k, <2>1, <2>3, <2>4 DEF OneLeasePerTag
<1>8. ASSUME NEW n \in Machines,
             \/ StartReserved(n) \/ \E r \in Roles : CreateReserved(n, r)
             \/ \E wanted \in BOOLEAN : ReservationRaises(n, wanted)
      PROVE  \A m \in Machines : lease[m].tag = x[1] => lease[m].phase = "reserved"
  <2>1. x \in added /\ (at = "leases" \/ (at = "starting" /\ carry = lease[n]))
    BY <1>8 DEF StartReserved, CreateReserved, ReservationRaises, Completing
  <2>a. at = "starting"
    BY <2>1, <1>k DEF PlacementInv, AddedThere
  <2>2. lease[n].phase = "reserved" /\ x[1] = lease[n].tag
    BY <2>1, <2>a DEF SlotsInv, StartingReserved
  <2>3. lease[n] # NoLease
    BY <2>2 DEF NoLease
  <2>4. QED
    BY <1>k, <2>2, <2>3 DEF OneLeasePerTag
<1>9. ASSUME NEW t \in Tags, NEW r \in Roles, StartSlot(t, r) PROVE x = <<t, r>>
  BY <1>9, <1>k DEF StartSlot, TypeOK
<1>10. ASSUME NEW t \in Tags, NEW r \in Roles,
              PauseSlot(t, r) \/ NoteFinished(t, r) \/ NoteFailed(t, r)
       PROVE  FALSE
  BY <1>10, <1>k DEF PauseSlot, NoteFinished, NoteFailed, TypeOK
<1>11. ASSUME NEW n \in Machines, Release(n) PROVE FALSE
  BY <1>11 DEF Release
<1>13. CASE WorkSteps \/ DrainSteps \/ Calm
  <2>1. slot' = slot
    BY <1>13 DEF WorkSteps, WorkerExits, StopWorker, StartWorker, InstanceLost, DrainSteps,
       ResubmitDrain, DrainFailed, DrainRaises, DrainDone, DrainSlot, Crash, Calm, store
  <2>2. QED
    BY <2>1
<1>14. CASE LeaseSteps
  BY <1>3, <1>4, <1>5, <1>6, <1>7, <1>14, Zenon DEF LeaseSteps
<1>15. CASE SlotSteps
  BY <1>3, <1>5, <1>7, <1>8, <1>9, <1>10, <1>11, <1>15, Zenon DEF SlotSteps
<1>16. QED
  BY <1>13, <1>14, <1>15, StepKinds

\* A drain over the slots the tag has now, submitted at once.
FreshDrain(m) ==
  /\ drain'[m] = "running"
  /\ left'[m] = RolesOf(lease[m].tag)
  /\ UNCHANGED <<work, out>>

\* A lease comes to be held or released with no slot wanted, and a release with
\* a drain over all the tag's slots.
LEMMA BecomesUnwanted ==
  ASSUME TypeOK, Unwanted, [Next]_vars, NEW m \in Machines,
         lease'[m].phase \in {"held", "releasing"}, lease'[m] # lease[m]
  PROVE  /\ lease'[m].tag = lease[m].tag
         /\ \A r \in Roles : slot'[lease[m].tag, r] # "running"
         /\ lease'[m].phase = "releasing" => FreshDrain(m)
<1> DEFINE P == /\ lease'[m].tag = lease[m].tag
                /\ \A r \in Roles : slot'[lease[m].tag, r] # "running"
                /\ lease'[m].phase = "releasing" => FreshDrain(m)
<1>1. ASSUME NEW n \in Machines, NEW l, lease' = [lease EXCEPT ![n] = l]
      PROVE  m = n /\ lease'[m] = l
  BY <1>1, OneLeaseSet
<1>2. ASSUME NEW n \in Machines, NEW l, l.tag = lease[n].tag, StartRelease(n, l)
      PROVE  m = n /\ lease'[m].tag = lease[m].tag /\ drain'[m] = "running"
             /\ left'[m] = RolesOf(lease[m].tag)
  <2>1. m = n /\ lease'[m] = InPhase(l, "releasing")
    BY <1>1, <1>2 DEF StartRelease
  <2>2. drain'[m] = "running" /\ left'[m] = RolesOf(lease[m].tag)
    BY <1>2, <2>1 DEF StartRelease, SubmitDrain, TypeOK
  <2>3. QED
    BY <1>2, <2>1, <2>2, PhaseTag
<1>3. ASSUME NEW t \in Tags, PauseSlots(t)
      PROVE  \A r \in Roles : slot'[t, r] # "running"
  BY <1>3 DEF PauseSlots, Slots
<1>4. ASSUME NEW n \in Machines, Requeue(n) \/ (StopRental(n) /\ StopPlaced(n))
      PROVE  P
  <2>1. /\ lease[n].phase \in Phases /\ RequeueLease(n) /\ UNCHANGED <<work, out>>
    BY <1>4 DEF Requeue, StopRental, StopPlaced, Phases, world
  <2>2. lease[n].tag \in Tags
    BY <2>1, LeaseSorts
  <2>3. \A q : Lease(lease[n].tag, lease[n].phase, q).tag = lease[n].tag
    BY DEF Lease
  <2>4. StartRelease(n, Lease(lease[n].tag, lease[n].phase, TRUE)) /\ PauseSlots(lease[n].tag)
    BY <2>1 DEF RequeueLease
  <2>5. m = n /\ lease'[m].tag = lease[m].tag /\ drain'[m] = "running"
        /\ left'[m] = RolesOf(lease[m].tag)
    BY <1>2, <2>3, <2>4
  <2>6. \A r \in Roles : slot'[lease[m].tag, r] # "running"
    BY <1>3, <2>2, <2>4, <2>5
  <2>7. QED
    BY <2>1, <2>5, <2>6 DEF FreshDrain
<1>5. ASSUME NEW n \in Machines, FailLease(n) PROVE P
  <2>1. /\ lease[n].phase = "running" /\ UNCHANGED <<slot, work, out>>
        /\ \A r \in Roles : slot[lease[n].tag, r] # "running"
    BY <1>5 DEF FailLease, Advance, world
  <2>2. lease[n].tag \in Tags
    BY <2>1, LeaseSorts DEF Phases
  <2>3. \A r \in Roles : slot'[lease[n].tag, r] # "running"
    BY <2>1
  <2>4. CASE StartRelease(n, lease[n])
    BY <1>2, <2>1, <2>3, <2>4 DEF FreshDrain
  <2>5. CASE lease' = [lease EXCEPT ![n] = InPhase(lease[n], "held")]
    <3>1. m = n /\ lease'[m] = InPhase(lease[n], "held")
      BY <1>1, <2>5
    <3>2. lease'[m].tag = lease[m].tag /\ lease'[m].phase = "held"
      BY <3>1 DEF InPhase, Lease
    <3>3. QED
      BY <2>3, <3>1, <3>2
  <2>6. QED
    BY <1>5, <2>4, <2>5 DEF FailLease
<1>6. ASSUME NEW n \in Machines,
             CompleteLease(n) \/ HandOver(n) \/ (StopRental(n) /\ StopHeld(n))
      PROVE  P
  <2>1. StartRelease(n, lease[n]) /\ UNCHANGED <<slot, work, out>>
    BY <1>6 DEF CompleteLease, HandOver, StopRental, StopHeld, world
  <2>2. m = n /\ lease'[m].tag = lease[m].tag /\ drain'[m] = "running"
        /\ left'[m] = RolesOf(lease[m].tag)
    BY <1>2, <2>1
  <2>3. \A r \in Roles : slot[lease[n].tag, r] # "running"
    BY <1>6 DEF CompleteLease, Finished, HandOver, Advance, StopHeld, Unwanted
  <2>4. QED
    BY <2>1, <2>2, <2>3 DEF FreshDrain
<1>7. ASSUME NEW n \in Machines, NEW l, lease' = [lease EXCEPT ![n] = l],
             l.phase \notin {"held", "releasing"}
      PROVE  FALSE
  BY <1>1, <1>7
<1>8. ASSUME NEW n \in Machines,
             \/ CompleteReservation(n)
             \/ LeaseOrphaned(n) \/ FinishRelease(n) \/ LoseMachine(n) \/ LaunchRefused(n)
             \/ \E i \in DOMAIN queue : Place(i, n) \/ RecordRental(i, n) \/ StartRental(i, n)
             \/ \E i \in DOMAIN queue, S \in SUBSET Slots : PlaceRaises(i, n, S)
      PROVE  FALSE
  <2>1. \A l : InPhase(l, "running").phase = "running"
    BY DEF InPhase, Lease
  <2>2. NoLease.phase = "free"
    BY DEF NoLease
  <2>3. \A t, p : Lease(t, p, FALSE).phase = p
    BY DEF Lease
  <2>4. CASE CompleteReservation(n) \/ \E i \in DOMAIN queue : StartRental(i, n)
    BY <1>7, <2>1, <2>4 DEF CompleteReservation, StartRental
  <2>5. CASE LeaseOrphaned(n) \/ FinishRelease(n) \/ LoseMachine(n) \/ LaunchRefused(n)
    BY <1>7, <2>2, <2>5 DEF LeaseOrphaned, FinishRelease, LoseMachine, LaunchRefused
  <2>6. ASSUME NEW i \in DOMAIN queue, NEW p, p \in {"running", "reserved"},
               lease' = [lease EXCEPT ![n] = Lease(queue[i].tag, p, FALSE)]
        PROVE  FALSE
    <3>1. Lease(queue[i].tag, p, FALSE).phase \notin {"held", "releasing"}
      BY <2>3, <2>6
    <3>2. QED
      BY <1>7, <2>6, <3>1
  <2>7. QED
    BY <1>8, <2>4, <2>5, <2>6 DEF Place, RecordRental, PlaceRaises
<1>9. ASSUME ReconcileRentals PROVE FALSE
  <2>1. lease'[m] \in {lease[m], NoLease}
    BY <1>9 DEF ReconcileRentals
  <2>2. QED
    BY <2>1 DEF NoLease
<1>10. LeaseSteps
  BY StepKinds, OtherSteps
<1>11. QED
  BY <1>4, <1>5, <1>6, <1>8, <1>9, <1>10, Zenon DEF LeaseSteps

\* No slot of a held or released tag is wanted again.
LEMMA UnwantedStep ==
  ASSUME NoneRestarted, SlotsInv, TypeOK', Unwanted, [Next]_vars
  PROVE  Unwanted'
<1>k. TypeOK /\ SlotsAtLease
  BY DEF SlotsInv, PlacementInv
<1> SUFFICES ASSUME NEW m \in Machines, lease'[m].phase \in {"held", "releasing"},
                    NEW r \in Roles, slot'[lease'[m].tag, r] = "running"
             PROVE  FALSE
  BY DEF Unwanted
<1>1. lease'[m] = lease[m]
  BY <1>k, BecomesUnwanted
<1>2. slot[lease[m].tag, r] # "running"
  BY <1>1 DEF Unwanted
<1>3. PICK x \in Slots : x = <<lease[m].tag, r>>
  <2>1. lease[m].tag \in Tags
    BY <1>1, <1>k, LeaseSorts DEF Phases
  <2>2. QED
    BY <2>1 DEF Slots
<1>4. ~\A n \in Machines : lease[n].tag = x[1] => lease[n].phase = "reserved"
  BY <1>1, <1>3
<1>5. PICK t \in Tags, s \in Roles : x = <<t, s>> /\ StartSlot(t, s)
  BY <1>1, <1>2, <1>3, <1>4, BecomesWanted
<1>6. slot[x] # "none" /\ StartCommand[lease[host[x]].phase] \in Operator
  BY <1>5 DEF StartSlot, Command
<1>7. host[x] = m
  BY <1>3, <1>6, <1>k DEF SlotsAtLease
<1>8. StartCommand[lease[m].phase] \in {"start_held", "start_releasing"}
  <2>1. StartCommand["held"] = "start_held"
    BY DEF StartCommand
  <2>2. StartCommand["releasing"] = "start_releasing"
    BY DEF StartCommand
  <2>3. lease[m].phase = "held" \/ lease[m].phase = "releasing"
    BY <1>1
  <2>4. QED
    BY <2>1, <2>2, <2>3
<1>9. QED
  BY <1>6, <1>7, <1>8 DEF NoneRestarted

\* No worker comes up but in a wanted slot, or one the operator starts.
LEMMA WorkerWakes ==
  ASSUME TypeOK, [Next]_vars, NEW x \in Slots, work'[x] = "alive", work[x] # "alive"
  PROVE  \/ \E t \in Tags, r \in Roles : x = <<t, r>> /\ StartSlot(t, r)
         \/ slot[x] = "running"
<1>1. CASE work' = work
  BY <1>1
<1>2. ASSUME NEW S, DropSlots(S) PROVE FALSE
  BY <1>2 DEF DropSlots
<1>r. ASSUME ReconcileRentals PROVE FALSE
  <2>1. \E S : GoDown(S)
    BY <1>r DEF ReconcileRentals
  <2>2. QED
    BY <2>1 DEF GoDown
<1>3. CASE LeaseSteps
  BY <1>1, <1>2, <1>r, <1>3 DEF LeaseSteps, Requeue, StopRental, LeaseOrphaned,
     CompleteReservation, FailLease, CompleteLease, HandOver, FinishRelease, LoseMachine,
     LaunchRefused, Place, RecordRental, StartRental, PlaceRaises, world
<1>4. ASSUME NEW t \in Tags, NEW r \in Roles, StartSlot(t, r) PROVE x = <<t, r>>
  BY <1>4 DEF StartSlot, TypeOK
<1>5. CASE SlotSteps
  BY <1>1, <1>2, <1>4, <1>5 DEF SlotSteps, DeleteTask, DeletePartway, PauseSlot, RemoveSlot,
     NoteFinished, NoteFailed, Release, StartReserved, PauseFailed, ReservationRaises,
     RentalRaises, FinishPartway, CreateReserved, LoseSlot, world
<1>6. ASSUME NEW t \in Tags, NEW r \in Roles, StartWorker(t, r) PROVE slot[x] = "running"
  BY <1>6 DEF StartWorker, TypeOK
<1>7. ASSUME NEW t \in Tags, NEW r \in Roles, StopWorker(t, r) \/ WorkerExits(t, r)
      PROVE  FALSE
  BY <1>7 DEF StopWorker, WorkerExits, Exits, TypeOK
<1>8. ASSUME NEW m \in Machines, InstanceLost(m) PROVE FALSE
  BY <1>8 DEF InstanceLost
<1>9. CASE WorkSteps
  BY <1>6, <1>7, <1>8, <1>9, Zenon DEF WorkSteps
<1>10. CASE DrainSteps \/ Calm
  BY <1>1, <1>10 DEF DrainSteps, ResubmitDrain, DrainFailed, DrainRaises, DrainDone, DrainSlot,
     Crash, Calm, world
<1>11. QED
  BY <1>3, <1>5, <1>9, <1>10, StepKinds

\* Only a worker that was up leaves output behind.
LEMMA OutputAppears ==
  ASSUME [Next]_vars, NEW x \in out', x \notin out
  PROVE  work[x] = "alive"
<1>1. CASE out' \subseteq out
  BY <1>1
<1>2. ASSUME NEW S, DropSlots(S) PROVE out' \subseteq out
  BY <1>2 DEF DropSlots
<1>r. CASE ReconcileRentals
  <2>1. \E S : GoDown(S)
    BY <1>r DEF ReconcileRentals
  <2>2. QED
    BY <2>1 DEF GoDown
<1>3. CASE LeaseSteps
  BY <1>1, <1>2, <1>r, <1>3 DEF LeaseSteps, Requeue, StopRental, LeaseOrphaned,
     CompleteReservation, FailLease, CompleteLease, HandOver, FinishRelease, LoseMachine,
     LaunchRefused, Place, RecordRental, StartRental, PlaceRaises, world
<1>4. CASE SlotSteps
  BY <1>1, <1>2, <1>4 DEF SlotSteps, DeleteTask, DeletePartway, StartSlot, PauseSlot, RemoveSlot,
     NoteFinished, NoteFailed, Release, StartReserved, PauseFailed, ReservationRaises,
     RentalRaises, FinishPartway, CreateReserved, LoseSlot, world
<1>5. CASE WorkSteps
  BY <1>5 DEF WorkSteps, WorkerExits, StopWorker, StartWorker, InstanceLost
<1>6. CASE DrainSteps \/ Calm
  BY <1>1, <1>6 DEF DrainSteps, ResubmitDrain, DrainFailed, DrainRaises, DrainDone, DrainSlot,
     Crash, Calm, world
<1>7. QED
  BY <1>3, <1>4, <1>5, <1>6, StepKinds

\* The drain of a release that goes on: it stays, advances or starts anew.
LEMMA DrainGoesOn ==
  ASSUME TypeOK, [Next]_vars, NEW m \in Machines, lease[m].phase = "releasing",
         lease'[m] = lease[m], drain'[m] \in {"running", "ok"}
  PROVE  \/ drain'[m] = drain[m] /\ left'[m] = left[m]
         \/ \E r \in Roles : DrainSlot(m, r)
         \/ DrainDone(m) \/ ResubmitDrain(m)
<1>1. CASE UNCHANGED <<drain, left>>
  BY <1>1
<1>2. ASSUME NEW n \in Machines, NEW result, EndDrain(n, result), result \notin {"running", "ok"}
      PROVE  drain'[m] = drain[m] /\ left'[m] = left[m]
  BY <1>2 DEF EndDrain, TypeOK
<1>3. ASSUME NEW n \in Machines, NEW l, StartRelease(n, l), lease[n].phase # "releasing"
      PROVE  drain'[m] = drain[m] /\ left'[m] = left[m]
  BY <1>3 DEF StartRelease, SubmitDrain, TypeOK
<1>4. ASSUME NEW n \in Machines,
             \/ Requeue(n) \/ (StopRental(n) /\ (StopPlaced(n) \/ StopHeld(n)))
             \/ CompleteLease(n) \/ HandOver(n) \/ FailLease(n)
      PROVE  drain'[m] = drain[m] /\ left'[m] = left[m]
  BY <1>1, <1>3, <1>4 DEF Requeue, StopPlaced, StopHeld, CompleteLease, HandOver, FailLease,
     RequeueLease, Advance
<1>5. ASSUME NEW n \in Machines, \/ LeaseOrphaned(n) \/ FinishRelease(n) \/ LoseMachine(n)
                                 \/ DrainFailed(n) \/ DrainRaises(n)
                                 \/ \E S \in SUBSET Slots : FinishPartway(n, S)
      PROVE  drain'[m] = drain[m] /\ left'[m] = left[m]
  BY <1>2, <1>5 DEF LeaseOrphaned, FinishRelease, LoseMachine, DrainFailed, DrainRaises,
     FinishPartway
<1>6. CASE ReconcileRentals
  BY <1>6 DEF ReconcileRentals
<1>7. CASE LeaseSteps
  <2>1. ASSUME NEW n \in Machines,
               \/ CompleteReservation(n) \/ LaunchRefused(n)
               \/ \E i \in DOMAIN queue : Place(i, n) \/ RecordRental(i, n) \/ StartRental(i, n)
               \/ \E i \in DOMAIN queue, S \in SUBSET Slots : PlaceRaises(i, n, S)
        PROVE  UNCHANGED <<drain, left>>
    BY <2>1 DEF CompleteReservation, LaunchRefused, Place, RecordRental, StartRental, PlaceRaises,
       threads
  <2>2. QED
    BY <1>1, <1>4, <1>5, <1>6, <1>7, <2>1, Zenon DEF LeaseSteps
<1>8. CASE SlotSteps
  <2>1. CASE \E n \in Machines, S \in SUBSET Slots : FinishPartway(n, S)
    BY <1>5, <2>1
  <2>2. CASE UNCHANGED threads
    BY <1>1, <2>2 DEF threads
  <2>3. QED
    BY <1>8, <2>1, <2>2 DEF SlotSteps, DeleteTask, DeletePartway, StartSlot, PauseSlot, RemoveSlot,
       NoteFinished, NoteFailed, Release, StartReserved, PauseFailed, ReservationRaises,
       RentalRaises, CreateReserved, LoseSlot
<1>9. CASE WorkSteps \/ Calm
  BY <1>1, <1>9 DEF WorkSteps, WorkerExits, StopWorker, StartWorker, InstanceLost, Calm, threads
<1>10. CASE DrainSteps
  <2>1. ASSUME NEW n \in Machines, n # m,
               ResubmitDrain(n) \/ DrainDone(n) \/ \E r \in Roles : DrainSlot(n, r)
        PROVE  drain'[m] = drain[m] /\ left'[m] = left[m]
    BY <2>1 DEF ResubmitDrain, DrainDone, DrainSlot, SubmitDrain, EndDrain, TypeOK
  <2>2. CASE Crash
    BY <2>2 DEF Crash
  <2>3. QED
    BY <1>5, <1>10, <2>1, <2>2 DEF DrainSteps
<1>11. QED
  BY <1>7, <1>8, <1>9, <1>10, StepKinds

\* What a drain is done with stays down and empty while its release lasts.
LEMMA DrainedStep ==
  ASSUME NoneRestarted, SlotsInv, TypeOK', Unwanted, DrainedSoFar, [Next]_vars
  PROVE  DrainedSoFar'
<1>k. TypeOK /\ SlotsAtLease
  BY DEF SlotsInv, PlacementInv
<1> SUFFICES ASSUME NEW m \in Machines, lease'[m].phase = "releasing",
                    drain'[m] \in {"running", "ok"}
             PROVE  /\ drain'[m] = "ok" => left'[m] = {}
                    /\ \A r \in Roles \ left'[m] :
                         work'[lease'[m].tag, r] # "alive" /\ <<lease'[m].tag, r>> \notin out'
  BY DEF DrainedSoFar
<1>1. ASSUME NEW t \in Tags, NEW r \in Roles \ RolesOf(t)
      PROVE  work[t, r] # "alive" /\ <<t, r>> \notin out
  <2>1. <<t, r>> \in Slots /\ slot[t, r] = "none"
    BY DEF RolesOf, Slots
  <2>2. QED
    BY <2>1 DEF SlotsInv, SlotsWhole
<1>2. CASE lease'[m] # lease[m]
  <2>1. lease'[m].tag = lease[m].tag /\ FreshDrain(m)
    BY <1>2, <1>k, BecomesUnwanted
  <2>2. lease[m].tag \in Tags
    <3>1. lease'[m] \in Leases
      BY DEF TypeOK, NoLease
    <3>2. QED
      BY <2>1, <3>1 DEF Leases
  <2>3. QED
    BY <1>1, <2>1, <2>2 DEF FreshDrain
<1>3. CASE lease'[m] = lease[m]
  <2> DEFINE t == lease[m].tag
  <2>1. t \in Tags
    BY <1>3, <1>k, LeaseSorts DEF Phases
  <2>2. ASSUME NEW r \in Roles, work[t, r] # "alive", <<t, r>> \notin out
        PROVE  work'[t, r] # "alive" /\ <<t, r>> \notin out'
    <3>1. <<t, r>> \in Slots
      BY <2>1 DEF Slots
    <3>2. slot[t, r] # "running"
      BY <1>3 DEF Unwanted
    <3>3. ASSUME StartSlot(t, r) PROVE FALSE
      <4>1. slot[t, r] # "none" /\ StartCommand[lease[host[t, r]].phase] \in Operator
        BY <3>3 DEF StartSlot, Command
      <4>2. host[t, r] = m
        BY <3>1, <4>1, <1>k DEF SlotsAtLease
      <4>3. StartCommand["releasing"] = "start_releasing"
        BY DEF StartCommand
      <4>4. QED
        BY <1>3, <4>1, <4>2, <4>3 DEF NoneRestarted
    <3>4. work'[t, r] # "alive"
      BY <1>k, <2>2, <3>1, <3>2, <3>3, WorkerWakes
    <3>5. <<t, r>> \notin out'
      BY <2>2, OutputAppears
    <3>6. QED
      BY <3>4, <3>5
  <2>3. CASE drain'[m] = drain[m] /\ left'[m] = left[m]
    BY <1>3, <2>2, <2>3 DEF DrainedSoFar
  <2>4. ASSUME NEW s \in Roles, DrainSlot(m, s)
        PROVE  /\ drain'[m] = "ok" => left'[m] = {}
               /\ \A r \in Roles \ left'[m] :
                    work'[t, r] # "alive" /\ <<t, r>> \notin out'
    <3>1. /\ drain' = drain /\ drain[m] = "running" /\ left'[m] = left[m] \ {s}
          /\ work' = work /\ work[t, s] # "alive" /\ out' = out \ {<<t, s>>}
      BY <2>4, <1>k DEF DrainSlot, TypeOK
    <3>2. ASSUME NEW r \in Roles \ left[m] PROVE work[t, r] # "alive" /\ <<t, r>> \notin out
      BY <1>3, <3>1 DEF DrainedSoFar
    <3>3. QED
      BY <3>1, <3>2
  <2>5. CASE DrainDone(m)
    <3>1. drain[m] = "running" /\ left[m] = {} /\ left'[m] = {}
      BY <2>5, <1>k DEF DrainDone, EndDrain, TypeOK
    <3>2. QED
      BY <1>3, <2>2, <3>1 DEF DrainedSoFar
  <2>6. CASE ResubmitDrain(m)
    <3>1. drain'[m] = "running" /\ left'[m] = RolesOf(t) /\ UNCHANGED <<work, out>>
      BY <2>6, <1>k DEF ResubmitDrain, SubmitDrain, TypeOK, world
    <3>2. QED
      BY <1>1, <1>3, <2>1, <3>1
  <2>7. QED
    BY <1>3, <1>k, <2>3, <2>4, <2>5, <2>6, DrainGoesOn
<1>4. QED
  BY <1>2, <1>3

LEMMA NothingWantedBack == ASSUME NoneRestarted PROVE Spec => [](Unwanted /\ DrainedSoFar)
<1>1. Init => Unwanted /\ DrainedSoFar
  <2>1. Init => \A m \in Machines : lease[m].phase = "free"
    BY DEF Init, NoLease
  <2>2. QED
    BY <2>1 DEF Unwanted, DrainedSoFar
<1>2. SlotsInv /\ SlotsInv' /\ Unwanted /\ DrainedSoFar /\ [Next]_vars
        => (Unwanted /\ DrainedSoFar)'
  BY UnwantedStep, DrainedStep DEF SlotsInv, PlacementInv
<1>3. QED
  BY <1>1, <1>2, SlotsInvariant, PTL DEF Spec

\* When the pass acts on a drain's result the result still holds: the workers are
\* down and the containers empty, whatever happened since the drain looked.
THEOREM DrainsStayTrue == ASSUME NoneRestarted PROVE Spec => []DrainedIsClean
<1>1. DrainedSoFar => DrainedIsClean
  BY DEF DrainedSoFar, DrainedIsClean
<1>2. QED
  BY <1>1, NothingWantedBack, PTL

\* So a release that ends discards no output.
THEOREM ReleasesDiscardNothing == ASSUME NoneRestarted PROVE Spec => ReleaseDiscardsNothing
<1>1. ASSUME TypeOK, DrainedIsClean, [Next]_vars PROVE ReleasedEmpty
  <2> SUFFICES ASSUME NEW m \in Machines, lease[m].phase = "releasing",
                      lease[m].tag \in exists, lease'[m] = NoLease, m \in pool'
               PROVE  \A r \in Roles : <<lease[m].tag, r>> \notin out
    BY DEF ReleasedEmpty
  <2>1. lease[m] # NoLease
    BY DEF NoLease
  <2>2. ~LeaseOrphaned(m) /\ ~LoseMachine(m) /\ ~LaunchRefused(m)
    BY DEF LeaseOrphaned, LoseMachine, LaunchRefused
  <2>3. FinishRelease(m)
    BY <1>1, <2>1, <2>2, LeaseEndsBy DEF Ends
  <2>4. drain[m] = "ok"
    BY <2>3 DEF FinishRelease
  <2>5. QED
    BY <1>1, <2>4 DEF DrainedIsClean
<1>2. QED
  BY <1>1, TypeCorrect, DrainsStayTrue, PTL DEF Spec, ReleaseDiscardsNothing

=============================================================================
