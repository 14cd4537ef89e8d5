------------------------- MODULE TagQueueLifeProofs -------------------------
(***************************************************************************)
(* The life of a tag in the queue, for every pool, set of tags and roles:  *)
(* why its lease ends, that it is not forgotten, and that the queue        *)
(* implements TagLifecycle.                                                *)
(***************************************************************************)
EXTENDS TagQueueSlotProofs

-----------------------------------------------------------------------------
\* A lease, by what it becomes.

\* The steps that change the lease of m, with what it becomes.
Releasing(m, q) == lease'[m] = Lease(lease[m].tag, "releasing", q)

Requeues(m) ==
  /\ Requeue(m) \/ (StopRental(m) /\ StopPlaced(m))
  /\ Releasing(m, TRUE)

Releases(m) ==
  /\ FailLease(m) \/ CompleteLease(m) \/ HandOver(m) \/ (StopRental(m) /\ StopHeld(m))
  /\ Releasing(m, lease[m].requeue)

Holds(m) == FailLease(m) /\ lease'[m] = InPhase(lease[m], "held")

Runs(m) ==
  /\ CompleteReservation(m) \/ \E i \in DOMAIN queue : StartRental(i, m)
  /\ lease'[m] = InPhase(lease[m], "running")

Begins(i, m) ==
  \/ Place(i, m) /\ lease'[m] = Lease(queue[i].tag, "running", FALSE)
  \/ /\ RecordRental(i, m) \/ \E S \in SUBSET Slots : PlaceRaises(i, m, S)
     /\ lease'[m] = Lease(queue[i].tag, "reserved", FALSE)

LEMMA LeaseChangesBy ==
  ASSUME TypeOK, [Next]_vars, NEW m \in Machines, lease'[m] # lease[m]
  PROVE  \/ Requeues(m) \/ Releases(m) \/ Holds(m) \/ Runs(m)
         \/ \E i \in DOMAIN queue : Begins(i, m)
         \/ Ends(m) /\ lease'[m] = NoLease
<1>1. ASSUME NEW n \in Machines, NEW l, lease' = [lease EXCEPT ![n] = l]
      PROVE  m = n /\ lease'[m] = l
  BY <1>1, OneLeaseSet
<1>2. ASSUME NEW n \in Machines, NEW l, StartRelease(n, l)
      PROVE  m = n /\ lease'[m] = InPhase(l, "releasing")
  BY <1>1, <1>2 DEF StartRelease
<1>3. ASSUME NEW n \in Machines, Requeue(n) \/ (StopRental(n) /\ StopPlaced(n))
      PROVE  Requeues(m)
  <2>1. StartRelease(n, Lease(lease[n].tag, lease[n].phase, TRUE))
    BY <1>3 DEF Requeue, StopPlaced, RequeueLease
  <2>2. m = n /\ lease'[m] = InPhase(Lease(lease[n].tag, lease[n].phase, TRUE), "releasing")
    BY <1>2, <2>1
  <2>3. Releasing(m, TRUE)
    BY <2>2 DEF Releasing, InPhase, Lease
  <2>4. QED
    BY <1>3, <2>2, <2>3 DEF Requeues
<1>4. ASSUME NEW n \in Machines, StartRelease(n, lease[n])
      PROVE  m = n /\ Releasing(m, lease[m].requeue)
  BY <1>2, <1>4 DEF Releasing, InPhase
<1>5. ASSUME NEW n \in Machines,
             CompleteLease(n) \/ HandOver(n) \/ (StopRental(n) /\ StopHeld(n))
      PROVE  Releases(m)
  <2>1. StartRelease(n, lease[n])
    BY <1>5 DEF CompleteLease, HandOver, StopHeld
  <2>2. QED
    BY <1>4, <1>5, <2>1 DEF Releases
<1>6. ASSUME NEW n \in Machines, FailLease(n) PROVE Releases(m) \/ Holds(m)
  <2>1. CASE StartRelease(n, lease[n])
    BY <1>4, <1>6, <2>1 DEF Releases
  <2>2. CASE lease' = [lease EXCEPT ![n] = InPhase(lease[n], "held")]
    <3>1. m = n /\ lease'[m] = InPhase(lease[n], "held")
      BY <1>1, <2>2
    <3>2. QED
      BY <1>6, <3>1 DEF Holds
  <2>3. QED
    BY <1>6, <2>1, <2>2 DEF FailLease
<1>7. ASSUME NEW n \in Machines, CompleteReservation(n) \/ \E i \in DOMAIN queue : StartRental(i, n)
      PROVE  Runs(m)
  <2>1. lease' = [lease EXCEPT ![n] = InPhase(lease[n], "running")]
    BY <1>7 DEF CompleteReservation, StartRental
  <2>2. m = n /\ lease'[m] = InPhase(lease[n], "running")
    BY <1>1, <2>1
  <2>3. QED
    BY <1>7, <2>2 DEF Runs
<1>8. ASSUME NEW i \in DOMAIN queue, NEW n \in Machines, Place(i, n)
      PROVE  Begins(i, m)
  <2>1. m = n /\ lease'[m] = Lease(queue[i].tag, "running", FALSE)
    BY <1>1, <1>8 DEF Place
  <2>2. QED
    BY <1>8, <2>1 DEF Begins
<1>9. ASSUME NEW i \in DOMAIN queue, NEW n \in Machines,
             RecordRental(i, n) \/ \E S \in SUBSET Slots : PlaceRaises(i, n, S)
      PROVE  Begins(i, m)
  <2>1. lease' = [lease EXCEPT ![n] = Lease(queue[i].tag, "reserved", FALSE)]
    BY <1>9 DEF RecordRental, PlaceRaises
  <2>2. m = n /\ lease'[m] = Lease(queue[i].tag, "reserved", FALSE)
    BY <1>1, <2>1
  <2>3. QED
    BY <1>9, <2>2 DEF Begins
<1>10. ASSUME NEW n \in Machines,
              LeaseOrphaned(n) \/ FinishRelease(n) \/ LoseMachine(n) \/ LaunchRefused(n)
       PROVE  Ends(m) /\ lease'[m] = NoLease
  <2>1. lease' = [lease EXCEPT ![n] = NoLease]
    BY <1>10 DEF LeaseOrphaned, FinishRelease, LoseMachine, LaunchRefused
  <2>2. m = n /\ lease'[m] = NoLease
    BY <1>1, <2>1
  <2>3. QED
    BY <1>10, <2>2 DEF Ends
<1>11. CASE ReconcileRentals
  <2>1. ~capacity /\ m \in Rentable /\ m \notin pool' /\ lease'[m] = NoLease
    BY <1>11 DEF ReconcileRentals
  <2>2. QED
    BY <1>11, <2>1 DEF Ends
<1>12. LeaseSteps
  BY StepKinds, OtherSteps
<1>13. QED
  BY <1>3, <1>5, <1>6, <1>7, <1>8, <1>9, <1>10, <1>11, <1>12, Zenon DEF LeaseSteps

-----------------------------------------------------------------------------
\* Why leases end.

\* The operator takes no slot from a leased tag.  (A running lease without slots
\* counts as finished; remove_worker and a task's deletion make one so.)
NoneRemoved == Operator \cap {"remove", "delete"} = {}

\* No restart cuts the loss of a rental short.  (Its slots, the machine with the
\* lease and the queue's entry are separate commits: a restart in between leaves
\* a lease without its slots, or a tag in nobody's hands.)
LossesWhole == "instance" \notin Faults \/ "dashboard" \notin Faults

LEMMA NewLease ==
  ASSUME NEW m \in Machines
  PROVE  /\ Requeues(m) => /\ lease'[m].tag = lease[m].tag
                           /\ lease'[m].phase = "releasing" /\ lease'[m].requeue
         /\ Releases(m) => /\ lease'[m].tag = lease[m].tag
                           /\ lease'[m].phase = "releasing"
                           /\ lease'[m].requeue = lease[m].requeue
         /\ Holds(m) => /\ lease'[m].tag = lease[m].tag /\ lease'[m].phase = "held"
                        /\ lease'[m].requeue = lease[m].requeue
         /\ Runs(m) => /\ lease'[m].tag = lease[m].tag /\ lease'[m].phase = "running"
                       /\ lease'[m].requeue = lease[m].requeue
         /\ \A i \in DOMAIN queue :
              Begins(i, m) => /\ lease'[m].tag = queue[i].tag /\ ~lease'[m].requeue
                              /\ \/ Place(i, m) /\ lease'[m].phase = "running"
                                 \/ /\ RecordRental(i, m) \/ \E S \in SUBSET Slots : PlaceRaises(i, m, S)
                                    /\ lease'[m].phase = "reserved"
<1>1. /\ \A t, p, q : Lease(t, p, q).tag = t /\ Lease(t, p, q).phase = p /\ Lease(t, p, q).requeue = q
      /\ \A l, p : /\ InPhase(l, p).tag = l.tag /\ InPhase(l, p).phase = p
                   /\ InPhase(l, p).requeue = l.requeue
  BY DEF Lease, InPhase
<1>2. ASSUME NEW q, Releasing(m, q)
      PROVE  lease'[m].tag = lease[m].tag /\ lease'[m].phase = "releasing" /\ lease'[m].requeue = q
  BY <1>2 DEF Releasing, Lease
<1>3. Requeues(m) => /\ lease'[m].tag = lease[m].tag
                     /\ lease'[m].phase = "releasing" /\ lease'[m].requeue
  BY <1>2 DEF Requeues
<1>4. Releases(m) => /\ lease'[m].tag = lease[m].tag
                     /\ lease'[m].phase = "releasing"
                     /\ lease'[m].requeue = lease[m].requeue
  BY <1>2 DEF Releases
<1>5. ASSUME NEW i \in DOMAIN queue, NEW p, lease'[m] = Lease(queue[i].tag, p, FALSE)
      PROVE  lease'[m].tag = queue[i].tag /\ ~lease'[m].requeue /\ lease'[m].phase = p
  BY <1>5 DEF Lease
<1>6. Holds(m) => /\ lease'[m].tag = lease[m].tag /\ lease'[m].phase = "held"
                  /\ lease'[m].requeue = lease[m].requeue
  BY <1>1 DEF Holds
<1>7. Runs(m) => /\ lease'[m].tag = lease[m].tag /\ lease'[m].phase = "running"
                 /\ lease'[m].requeue = lease[m].requeue
  BY <1>1 DEF Runs
<1>8. ASSUME NEW i \in DOMAIN queue, Begins(i, m)
      PROVE  /\ lease'[m].tag = queue[i].tag /\ ~lease'[m].requeue
             /\ \/ Place(i, m) /\ lease'[m].phase = "running"
                \/ /\ RecordRental(i, m) \/ \E S \in SUBSET Slots : PlaceRaises(i, m, S)
                   /\ lease'[m].phase = "reserved"
  BY <1>5, <1>8 DEF Begins
<1>9. QED
  BY <1>3, <1>4, <1>6, <1>7, <1>8

LEMMA StopsRunning ==
  ASSUME TypeOK, [Next]_vars, NEW m \in Machines, lease[m].phase = "running",
         lease'[m].phase \in {"held", "releasing"}
  PROVE  Requeues(m) \/ FailLease(m) \/ CompleteLease(m)
<1>1. lease'[m] # lease[m] /\ lease'[m] # NoLease
  BY DEF NoLease
<1>2. CASE Releases(m)
  <2>1. ~HandOver(m) /\ ~StopHeld(m)
    BY DEF HandOver, Advance, StopHeld
  <2>2. QED
    BY <1>2, <2>1 DEF Releases
<1>3. ~Runs(m) /\ ~\E i \in DOMAIN queue : Begins(i, m)
  BY NewLease
<1>4. QED
  BY <1>1, <1>2, <1>3, LeaseChangesBy DEF Holds

LEMMA StartsRunning ==
  ASSUME TypeOK, [Next]_vars, NEW m \in Machines, lease'[m].phase = "running",
         lease'[m] # lease[m]
  PROVE  \/ CompleteReservation(m) /\ lease'[m].tag = lease[m].tag
         \/ \E i \in DOMAIN queue :
              (Place(i, m) \/ StartRental(i, m)) /\ lease'[m].tag = queue[i].tag
<1>1. lease'[m] # NoLease
  BY DEF NoLease
<1>2. ~Requeues(m) /\ ~Releases(m) /\ ~Holds(m)
  BY NewLease
<1>3. CASE Runs(m)
  <2>1. lease'[m].tag = lease[m].tag
    BY <1>3, NewLease
  <2>2. QED
    BY <1>3, <2>1 DEF Runs, StartRental, LeasedOn
<1>4. ASSUME NEW i \in DOMAIN queue, Begins(i, m)
      PROVE  Place(i, m) /\ lease'[m].tag = queue[i].tag
  BY <1>4, NewLease
<1>5. QED
  BY <1>1, <1>2, <1>3, <1>4, LeaseChangesBy

\* Slots go with their release, with their rental or by the operator.
LEMMA SlotGoes ==
  ASSUME TypeOK, [Next]_vars, NEW x \in Slots, slot[x] # "none", slot'[x] = "none"
  PROVE  \/ \E t \in Tags : \/ DeleteTask(t) \/ \E S \in SUBSET Slots : DeletePartway(t, S)
                            \/ \E r \in Roles : RemoveSlot(t, r)
         \/ \E m \in Machines :
              /\ \/ FinishRelease(m)
                 \/ \E S \in SUBSET Slots : FinishPartway(m, S)
                 \/ \E r \in Roles : LoseSlot(m, r)
              /\ lease[m].tag = x[1]
<1>1. CASE slot' = slot
  BY <1>1
<1>2. ASSUME NEW t, PauseSlots(t) PROVE FALSE
  BY <1>2 DEF PauseSlots
<1>3. ASSUME NEW t, NEW m, StartSlots(t, m) PROVE FALSE
  BY <1>3 DEF StartSlots
<1>4. ASSUME NEW m \in Machines, FinishRelease(m) PROVE lease[m].tag = x[1]
  BY <1>4 DEF FinishRelease, DropSlots, Slots
<1>5. ASSUME NEW m \in Machines, NEW S \in SUBSET Slots, FinishPartway(m, S)
      PROVE  lease[m].tag = x[1]
  BY <1>5 DEF FinishPartway, DropSlots
<1>6. ASSUME NEW m \in Machines, NEW r \in Roles, LoseSlot(m, r) PROVE lease[m].tag = x[1]
  <2>1. x = <<lease[m].tag, r>>
    BY <1>6 DEF LoseSlot, DropSlots
  <2>2. QED
    BY <2>1
<1>7. ASSUME NEW m \in Machines,
             \/ Requeue(m) \/ (StopRental(m) /\ (StopPlaced(m) \/ StopHeld(m)))
             \/ LeaseOrphaned(m) \/ CompleteReservation(m) \/ FailLease(m)
             \/ CompleteLease(m) \/ HandOver(m) \/ LoseMachine(m) \/ LaunchRefused(m)
             \/ PauseFailed(m)
      PROVE  FALSE
  BY <1>1, <1>2, <1>7 DEF Requeue, StopPlaced, StopHeld, LeaseOrphaned, CompleteReservation,
     PauseFailed, FailLease, CompleteLease, HandOver, LoseMachine, LaunchRefused, RequeueLease
<1>8. ASSUME \/ ReconcileRentals
             \/ \E i \in DOMAIN queue, m \in Machines :
                  \/ Place(i, m) \/ RecordRental(i, m) \/ StartRental(i, m)
                  \/ \E S \in SUBSET Slots : PlaceRaises(i, m, S)
      PROVE  FALSE
  BY <1>1, <1>3, <1>8 DEF ReconcileRentals, Place, RecordRental, StartRental, PlaceRaises
<1>r. ASSUME NEW i \in DOMAIN queue, NEW m \in Machines, NEW S \in SUBSET Slots,
             RentalRaises(i, m, S)
      PROVE  FALSE
  BY <1>r DEF RentalRaises
<1>9. ASSUME NEW t \in Tags, NEW r \in Roles,
             StartSlot(t, r) \/ PauseSlot(t, r) \/ NoteFinished(t, r) \/ NoteFailed(t, r)
      PROVE  FALSE
  BY <1>9 DEF StartSlot, PauseSlot, NoteFinished, NoteFailed, TypeOK
<1>10. ASSUME NEW m \in Machines,
              \/ Release(m) \/ StartReserved(m) \/ \E r \in Roles : CreateReserved(m, r)
              \/ \E wanted \in BOOLEAN : ReservationRaises(m, wanted)
       PROVE  FALSE
  BY <1>10 DEF Release, StartReserved, CreateReserved, ReservationRaises, TypeOK
<1>11. CASE WorkSteps \/ DrainSteps \/ Calm
  <2>1. slot' = slot
    BY <1>11 DEF WorkSteps, WorkerExits, StopWorker, StartWorker, InstanceLost, DrainSteps,
       ResubmitDrain, DrainFailed, DrainRaises, DrainDone, DrainSlot, Crash, Calm, store
  <2>2. QED
    BY <2>1
<1>12. CASE LeaseSteps
  BY <1>4, <1>7, <1>8, <1>12, Zenon DEF LeaseSteps
<1>13. CASE SlotSteps
  BY <1>5, <1>6, <1>7, <1>r, <1>9, <1>10, <1>13, Zenon DEF SlotSteps
<1>14. QED
  BY <1>11, <1>12, <1>13, StepKinds

\* While the writer deals with a lost rental it does nothing else.
LEMMA Losing ==
  ASSUME [Next]_vars, at = "losing"
  PROVE  \/ UNCHANGED writer
         \/ \E m \in Machines : LoseMachine(m) \/ \E r \in Roles : LoseSlot(m, r)
         \/ Crash
<1>1. CASE UNCHANGED vars
  BY <1>1 DEF vars, writer
<1>2. CASE Commands
  BY <1>2 DEF Commands, Command, CreateTask, Enqueue, DeleteTask, DeletePartway, Dequeue, Move,
     Release, Requeue, AddMachine, RemoveMachine, StartSlot, PauseSlot, RemoveSlot, StopCloud,
     RemoveCapacity, SetCap
<1>3. CASE StopStep
  BY <1>3 DEF StopStep, StopEnds, StopRental
<1>4. CASE Tick
  <2>1. ASSUME NEW m \in Machines, AdvanceLease(m)
        PROVE  LoseMachine(m) \/ \E r \in Roles : LoseSlot(m, r)
    BY <2>1 DEF AdvanceLease, LeaseOrphaned, CompleteReservation, PauseFailed, FailLease,
       CompleteLease, HandOver, ResubmitDrain, DrainFailed, FinishRelease, FinishPartway,
       LeaseWaits, ReservationRaises, StartReserved, CreateReserved, Advance, Visit, Completing
  <2>2. QED
    BY <1>4, <2>1 DEF Tick, TickStarts, StaleDropped, AdvanceBuilds, ListingFails,
       ReconcileRentals, DropStaleEntry, LoseLease, LeasesAdvanced, Placed, TickEnds, Place,
       RecordRental, StartRental, PlaceRaises, RentalRaises, Launch, LaunchRefused
<1>5. CASE Threads
  BY <1>5 DEF Threads, DrainRaises, DrainDone, DrainSlot, BuildEnds
<1>6. CASE Workers
  BY <1>6 DEF Workers, WorkerExits, StopWorker, StartWorker, NoteFinished, NoteFailed
<1>7. CASE World
  BY <1>7 DEF World, InstanceLost, HandRun
<1>8. QED
  BY <1>1, <1>2, <1>3, <1>4, <1>5, <1>6, <1>7 DEF Next

\* No instance is seen lost that is not.
LEMMA LossSeenStep ==
  ASSUME TypeOK, LossSeen, [Next]_vars
  PROVE  LossSeen'
<1> SUFFICES ASSUME "instance" \notin Faults, at \notin {"losing", "lost"}, gone = {},
                    \A m \in Machines : inst[m] # "gone"
             PROVE  at' \notin {"losing", "lost"} /\ gone' = {} /\ \A m \in Machines : inst'[m] # "gone"
  BY DEF LossSeen
<1> DEFINE P == at' \notin {"losing", "lost"} /\ gone' = {} /\ \A m \in Machines : inst'[m] # "gone"
<1>1. CASE UNCHANGED <<gone, inst>> /\ at' \notin {"losing", "lost"}
  BY <1>1
<1>2. CASE UNCHANGED vars
  BY <1>2 DEF vars, writer, world
<1>3. CASE Commands
  <2>1. ASSUME NEW m \in Machines, RemoveMachine(m) PROVE P
    BY <2>1 DEF RemoveMachine, writer, TypeOK
  <2>2. CASE ~\E m \in Machines : RemoveMachine(m)
    <3>1. UNCHANGED <<gone, inst>> /\ at' \notin {"losing", "lost"}
      BY <1>3, <2>2 DEF Commands, Command, CreateTask, Enqueue, DeleteTask, DeletePartway, Dequeue,
         Move, Release, Requeue, AddMachine, StartSlot, PauseSlot, RemoveSlot, StopCloud,
         RemoveCapacity, SetCap, writer, world
    <3>2. QED
      BY <1>1, <3>1
  <2>3. QED
    BY <2>1, <2>2
<1>4. CASE StopStep
  <2>1. CASE StopEnds
    BY <2>1 DEF StopEnds, world
  <2>2. ASSUME NEW m \in Machines, StopRental(m) PROVE P
    <3>1. at' = at /\ gone' = gone
      BY <2>2 DEF StopRental
    <3>2. inst' = inst \/ inst' = [inst EXCEPT ![m] = "none"]
      BY <2>2 DEF StopRental, StopUnleased, StopPlaced, StopHeld, StopReleasing
    <3>3. QED
      BY <3>1, <3>2 DEF TypeOK
  <2>3. QED
    BY <1>4, <2>1, <2>2 DEF StopStep
<1>5. CASE Tick
  <2>1. ASSUME NEW m \in Machines, AdvanceLease(m) PROVE P
    <3>1. ~LoseMachine(m) /\ ~\E r \in Roles : LoseSlot(m, r)
      BY DEF LoseMachine, LoseSlot
    <3>2. UNCHANGED <<gone, inst>> /\ at' \notin {"losing", "lost"}
      BY <2>1, <3>1 DEF AdvanceLease, LeaseOrphaned, CompleteReservation, PauseFailed, FailLease,
         ReservationRaises, CompleteLease, HandOver, ResubmitDrain, DrainFailed, FinishRelease, FinishPartway,
         LeaseWaits, StartReserved, CreateReserved, Advance, Visit, Completing, writer, world
    <3>3. QED
      BY <1>1, <3>2
  <2>2. CASE ReconcileRentals
    <3>1. at' = "leases" /\ gone' \subseteq {m \in Machines : inst[m] = "gone"}
      BY <2>2 DEF ReconcileRentals, TypeOK
    <3>2. \A m \in Machines : inst'[m] \in {"none", "up", "stopped", inst[m]}
      BY <2>2 DEF ReconcileRentals
    <3>3. QED
      BY <3>1, <3>2
  <2>3. CASE \/ TickStarts \/ StaleDropped \/ AdvanceBuilds \/ ListingFails
             \/ LoseLease \/ LeasesAdvanced \/ Placed \/ TickEnds
             \/ \E i \in DOMAIN queue : DropStaleEntry(i)
    BY <2>3 DEF TickStarts, StaleDropped, AdvanceBuilds, ListingFails, LoseLease, LeasesAdvanced,
       Placed, TickEnds, DropStaleEntry, writer, world
  <2>4. ASSUME NEW m \in Machines,
               \/ Launch(m) \/ LaunchRefused(m)
               \/ \E i \in DOMAIN queue : Place(i, m) \/ RecordRental(i, m) \/ StartRental(i, m)
               \/ \E i \in DOMAIN queue, S \in SUBSET Slots :
                    PlaceRaises(i, m, S) \/ RentalRaises(i, m, S)
        PROVE  P
    <3>1. at' \notin {"losing", "lost"} /\ gone' = gone
      BY <2>4 DEF Launch, LaunchRefused, Place, RecordRental, StartRental, PlaceRaises,
         RentalRaises
    <3>2. \/ inst' = inst \/ inst' = [inst EXCEPT ![m] = "none"]
          \/ inst' = [inst EXCEPT ![m] = "up"]
      BY <2>4 DEF Launch, LaunchRefused, Place, RecordRental, StartRental, PlaceRaises,
         RentalRaises, world
    <3>3. QED
      BY <3>1, <3>2 DEF TypeOK
  <2>5. QED
    BY <1>5, <2>1, <2>2, <2>3, <2>4, Zenon DEF Tick
<1>6. CASE Threads \/ Workers
  <2>1. CASE Threads
    BY <2>1 DEF Threads, DrainRaises, DrainDone, DrainSlot, BuildEnds, writer, world
  <2>2. ASSUME NEW t \in Tags, NEW r \in Roles,
               \/ WorkerExits(t, r) \/ StopWorker(t, r) \/ StartWorker(t, r)
               \/ NoteFinished(t, r) \/ NoteFailed(t, r)
        PROVE  UNCHANGED <<at, gone, inst>>
    BY <2>2 DEF WorkerExits, StopWorker, StartWorker, NoteFinished, NoteFailed, writer, world
  <2>3. QED
    BY <1>6, <2>1, <2>2 DEF Workers
<1>7. CASE World
  BY <1>7 DEF World, Crash, InstanceLost, HandRun, Fault, writer, world
<1>8. QED
  BY <1>2, <1>3, <1>4, <1>5, <1>6, <1>7 DEF Next

\* A running lease keeps its layout of slots.
LEMMA RunningStep ==
  ASSUME NoneRemoved, LossesWhole, SlotsInv, TypeOK', LossSeen, RunningWhole, [Next]_vars
  PROVE  RunningWhole'
<1>k. TypeOK /\ OneLeasePerTag
  BY DEF SlotsInv, PlacementInv
<1> SUFFICES ASSUME NEW m \in Machines, lease'[m].phase = "running",
                    NEW r \in Roles, slot'[lease'[m].tag, r] = "none"
             PROVE  at' = "losing" /\ carry' = lease'[m]
  BY DEF RunningWhole
<1> DEFINE t == lease'[m].tag
<1>t. t \in Tags /\ <<t, r>> \in Slots /\ lease'[m] # NoLease
  <2>1. lease'[m] # NoLease
    <3>1. NoLease.phase # "running"
      BY DEF NoLease
    <3>2. QED
      BY <3>1
  <2>2. lease'[m] \in Leases
    BY <2>1 DEF TypeOK
  <2>3. t \in Tags
    BY <2>2 DEF Leases
  <2>4. QED
    BY <2>1, <2>3 DEF Slots
<1>1. CASE lease'[m] # lease[m]
  <2>1. CASE CompleteReservation(m) /\ t = lease[m].tag
    BY <2>1 DEF CompleteReservation
  <2>2. ASSUME NEW i \in DOMAIN queue, Place(i, m) \/ StartRental(i, m), t = queue[i].tag
        PROVE  FALSE
    <3>1. StartSlots(t, m)
      BY <2>2 DEF Place, StartRental
    <3>2. QED
      BY <1>t, <3>1 DEF StartSlots
  <2>3. QED
    BY <1>1, <1>k, <2>1, <2>2, StartsRunning
<1>2. CASE lease'[m] = lease[m]
  <2>u. ASSUME NEW n \in Machines, lease[n].tag = t PROVE n = m
    BY <1>2, <1>k, <1>t, <2>u DEF OneLeasePerTag
  <2>1. CASE at = "losing" /\ carry = lease[m]
    <3>1. CASE UNCHANGED writer
      BY <1>2, <2>1, <3>1 DEF writer
    <3>2. ASSUME NEW n \in Machines, LoseMachine(n) PROVE FALSE
      <4>1. lease[n].tag = t /\ lease' = [lease EXCEPT ![n] = NoLease]
        BY <1>2, <2>1, <3>2 DEF LoseMachine
      <4>2. n = m
        BY <4>1, <2>u
      <4>3. QED
        BY <1>k, <1>t, <4>1, <4>2 DEF TypeOK
    <3>3. ASSUME NEW n \in Machines, NEW s \in Roles, LoseSlot(n, s)
          PROVE  at' = "losing" /\ carry' = lease'[m]
      BY <1>2, <2>1, <3>3 DEF LoseSlot
    <3>4. CASE Crash
      BY <2>1, <3>4 DEF Crash, Fault, LossSeen, LossesWhole
    <3>5. QED
      BY <2>1, <3>1, <3>2, <3>3, <3>4, Losing
  <2>2. CASE ~(at = "losing" /\ carry = lease[m])
    <3>1. slot[t, r] # "none"
      BY <1>2, <2>2 DEF RunningWhole
    <3>2. ASSUME NEW u \in Tags, \/ DeleteTask(u) \/ \E S \in SUBSET Slots : DeletePartway(u, S)
                                 \/ \E s \in Roles : RemoveSlot(u, s)
          PROVE  FALSE
      BY <3>2 DEF DeleteTask, DeletePartway, RemoveSlot, Command, NoneRemoved
    <3>3. PICK n \in Machines :
            /\ \/ FinishRelease(n)
               \/ \E S \in SUBSET Slots : FinishPartway(n, S)
               \/ \E s \in Roles : LoseSlot(n, s)
            /\ lease[n].tag = t
      BY <1>k, <1>t, <3>1, <3>2, SlotGoes
    <3>4. n = m
      BY <2>u, <3>3
    <3>5. ~FinishRelease(m) /\ ~\E S \in SUBSET Slots : FinishPartway(m, S)
      BY <1>2 DEF FinishRelease, FinishPartway, Advance
    <3>6. QED
      BY <1>2, <3>3, <3>4, <3>5 DEF LoseSlot
  <2>3. QED
    BY <2>1, <2>2
<1>3. QED
  BY <1>1, <1>2

LEMMA RunningStaysWhole ==
  ASSUME NoneRemoved, LossesWhole PROVE Spec => [](LossSeen /\ RunningWhole)
<1>1. Init => LossSeen /\ RunningWhole
  <2>1. Init => /\ at = "idle" /\ gone = {}
                /\ \A m \in Machines : lease[m].phase = "free" /\ inst[m] = "none"
    BY DEF Init, NoLease
  <2>2. QED
    BY <2>1 DEF LossSeen, RunningWhole
<1>2. SlotsInv /\ SlotsInv' /\ LossSeen /\ RunningWhole /\ [Next]_vars
        => (LossSeen /\ RunningWhole)'
  BY LossSeenStep, RunningStep DEF SlotsInv, PlacementInv
<1>3. QED
  BY <1>1, <1>2, SlotsInvariant, PTL DEF Spec

\* A lease ends by itself only when its tag is done or has failed: by the whole
\* layout finished or one slot failed, never because slots are missing.
THEOREM LeaseEndsWithCause ==
  ASSUME NoneRemoved, LossesWhole PROVE Spec => EndsWithCause
<1>1. ASSUME TypeOK, RunningWhole, [Next]_vars PROVE EndedWithCause
  <2> SUFFICES ASSUME NEW m \in Machines, lease[m].phase = "running",
                      lease'[m].phase \in {"releasing", "held"}, ~lease'[m].requeue
               PROVE  \/ \A r \in Roles : slot[lease[m].tag, r] = "finished"
                      \/ \E r \in Roles : slot[lease[m].tag, r] = "failed"
    BY DEF EndedWithCause
  <2>1. ~Requeues(m)
    BY NewLease
  <2>2. CASE FailLease(m)
    BY <2>2 DEF FailLease, Failed
  <2>3. CASE CompleteLease(m)
    <3>1. at = "leases" /\ \A r \in Roles : slot[lease[m].tag, r] \in {"none", "finished"}
      BY <2>3 DEF CompleteLease, Finished, Advance, Visit
    <3>2. \A r \in Roles : slot[lease[m].tag, r] # "none"
      BY <1>1, <3>1 DEF RunningWhole
    <3>3. QED
      BY <3>1, <3>2
  <2>4. QED
    BY <1>1, <2>1, <2>2, <2>3, StopsRunning
<1>2. QED
  BY <1>1, TypeCorrect, RunningStaysWhole, PTL DEF Spec, EndsWithCause

-----------------------------------------------------------------------------
\* What becomes of a tag in the queue.

\* The steps that change the set of queued tags, with the change.
QueuePut(t) ==
  /\ \/ Enqueue(t)
     \/ \E m \in Machines : FinishRelease(m) /\ lease[m].requeue /\ lease[m].tag = t
     \/ LoseLease /\ WantsToRun(carry) /\ carry.tag = t
  /\ Queued' = Queued \cup {t}

QueueTaken(i) ==
  /\ \/ Dequeue(i) \/ DropStaleEntry(i)
     \/ \E m \in Machines : \/ Place(i, m) \/ StartRental(i, m)
                            \/ \E S \in SUBSET Slots : PlaceRaises(i, m, S) \/ RentalRaises(i, m, S)
  /\ Queued' = Queued \ {queue[i].tag}

LEMMA QueueChangesBy ==
  ASSUME PlacementInv, [Next]_vars
  PROVE  \/ Queued' = Queued
         \/ \E t \in Tags : QueuePut(t)
         \/ \E i \in DOMAIN queue : QueueTaken(i)
<1>k. TypeOK /\ QueuedOnce /\ queue \in Seq(Entries)
  BY DEF PlacementInv, TypeOK
<1>1. ASSUME queue' = queue PROVE Queued' = Queued
  BY <1>1 DEF Queued
<1>2. ASSUME NEW i \in DOMAIN queue, queue' = RemoveAt(queue, i)
      PROVE  Queued' = Queued \ {queue[i].tag}
  BY <1>2, <1>k, EntryRemoved
<1>3. ASSUME NEW i \in DOMAIN queue,
             \/ Dequeue(i) \/ DropStaleEntry(i)
             \/ \E m \in Machines :
                  \/ Place(i, m) \/ StartRental(i, m)
                  \/ \E S \in SUBSET Slots : PlaceRaises(i, m, S) \/ RentalRaises(i, m, S)
      PROVE  QueueTaken(i)
  <2>1. queue' = RemoveAt(queue, i)
    BY <1>3 DEF Dequeue, DropStaleEntry, Place, StartRental, PlaceRaises, RentalRaises
  <2>2. QED
    BY <1>2, <1>3, <2>1 DEF QueueTaken
<1>4. ASSUME NEW t \in Tags, Enqueue(t) PROVE QueuePut(t)
  <2>1. t \notin Queued /\ \E b \in {"none", "building"} : queue' = Append(queue, Entry(t, b))
    BY <1>4 DEF Enqueue
  <2>2. PICK b \in {"none", "building"} : queue' = Append(queue, Entry(t, b))
    BY <2>1
  <2>3. Entry(t, b) \in Entries /\ Entry(t, b).tag = t
    BY DEF Entry, Entries, Bundles
  <2>4. Queued' = Queued \cup {t}
    BY <1>k, <2>1, <2>2, <2>3, EntryAppended
  <2>5. QED
    BY <1>4, <2>4 DEF QueuePut
<1>5. ASSUME NEW t \in Tags, t \notin Queued, queue' = <<Requeued(t)>> \o queue
      PROVE  Queued' = Queued \cup {t}
  <2>1. Requeued(t) \in Entries /\ Requeued(t).tag = t
    BY RequeuedEntry
  <2>2. QED
    BY <1>5, <1>k, <2>1, EntryPrepended
<1>6. ASSUME NEW m \in Machines, FinishRelease(m)
      PROVE  Queued' = Queued \/ \E t \in Tags : QueuePut(t)
  <2>1. at = "leases" /\ lease[m].phase = "releasing"
    BY <1>6 DEF FinishRelease, Advance, Visit
  <2>2. lease[m].tag \in Tags /\ lease[m] # NoLease
    BY <1>k, <2>1, LeaseSorts DEF Phases
  <2>3. lease[m].tag \notin Queued
    BY <2>1, <2>2, VisitKnown DEF VisitStages
  <2>4. CASE lease[m].requeue
    <3>1. queue' = <<Requeued(lease[m].tag)>> \o queue
      BY <1>6, <2>4 DEF FinishRelease
    <3>2. QED
      BY <1>5, <1>6, <2>2, <2>3, <2>4, <3>1 DEF QueuePut
  <2>5. CASE ~lease[m].requeue
    BY <1>1, <1>6, <2>5 DEF FinishRelease
  <2>6. QED
    BY <2>4, <2>5
<1>7. ASSUME LoseLease PROVE Queued' = Queued \/ \E t \in Tags : QueuePut(t)
  <2>1. carry.tag \in Tags /\ carry.tag \notin Queued
    BY <1>7, <1>k DEF LoseLease, PlacementInv, LostTagOut, TypeOK, Leases
  <2>2. CASE WantsToRun(carry)
    <3>1. queue' = <<Requeued(carry.tag)>> \o queue
      BY <1>7, <2>2 DEF LoseLease
    <3>2. QED
      BY <1>5, <1>7, <2>1, <2>2, <3>1 DEF QueuePut
  <2>3. CASE ~WantsToRun(carry)
    BY <1>1, <1>7, <2>3 DEF LoseLease
  <2>4. QED
    BY <2>2, <2>3
<1>8. ASSUME NEW i \in DOMAIN queue, Move(i) PROVE Queued' = Queued
  BY <1>8, <1>k, EntriesExchanged DEF Move
<1>9. ASSUME AdvanceBuilds PROVE Queued' = Queued
  <2>1. DOMAIN queue' = DOMAIN queue /\ \A i \in DOMAIN queue : queue'[i].tag = queue[i].tag
    BY <1>9 DEF AdvanceBuilds, Entry
  <2>2. QED
    BY <2>1 DEF Queued
<1>10. CASE UNCHANGED vars
  BY <1>1, <1>10 DEF vars, store
<1>11. CASE Commands
  <2>1. CASE \/ \E t \in Tags : CreateTask(t) \/ DeleteTask(t)
             \/ \E t \in Tags, S \in SUBSET Slots : DeletePartway(t, S)
             \/ \E m \in Machines : Release(m) \/ Requeue(m) \/ AddMachine(m) \/ RemoveMachine(m)
             \/ \E t \in Tags, r \in Roles : StartSlot(t, r) \/ PauseSlot(t, r) \/ RemoveSlot(t, r)
             \/ StopCloud \/ RemoveCapacity
             \/ \E n \in 0 .. MaxCap : SetCap(n)
    BY <1>1, <2>1 DEF CreateTask, DeleteTask, DeletePartway, Release, Requeue, AddMachine,
       RemoveMachine, StartSlot, PauseSlot, RemoveSlot, StopCloud, RemoveCapacity, SetCap
  <2>2. QED
    BY <1>3, <1>4, <1>8, <1>11, <2>1, Zenon DEF Commands
<1>12. CASE StopStep
  BY <1>1, <1>12 DEF StopStep, StopEnds, StopRental, store
<1>13. CASE Tick
  <2>1. ASSUME NEW m \in Machines, AdvanceLease(m), ~FinishRelease(m) PROVE queue' = queue
    BY <2>1 DEF AdvanceLease, LeaseOrphaned, CompleteReservation, PauseFailed, FailLease,
       CompleteLease, HandOver, ResubmitDrain, DrainFailed, FinishPartway, LeaseWaits,
       ReservationRaises, StartReserved, LoseMachine, CreateReserved, LoseSlot, store
  <2>2. ASSUME NEW m \in Machines, AdvanceLease(m)
        PROVE  Queued' = Queued \/ \E t \in Tags : QueuePut(t)
    BY <1>1, <1>6, <2>1, <2>2, Zenon
  <2>3. CASE \/ TickStarts \/ StaleDropped \/ ListingFails \/ ReconcileRentals
             \/ LeasesAdvanced \/ Placed \/ TickEnds
             \/ \E m \in Machines : Launch(m) \/ LaunchRefused(m)
             \/ \E i \in DOMAIN queue, m \in Machines : RecordRental(i, m)
    BY <1>1, <2>3 DEF TickStarts, StaleDropped, ListingFails, ReconcileRentals, LeasesAdvanced,
       Placed, TickEnds, Launch, LaunchRefused, RecordRental, store
  <2>4. QED
    BY <1>3, <1>7, <1>9, <1>13, <2>2, <2>3, Zenon DEF Tick
<1>14. CASE Threads \/ Workers
  <2>1. ASSUME NEW t \in Tags, NEW r \in Roles,
               \/ WorkerExits(t, r) \/ StopWorker(t, r) \/ StartWorker(t, r)
               \/ NoteFinished(t, r) \/ NoteFailed(t, r)
        PROVE  queue' = queue
    BY <2>1 DEF WorkerExits, StopWorker, StartWorker, NoteFinished, NoteFailed, store
  <2>2. CASE Threads
    BY <1>1, <2>2 DEF Threads, DrainRaises, DrainDone, DrainSlot, BuildEnds, store
  <2>3. QED
    BY <1>1, <1>14, <2>1, <2>2 DEF Workers
<1>15. CASE World
  BY <1>1, <1>15 DEF World, Crash, InstanceLost, HandRun, store
<1>16. QED
  BY <1>10, <1>11, <1>12, <1>13, <1>14, <1>15 DEF Next

\* Nothing happens between a lost rental's last two commits but a restart.
LEMMA Lost ==
  ASSUME [Next]_vars, at = "lost"
  PROVE  UNCHANGED <<lease, queue, writer>> \/ LoseLease \/ Crash
<1>1. CASE UNCHANGED vars
  BY <1>1 DEF vars, store
<1>2. CASE Commands
  BY <1>2 DEF Commands, Command, CreateTask, Enqueue, DeleteTask, DeletePartway, Dequeue, Move,
     Release, Requeue, AddMachine, RemoveMachine, StartSlot, PauseSlot, RemoveSlot, StopCloud,
     RemoveCapacity, SetCap
<1>3. CASE StopStep
  BY <1>3 DEF StopStep, StopEnds, StopRental
<1>4. CASE Tick
  <2>1. ASSUME NEW m \in Machines, AdvanceLease(m) PROVE FALSE
    BY <2>1 DEF AdvanceLease, LeaseOrphaned, CompleteReservation, PauseFailed, FailLease,
       CompleteLease, HandOver, ResubmitDrain, DrainFailed, FinishRelease, FinishPartway,
       LeaseWaits, ReservationRaises, StartReserved, CreateReserved, LoseMachine, LoseSlot, Advance, Visit, Completing
  <2>2. QED
    BY <1>4, <2>1 DEF Tick, TickStarts, StaleDropped, AdvanceBuilds, ListingFails,
       ReconcileRentals, DropStaleEntry, LeasesAdvanced, Placed, TickEnds, Place,
       RecordRental, StartRental, PlaceRaises, RentalRaises, Launch, LaunchRefused
<1>5. CASE Threads
  BY <1>5 DEF Threads, DrainRaises, DrainDone, DrainSlot, BuildEnds, store
<1>6. CASE Workers
  <2>1. ASSUME NEW t \in Tags, NEW r \in Roles,
               \/ WorkerExits(t, r) \/ StopWorker(t, r) \/ StartWorker(t, r)
               \/ NoteFinished(t, r) \/ NoteFailed(t, r)
        PROVE  UNCHANGED <<lease, queue, writer>>
    BY <2>1 DEF WorkerExits, StopWorker, StartWorker, NoteFinished, NoteFailed, store
  <2>2. QED
    BY <1>6, <2>1 DEF Workers
<1>7. CASE World
  BY <1>7 DEF World, InstanceLost, HandRun, store
<1>8. QED
  BY <1>1, <1>2, <1>3, <1>4, <1>5, <1>6, <1>7 DEF Next

-----------------------------------------------------------------------------
\* No tag is forgotten.

\* A tag whose machine keeps or gets its lease is on a machine.
LEMMA LeasedAt ==
  ASSUME PlacementInv, NEW t \in Tags, NEW m \in Machines, lease[m].tag = t
  PROVE  lease[m] # NoLease /\ m \in pool /\ Leased(t)
<1>1. lease[m] # NoLease /\ m \in pool
  BY LeaseSorts DEF PlacementInv, LeasesPooled
<1>2. QED
  BY <1>1 DEF Leased, LeasedOn

LEMMA LeasedNext ==
  ASSUME PlacementInv', NEW t \in Tags, NEW m \in Machines, lease'[m].tag = t
  PROVE  m \in pool' /\ Leased(t)'
<1>1. lease'[m] # NoLease
  BY NullAssumption DEF NoLease
<1>2. m \in pool'
  BY <1>1 DEF PlacementInv, LeasesPooled
<1>3. QED
  BY <1>2 DEF Leased, LeasedOn

\* A tag whose lease ends is queued, or in the writer's hands, unless it is not
\* to run again or its task is gone.
LEMMA EndsInCustody ==
  ASSUME SlotsInv, CapacityKept, [Next]_vars, NEW t \in Tags, NEW m \in Machines,
         lease[m].tag = t, lease'[m] = NoLease, t \in exists, WantsToRun(lease[m])
  PROVE  InCustody(t)'
<1>k. PlacementInv /\ TypeOK /\ QueuedOnce /\ queue \in Seq(Entries)
  BY DEF SlotsInv, PlacementInv, TypeOK
<1>1. Ends(m)
  BY <1>k, LeasedAt, LeaseEndsBy
<1>2. ~LeaseOrphaned(m)
  BY DEF LeaseOrphaned
<1>3. CASE FinishRelease(m)
  <2>1. at = "leases" /\ lease[m].phase = "releasing"
    BY <1>3 DEF FinishRelease, Advance, Visit
  <2>2. queue' = <<Requeued(t)>> \o queue
    BY <1>3, <2>1 DEF FinishRelease, WantsToRun
  <2>3. t \notin Queued
    BY <1>k, <2>1, LeasedAt, VisitKnown DEF VisitStages
  <2>4. Queued' = Queued \cup {t}
    BY <1>k, <2>2, <2>3, RequeuedEntry, EntryPrepended
  <2>5. QED
    BY <2>4 DEF InCustody
<1>4. CASE LoseMachine(m)
  <2>1. at' = "lost" /\ carry' = lease[m]
    BY <1>4 DEF LoseMachine
  <2>2. carry'.tag = t /\ WantsToRun(carry)'
    BY <2>1 DEF WantsToRun
  <2>3. QED
    BY <2>1, <2>2 DEF InCustody
<1>5. CASE LaunchRefused(m)
  <2>1. t \in Queued /\ queue' = queue
    BY <1>5 DEF LaunchRefused, SlotsInv, RentalReserved
  <2>2. QED
    BY <2>1 DEF InCustody, Queued
<1>6. QED
  BY <1>1, <1>2, <1>3, <1>4, <1>5 DEF Ends, CapacityKept

LEMMA CustodyStep ==
  ASSUME LossesWhole, SlotsInv, SlotsInv', CapacityKept, LossSeen, [Next]_vars
  PROVE  StaysInCustody
<1>k. PlacementInv /\ PlacementInv' /\ TypeOK
  BY DEF SlotsInv, PlacementInv
<1> SUFFICES ASSUME NEW t \in Tags, InCustody(t), t \in exists, ~(at = "idle" /\ t \in Queued),
                    ~\E m \in Machines : LeasedOn(m, t) /\ ~WantsToRun(lease[m])
             PROVE  InCustody(t)'
  BY DEF StaysInCustody
<1>1. CASE Leased(t)
  <2>1. PICK m \in Machines : lease[m].tag = t
    BY <1>1, <1>k DEF Leased, LeasedOn, TypeOK
  <2>2. lease[m] # NoLease /\ WantsToRun(lease[m])
    BY <1>k, <2>1, LeasedAt DEF LeasedOn
  <2>3. CASE lease'[m] = NoLease
    BY <2>1, <2>2, <2>3, EndsInCustody
  <2>4. CASE lease'[m] # NoLease
    <3>1. lease'[m].tag = t
      BY <1>k, <2>1, <2>2, <2>4, LeaseKeepsTag DEF PlacementInv
    <3>2. QED
      BY <1>k, <3>1, LeasedNext DEF InCustody
  <2>5. QED
    BY <2>3, <2>4
<1>2. CASE at = "lost" /\ carry.tag = t /\ WantsToRun(carry)
  <2>1. CASE UNCHANGED <<lease, queue, writer>>
    <3>1. at' = "lost" /\ carry' = carry
      BY <1>2, <2>1 DEF writer
    <3>2. WantsToRun(carry)'
      BY <1>2, <3>1 DEF WantsToRun
    <3>3. QED
      BY <1>2, <3>1, <3>2 DEF InCustody
  <2>2. CASE LoseLease
    <3>1. queue' = <<Requeued(t)>> \o queue /\ t \notin Queued
      BY <1>2, <1>k, <2>2 DEF LoseLease, PlacementInv, LostTagOut
    <3>2. Queued' = Queued \cup {t}
      BY <1>k, <3>1, RequeuedEntry, EntryPrepended DEF PlacementInv, TypeOK
    <3>3. QED
      BY <3>2 DEF InCustody
  <2>3. CASE Crash
    BY <1>2, <2>3 DEF Crash, Fault, LossSeen, LossesWhole
  <2>4. QED
    BY <1>2, <2>1, <2>2, <2>3, Lost
<1>3. CASE t \in Queued /\ ~Leased(t)
  <2>1. CASE Queued' = Queued \/ \E u \in Tags : QueuePut(u)
    BY <1>3, <2>1 DEF QueuePut, InCustody
  <2>2. ASSUME NEW i \in DOMAIN queue, QueueTaken(i), queue[i].tag = t PROVE InCustody(t)'
    <3>1. ~Dequeue(i)
      BY <1>3 DEF Dequeue, Command
    <3>2. ~DropStaleEntry(i)
      BY <1>3, <2>2 DEF DropStaleEntry, Stale
    <3>3. PICK m \in Machines : \/ Place(i, m) \/ StartRental(i, m)
                                \/ \E S \in SUBSET Slots : PlaceRaises(i, m, S)
      <4>1. ASSUME NEW m \in Machines, NEW S \in SUBSET Slots, RentalRaises(i, m, S)
            PROVE  FALSE
        BY <1>3, <2>2, <1>k, <4>1, LeasedAt DEF RentalRaises, LeasedOn
      <4>2. QED
        BY <2>2, <3>1, <3>2, <4>1 DEF QueueTaken
    <3>4. lease'[m].tag = t
      <4>1. CASE StartRental(i, m)
        BY <1>3, <2>2, <1>k, <4>1, LeasedAt DEF StartRental, LeasedOn
      <4>2. CASE Place(i, m) \/ \E S \in SUBSET Slots : PlaceRaises(i, m, S)
        <5>1. \E p : lease' = [lease EXCEPT ![m] = Lease(t, p, FALSE)]
          BY <2>2, <4>2 DEF Place, PlaceRaises
        <5>2. QED
          BY <1>k, <5>1 DEF TypeOK, Lease
      <4>3. QED
        BY <3>3, <4>1, <4>2
    <3>5. QED
      BY <1>k, <3>4, LeasedNext DEF InCustody
  <2>3. ASSUME NEW i \in DOMAIN queue, QueueTaken(i), queue[i].tag # t PROVE InCustody(t)'
    BY <1>3, <2>3 DEF QueueTaken, InCustody
  <2>4. QED
    BY <1>k, <2>1, <2>2, <2>3, QueueChangesBy
<1>4. QED
  BY <1>1, <1>2, <1>3 DEF InCustody

\* A tag to run is always queued, on a machine, or in the writer's hands, until
\* its task is deleted or the operator dequeues it: no release, refused launch,
\* lost rental or restart forgets it.
THEOREM NoTagForgotten == ASSUME NoneDropped, LossesWhole PROVE Spec => CustodyKept
<1>1. Init => LossSeen
  BY DEF Init, LossSeen
<1>2. TypeOK /\ LossSeen /\ [Next]_vars => LossSeen'
  BY LossSeenStep
<1>3. SlotsInv /\ SlotsInv' /\ CapacityKept /\ LossSeen /\ [Next]_vars => StaysInCustody
  BY CustodyStep
<1>4. QED
  BY <1>1, <1>2, <1>3, TypeCorrect, SlotsInvariant, CapacityNeverDropped, PTL DEF Spec, CustodyKept

-----------------------------------------------------------------------------
\* The queue implements TagLifecycle.

\* Queued, or in the writer's hands on its way back.
Waiting(t) == t \in Queued \/ (at = "lost" /\ carry.tag = t /\ WantsToRun(carry))

\* The life of a tag that a machine leases, and of one that none does.
LEMMA LifeLeased ==
  ASSUME PlacementInv, NEW t \in Tags, NEW m \in Machines, lease[m].tag = t
  PROVE  Leased(t) /\ Life(t) = LifeUnder(lease[m]) /\ MachineOf(t) = m
<1>1. Leased(t) /\ lease[m] # NoLease
  BY LeasedAt
<1>2. \A n \in Machines : LeasedOn(n, t) <=> n = m
  BY <1>1 DEF LeasedOn, PlacementInv, OneLeasePerTag
<1>3. (CHOOSE n \in Machines : LeasedOn(n, t)) = m
  BY <1>2
<1>4. QED
  BY <1>1, <1>3 DEF Life, LeaseOf, MachineOf

LEMMA LifeLeasedNext ==
  ASSUME PlacementInv', NEW t \in Tags, NEW m \in Machines, lease'[m].tag = t
  PROVE  Life(t)' = LifeUnder(lease'[m]) /\ MachineOf(t)' = m
<1>1. Leased(t)' /\ lease'[m] # NoLease
  BY LeasedNext, NullAssumption DEF NoLease
<1>2. \A n \in Machines : LeasedOn(n, t)' <=> n = m
  BY <1>1 DEF LeasedOn, PlacementInv, OneLeasePerTag
<1>3. (CHOOSE n \in Machines : LeasedOn(n, t)') = m
  BY <1>2
<1>4. QED
  BY <1>1, <1>3 DEF Life, LeaseOf, MachineOf, LifeUnder

LEMMA LifeFree ==
  ASSUME TypeOK, NEW t \in Tags, \A m \in Machines : lease[m].tag # t
  PROVE  /\ ~Leased(t) /\ MachineOf(t) = NoMachine
         /\ Life(t) = IF Waiting(t) THEN "queued" ELSE "idle"
<1>1. ~Leased(t)
  BY DEF TypeOK, Leased, LeasedOn
<1>2. QED
  BY <1>1 DEF Life, MachineOf, InCustody, Waiting

LEMMA LifeFreeNext ==
  ASSUME TypeOK', NEW t \in Tags, \A m \in Machines : lease'[m].tag # t
  PROVE  /\ MachineOf(t)' = NoMachine
         /\ Life(t)' = IF Waiting(t)' THEN "queued" ELSE "idle"
<1>1. ~Leased(t)'
  BY DEF TypeOK, Leased, LeasedOn
<1>2. QED
  BY <1>1 DEF Life, MachineOf, InCustody, Waiting

\* A tag whose lease stays, or that waits as before, lives as before.
LEMMA SameLife ==
  ASSUME PlacementInv, PlacementInv', NEW t \in Tags,
         \A m \in Machines : lease[m].tag = t \/ lease'[m].tag = t => lease'[m] = lease[m],
         Leased(t) \/ (Waiting(t)' <=> Waiting(t))
  PROVE  Life(t)' = Life(t) /\ MachineOf(t)' = MachineOf(t)
<1>k. TypeOK /\ TypeOK'
  BY DEF PlacementInv
<1>1. CASE \E m \in Machines : lease[m].tag = t
  <2>1. PICK m \in Machines : lease[m].tag = t
    BY <1>1
  <2>2. lease'[m] = lease[m]
    BY <2>1
  <2>3. QED
    BY <2>1, <2>2, LifeLeased, LifeLeasedNext
<1>2. CASE \A m \in Machines : lease[m].tag # t
  <2>1. \A m \in Machines : lease'[m].tag # t
    BY <1>2
  <2>2. ~Leased(t)
    BY <1>2, <1>k, LifeFree
  <2>3. QED
    BY <1>2, <1>k, <2>1, <2>2, LifeFree, LifeFreeNext
<1>3. QED
  BY <1>1, <1>2

\* Only the lease of one machine changes in a step.
LEMMA OthersKeepLease ==
  ASSUME TypeOK, CapacityKept, [Next]_vars, NEW m \in Machines, lease'[m] # lease[m],
         NEW n \in Machines, n # m
  PROVE  lease'[n] = lease[n]
<1>1. ASSUME NEW k \in Machines, NEW l, lease' = [lease EXCEPT ![k] = l]
      PROVE  lease'[n] = lease[n]
  <2>1. m = k
    BY <1>1, OneLeaseSet
  <2>2. QED
    BY <1>1, <2>1, OneLeaseSet
<1>2. ASSUME NEW k \in Machines,
             \/ Requeue(k) \/ (StopRental(k) /\ (StopPlaced(k) \/ StopHeld(k)))
             \/ LeaseOrphaned(k) \/ CompleteReservation(k) \/ FailLease(k)
             \/ CompleteLease(k) \/ HandOver(k) \/ FinishRelease(k) \/ LoseMachine(k)
             \/ LaunchRefused(k)
      PROVE  \E l : lease' = [lease EXCEPT ![k] = l]
  BY <1>2 DEF Requeue, StopPlaced, StopHeld, LeaseOrphaned, CompleteReservation, FailLease,
     CompleteLease, HandOver, FinishRelease, LoseMachine, LaunchRefused, RequeueLease,
     StartRelease
<1>3. ASSUME NEW i \in DOMAIN queue, NEW k \in Machines,
             \/ Place(i, k) \/ RecordRental(i, k) \/ StartRental(i, k)
             \/ \E S \in SUBSET Slots : PlaceRaises(i, k, S)
      PROVE  \E l : lease' = [lease EXCEPT ![k] = l]
  BY <1>3 DEF Place, RecordRental, StartRental, PlaceRaises
<1>4. CASE ReconcileRentals
  <2>1. ~capacity /\ m \in Rentable
    BY <1>4 DEF ReconcileRentals
  <2>2. QED
    BY <2>1 DEF CapacityKept
<1>5. LeaseSteps
  BY StepKinds, OtherSteps
<1>6. QED
  BY <1>1, <1>2, <1>3, <1>4, <1>5, Zenon DEF LeaseSteps

\* A tag is in the writer's hands from the loss of its machine on.
LEMMA ToLost ==
  ASSUME [Next]_vars, at' = "lost"
  PROVE  (at = "lost" /\ carry' = carry) \/ \E m \in Machines : LoseMachine(m)
<1>1. CASE UNCHANGED <<exists, queue, lease, writer>>
  BY <1>1 DEF writer
<1>2. CASE Tick
  <2>1. ASSUME NEW m \in Machines, AdvanceLease(m) PROVE LoseMachine(m)
    BY <2>1 DEF AdvanceLease, LeaseOrphaned, CompleteReservation, PauseFailed, FailLease,
       CompleteLease, HandOver, ResubmitDrain, DrainFailed, FinishRelease, FinishPartway,
       LeaseWaits, ReservationRaises, StartReserved, CreateReserved, LoseSlot, Advance, Visit, writer
  <2>2. QED
    BY <1>2, <2>1 DEF Tick, TickStarts, StaleDropped, AdvanceBuilds, ListingFails, LoseLease,
       ReconcileRentals, DropStaleEntry, LeasesAdvanced, Placed, TickEnds, Place, writer,
       RecordRental, StartRental, PlaceRaises, RentalRaises, Launch, LaunchRefused
<1>3. QED
  BY <1>1, <1>2, WriterGoes

\* Only two commands change which tasks there are.
LEMMA TasksChangeBy ==
  ASSUME [Next]_vars
  PROVE  exists' = exists \/ \E t \in Tags : CreateTask(t) \/ DeleteTask(t)
<1>1. CASE UNCHANGED vars \/ StopStep
  BY <1>1 DEF vars, store, StopStep, StopEnds, StopRental
<1>2. CASE Commands
  BY <1>2 DEF Commands, Enqueue, DeletePartway, Dequeue, Move, Release, Requeue, AddMachine,
     RemoveMachine, StartSlot, PauseSlot, RemoveSlot, StopCloud, RemoveCapacity, SetCap
<1>3. CASE Tick
  <2>1. ASSUME NEW m \in Machines, AdvanceLease(m) PROVE exists' = exists
    BY <2>1 DEF AdvanceLease, LeaseOrphaned, CompleteReservation, PauseFailed, FailLease,
       CompleteLease, HandOver, ResubmitDrain, DrainFailed, FinishRelease, FinishPartway,
       LeaseWaits, ReservationRaises, StartReserved, LoseMachine, CreateReserved, LoseSlot, store
  <2>2. QED
    BY <1>3, <2>1 DEF Tick, TickStarts, StaleDropped, AdvanceBuilds, ListingFails, LoseLease,
       ReconcileRentals, DropStaleEntry, LeasesAdvanced, Placed, TickEnds, Place,
       RecordRental, StartRental, PlaceRaises, RentalRaises, Launch, LaunchRefused, store
<1>4. CASE Threads \/ World
  BY <1>4 DEF Threads, DrainRaises, DrainDone, DrainSlot, BuildEnds, World, Crash, InstanceLost,
     HandRun, store
<1>5. CASE Workers
  BY <1>5 DEF Workers, WorkerExits, StopWorker, StartWorker, NoteFinished, NoteFailed, store
<1>6. QED
  BY <1>1, <1>2, <1>3, <1>4, <1>5 DEF Next

\* The lives of all tags, when one tag's changes and when none does.
LEMMA OneLife ==
  ASSUME NEW t \in Tags, NEW s, NEW n, Life(t)' = s, MachineOf(t)' = n,
         \A u \in Tags : u # t => Life(u)' = Life(u) /\ MachineOf(u)' = MachineOf(u)
  PROVE  Lives' = [Lives EXCEPT ![t] = s] /\ MachinesOf' = [MachinesOf EXCEPT ![t] = n]
<1>1. Lives' = [u \in Tags |-> Life(u)'] /\ MachinesOf' = [u \in Tags |-> MachineOf(u)']
  BY DEF Lives, MachinesOf
<1>2. /\ [Lives EXCEPT ![t] = s] = [u \in Tags |-> IF u = t THEN s ELSE Life(u)]
      /\ [MachinesOf EXCEPT ![t] = n] = [u \in Tags |-> IF u = t THEN n ELSE MachineOf(u)]
  BY DEF Lives, MachinesOf
<1>3. QED
  BY <1>1, <1>2

LEMMA NoLife ==
  ASSUME \A u \in Tags : Life(u)' = Life(u) /\ MachineOf(u)' = MachineOf(u)
  PROVE  Lives' = Lives /\ MachinesOf' = MachinesOf
<1>1. /\ Lives' = [u \in Tags |-> Life(u)']
      /\ MachinesOf' = [u \in Tags |-> MachineOf(u)']
  BY DEF Lives, MachinesOf
<1>2. QED
  BY <1>1 DEF Lives, MachinesOf

\* One tag's life alone, its machine as before.
LEMMA OneLifeThere ==
  ASSUME NEW t \in Tags, NEW s, Life(t)' = s, MachineOf(t)' = MachineOf(t),
         \A u \in Tags : u # t => Life(u)' = Life(u) /\ MachineOf(u)' = MachineOf(u)
  PROVE  Lives' = [Lives EXCEPT ![t] = s] /\ MachinesOf' = MachinesOf
<1>1. Lives' = [Lives EXCEPT ![t] = s]
  BY OneLife
<1>2. MachinesOf' = MachinesOf
  <2>1. MachinesOf' = [u \in Tags |-> MachineOf(u)']
    BY DEF MachinesOf
  <2>2. QED
    BY <2>1 DEF MachinesOf
<1>3. QED
  BY <1>1, <1>2

\* Placing a tag changes a lease.
LEMMA PlacingLeases ==
  ASSUME SlotsInv, NEW i \in DOMAIN queue, NEW m \in Machines,
         \/ Place(i, m) \/ StartRental(i, m) \/ \E S \in SUBSET Slots : PlaceRaises(i, m, S)
  PROVE  lease'[m] # lease[m] /\ lease'[m].tag = queue[i].tag
<1>k. TypeOK
  BY DEF SlotsInv, PlacementInv
<1>1. CASE StartRental(i, m)
  <2>1. lease'[m] = InPhase(lease[m], "running")
    BY <1>1, <1>k DEF StartRental, TypeOK
  <2>2. lease[m] = Lease(lease[m].tag, "reserved", FALSE)
    BY <1>1 DEF StartRental, SlotsInv, RentalReserved
  <2>3. lease[m].phase = "reserved"
    BY <2>2 DEF Lease
  <2>4. lease'[m].phase = "running" /\ lease'[m].tag = lease[m].tag
    BY <2>1 DEF InPhase, Lease
  <2>5. QED
    BY <1>1, <2>3, <2>4 DEF StartRental, LeasedOn
<1>2. CASE Place(i, m) \/ \E S \in SUBSET Slots : PlaceRaises(i, m, S)
  <2>1. at = "placing" /\ <<queue[i].tag, m>> \in plan
        /\ \E p \in Phases : lease' = [lease EXCEPT ![m] = Lease(queue[i].tag, p, FALSE)]
    BY <1>2 DEF Place, PlaceRaises, Phases
  <2>2. PICK p \in Phases : lease'[m] = Lease(queue[i].tag, p, FALSE)
    BY <1>k, <2>1 DEF TypeOK
  <2>3. lease[m] = NoLease
    BY <2>1 DEF SlotsInv, PlanFree
  <2>4. p # "free" /\ lease'[m].tag = queue[i].tag
    BY <2>2 DEF Phases, Lease
  <2>5. QED
    BY <2>2, <2>3, <2>4, NotFree
<1>3. QED
  BY <1>1, <1>2

\* The loss of a rental takes a lease away.
LEMMA LosingUnleases ==
  ASSUME TypeOK, NEW m \in Machines, LoseMachine(m)
  PROVE  /\ lease[m] # NoLease /\ lease'[m] = NoLease
         /\ at' = "lost" /\ carry' = lease[m] /\ queue' = queue
<1>1. lease[m].tag \in Tags /\ lease'[m] = NoLease
  BY DEF LoseMachine, TypeOK
<1>2. QED
  BY <1>1, LeaseSorts DEF LoseMachine

\* While no lease changes, a tag's life changes only by the operator's commands,
\* the dropping of a stale entry, or a restart.
LEMMA FreeStep ==
  ASSUME SlotsInv, SlotsInv', [Next]_vars, lease' = lease
  PROVE  [Lifecycle!Next]_(Lifecycle!vars)
<1>k. PlacementInv /\ PlacementInv' /\ TypeOK /\ TypeOK' /\ QueuedOnce
  BY DEF SlotsInv, PlacementInv
<1> DEFINE Same(u) == Life(u)' = Life(u) /\ MachineOf(u)' = MachineOf(u)
<1>1. ASSUME NEW u \in Tags, Leased(u) \/ (Waiting(u)' <=> Waiting(u)) PROVE Same(u)
  BY <1>1, <1>k, SameLife
<1>2. ASSUME \A u \in Tags : Leased(u) \/ (Waiting(u)' <=> Waiting(u))
      PROVE  Lives' = Lives /\ MachinesOf' = MachinesOf
  BY <1>1, <1>2, NoLife
<1>3. ASSUME exists' = exists, \A u \in Tags : Leased(u) \/ (Waiting(u)' <=> Waiting(u))
      PROVE  UNCHANGED Lifecycle!vars
  BY <1>2, <1>3 DEF Lifecycle!vars
<1>4. ASSUME NEW t \in Tags, exists' = exists, ~Leased(t), Waiting(t), ~Waiting(t)',
             \A u \in Tags : u # t => (Waiting(u)' <=> Waiting(u))
      PROVE  Lifecycle!Next
  <2>1. \A m \in Machines : lease[m].tag # t /\ lease'[m].tag # t
    BY <1>4, <1>k, LeasedAt
  <2>2. Life(t) = "queued" /\ Life(t)' = "idle" /\ MachineOf(t)' = MachineOf(t)
    BY <1>4, <1>k, <2>1, LifeFree, LifeFreeNext
  <2>3. Lives' = [Lives EXCEPT ![t] = "idle"] /\ MachinesOf' = MachinesOf
    BY <1>1, <1>4, <2>2, OneLifeThere
  <2>4. Lives[t] = "queued"
    BY <2>2 DEF Lives
  <2>5. Lifecycle!Leave(t)
    BY <1>4, <2>3, <2>4 DEF Lifecycle!Leave, Lifecycle!Become
  <2>6. QED
    BY <2>5 DEF Lifecycle!Next
<1>5. ASSUME NEW t \in Tags, CreateTask(t) \/ DeleteTask(t) PROVE Lifecycle!Next
  <2>1. at # "lost" /\ at' # "lost" /\ queue' = queue
    BY <1>5 DEF CreateTask, DeleteTask, Command, writer
  <2>2. \A u \in Tags : Waiting(u)' <=> Waiting(u)
    BY <2>1 DEF Waiting, Queued
  <2>3. Lives' = Lives /\ MachinesOf' = MachinesOf
    BY <1>2, <2>2
  <2>4. exists' = exists \cup {t} \/ exists' = exists \ {t}
    BY <1>5 DEF CreateTask, DeleteTask
  <2>5. Lifecycle!Create(t) \/ Lifecycle!Delete(t)
    BY <2>3, <2>4 DEF Lifecycle!Create, Lifecycle!Delete
  <2>6. QED
    BY <2>5 DEF Lifecycle!Next
<1>6. CASE at = "lost" /\ exists' = exists
  <2>k. carry.tag \in Tags /\ carry.tag \notin Queued /\ ~Leased(carry.tag)
    <3>1. carry # NoLease /\ carry \in Leases \cup {NoLease}
      BY <1>6, <1>k DEF PlacementInv, LostTagOut, TypeOK
    <3>2. carry.tag \in Tags
      BY <3>1 DEF Leases
    <3>3. \A m \in Machines : lease[m].tag # carry.tag
      BY <1>6 DEF SlotsInv, PlacementInv, LostTagOut
    <3>4. QED
      BY <1>6, <1>k, <3>2, <3>3, LifeFree DEF PlacementInv, LostTagOut
  <2>1. CASE UNCHANGED <<lease, queue, writer>>
    <3>1. at' = at /\ carry' = carry /\ queue' = queue
      BY <2>1 DEF writer
    <3>2. \A u \in Tags : Waiting(u)' <=> Waiting(u)
      BY <3>1 DEF Waiting, Queued, WantsToRun
    <3>3. QED
      BY <1>3, <1>6, <3>2
  <2>2. CASE LoseLease
    <3>1. at' = "leases"
      BY <2>2 DEF LoseLease
    <3>2. Queued' = IF WantsToRun(carry) THEN Queued \cup {carry.tag} ELSE Queued
      <4>1. CASE WantsToRun(carry)
        <5>1. queue' = <<Requeued(carry.tag)>> \o queue
          BY <2>2, <4>1 DEF LoseLease
        <5>2. QED
          BY <1>k, <2>k, <4>1, <5>1, RequeuedEntry, EntryPrepended DEF TypeOK
      <4>2. CASE ~WantsToRun(carry)
        BY <2>2, <4>2 DEF LoseLease, Queued
      <4>3. QED
        BY <4>1, <4>2
    <3>3. \A u \in Tags : Waiting(u)' <=> Waiting(u)
      BY <1>6, <3>1, <3>2 DEF Waiting
    <3>4. QED
      BY <1>3, <1>6, <3>3
  <2>3. CASE Crash
    <3>1. at' = "idle" /\ queue' = queue
      BY <2>3 DEF Crash, store
    <3>2. \A u \in Tags : /\ Waiting(u)' <=> u \in Queued
                          /\ Waiting(u) <=> u \in Queued \/ (carry.tag = u /\ WantsToRun(carry))
      BY <1>6, <3>1 DEF Waiting, Queued
    <3>3. CASE WantsToRun(carry)
      BY <1>4, <1>6, <2>k, <3>2, <3>3
    <3>4. CASE ~WantsToRun(carry)
      BY <1>3, <1>6, <3>2, <3>4
    <3>5. QED
      BY <3>3, <3>4
  <2>4. QED
    BY <1>6, <2>1, <2>2, <2>3, Lost
<1>7. CASE at # "lost" /\ exists' = exists
  <2>1. at' # "lost"
    BY <1>7, <1>k, ToLost, LosingUnleases
  <2>2. \A u \in Tags : (Waiting(u) <=> u \in Queued) /\ (Waiting(u)' <=> u \in Queued')
    BY <1>7, <2>1 DEF Waiting
  <2>3. CASE Queued' = Queued
    BY <1>3, <1>7, <2>2, <2>3
  <2>4. ASSUME NEW t \in Tags, QueuePut(t) PROVE Lifecycle!Next
    <3>1. ~\E m \in Machines : FinishRelease(m) /\ lease[m].requeue /\ lease[m].tag = t
      <4> SUFFICES ASSUME NEW m \in Machines, FinishRelease(m), lease[m].tag = t PROVE FALSE
        OBVIOUS
      <4>1. lease[m] # NoLease /\ lease'[m] = NoLease
        BY <1>k, LeasedAt DEF FinishRelease, TypeOK
      <4>2. QED
        BY <4>1
    <3>2. Enqueue(t) /\ Queued' = Queued \cup {t}
      BY <1>7, <2>4, <3>1 DEF QueuePut, LoseLease
    <3>3. t \in exists /\ t \notin Queued /\ ~Leased(t)
      BY <3>2 DEF Enqueue
    <3>4. \A m \in Machines : lease[m].tag # t /\ lease'[m].tag # t
      BY <1>k, <3>3, LeasedAt
    <3>5. Life(t) = "idle" /\ Life(t)' = "queued" /\ MachineOf(t)' = MachineOf(t)
      BY <1>k, <2>2, <3>2, <3>3, <3>4, LifeFree, LifeFreeNext
    <3>6. Lives' = [Lives EXCEPT ![t] = "queued"] /\ MachinesOf' = MachinesOf
      <4>1. \A u \in Tags : u # t => Same(u)
        BY <1>1, <2>2, <3>2
      <4>2. QED
        BY <3>5, <4>1, OneLifeThere
    <3>7. Lives[t] = "idle"
      BY <3>5 DEF Lives
    <3>8. Lifecycle!Enqueue(t)
      BY <1>7, <3>3, <3>6, <3>7 DEF Lifecycle!Enqueue, Lifecycle!Become
    <3>9. QED
      BY <3>8 DEF Lifecycle!Next
  <2>5. ASSUME NEW i \in DOMAIN queue, QueueTaken(i)
        PROVE  UNCHANGED Lifecycle!vars \/ Lifecycle!Next
    <3>1. queue[i].tag \in Tags /\ queue[i].tag \in Queued
      BY <1>k, QueueSorts DEF Queued
    <3>2. Queued' = Queued \ {queue[i].tag}
      BY <2>5 DEF QueueTaken
    <3>3. CASE Leased(queue[i].tag)
      <4>1. \A u \in Tags : Leased(u) \/ (Waiting(u)' <=> Waiting(u))
        BY <2>2, <3>2, <3>3
      <4>2. QED
        BY <1>3, <1>7, <4>1
    <3>4. CASE ~Leased(queue[i].tag)
      BY <1>4, <1>7, <2>2, <3>1, <3>2, <3>4
    <3>5. QED
      BY <3>3, <3>4
  <2>6. QED
    BY <1>k, <2>3, <2>4, <2>5, QueueChangesBy, <1>3, <1>7, <2>2
<1>8. QED
  BY <1>5, <1>6, <1>7, TasksChangeBy

\* What a step that changes the lease of m leaves alone: the tasks, and every tag
\* that is in neither of the two leases.
LEMMA LeaseStepRest ==
  ASSUME SlotsInv, SlotsInv', CapacityKept, [Next]_vars, NEW m \in Machines,
         lease'[m] # lease[m]
  PROVE  /\ exists' = exists
         /\ \A n \in Machines : n # m => lease'[n] = lease[n]
         /\ at # "lost" /\ (at' = "lost" => LoseMachine(m) /\ carry' = lease[m])
         /\ \A u \in Tags : u # lease[m].tag /\ u # lease'[m].tag =>
              Life(u)' = Life(u) /\ MachineOf(u)' = MachineOf(u)
<1>k. PlacementInv /\ PlacementInv' /\ TypeOK
  BY DEF SlotsInv, PlacementInv
<1>1. exists' = exists
  BY TasksChangeBy DEF CreateTask, DeleteTask
<1>2. \A n \in Machines : n # m => lease'[n] = lease[n]
  BY <1>k, OthersKeepLease
<1>3. at # "lost"
  BY Lost DEF LoseLease, Crash, store
<1>4. at' = "lost" => LoseMachine(m) /\ carry' = lease[m]
  <2> SUFFICES ASSUME at' = "lost" PROVE LoseMachine(m) /\ carry' = lease[m]
    OBVIOUS
  <2>1. PICK n \in Machines : LoseMachine(n)
    BY <1>3, ToLost
  <2>2. n = m
    BY <1>2, <1>k, <2>1, LosingUnleases
  <2>3. QED
    BY <1>k, <2>1, <2>2, LosingUnleases
<1>5. ASSUME NEW u \in Tags, u # lease[m].tag, u # lease'[m].tag
      PROVE  Life(u)' = Life(u) /\ MachineOf(u)' = MachineOf(u)
  <2>1. Waiting(u) <=> u \in Queued
    BY <1>3 DEF Waiting
  <2>2. Waiting(u)' <=> u \in Queued'
    BY <1>4, <1>5 DEF Waiting
  <2>3. CASE Queued' = Queued
    BY <2>1, <2>2, <2>3, <1>2, <1>5, <1>k, SameLife
  <2>4. ASSUME NEW t \in Tags, QueuePut(t) PROVE t = lease[m].tag
    <3>1. PICK n \in Machines : FinishRelease(n) /\ lease[n].tag = t
      BY <1>3, <2>4 DEF QueuePut, Enqueue, LoseLease
    <3>2. lease[n] # NoLease /\ lease'[n] = NoLease
      BY <1>k, <3>1, LeasedAt DEF FinishRelease, TypeOK
    <3>3. QED
      BY <1>2, <3>1, <3>2
  <2>5. ASSUME NEW i \in DOMAIN queue, QueueTaken(i) PROVE queue[i].tag = lease'[m].tag
    <3>1. PICK n \in Machines : \/ Place(i, n) \/ StartRental(i, n)
                                \/ \E S \in SUBSET Slots : PlaceRaises(i, n, S)
      BY <2>5 DEF QueueTaken, Dequeue, DropStaleEntry, RentalRaises
    <3>2. lease'[n] # lease[n] /\ lease'[n].tag = queue[i].tag
      BY <3>1, PlacingLeases
    <3>3. QED
      BY <1>2, <3>2
  <2>6. u \in Queued' <=> u \in Queued
    BY <1>5, <1>k, <2>3, <2>4, <2>5, QueueChangesBy DEF QueuePut, QueueTaken
  <2>7. QED
    BY <2>1, <2>2, <2>6, <1>2, <1>5, <1>k, SameLife
<1>6. QED
  BY <1>1, <1>2, <1>3, <1>4, <1>5

\* The lease of a rental being made is reserved.
LEMMA RentedReserved ==
  ASSUME SlotsInv, NEW m \in Machines, m \in todo, at \in {"launching", "launched"}
  PROVE  lease[m].phase = "reserved" /\ lease[m].tag \in Queued
<1>1. lease[m] = Lease(lease[m].tag, "reserved", FALSE) /\ lease[m].tag \in Queued
  BY DEF SlotsInv, RentalReserved
<1>2. Lease(lease[m].tag, "reserved", FALSE).phase = "reserved"
  BY DEF Lease
<1>3. QED
  BY <1>1, <1>2

\* The life under a lease, by the phase.
LEMMA LifeOf ==
  ASSUME NEW l
  PROVE  /\ l.phase \in {"reserved", "running"} => LifeUnder(l) = "placed"
         /\ l.phase = "held" => LifeUnder(l) = "held"
         /\ l.phase = "releasing" => LifeUnder(l) = IF l.requeue THEN "returning" ELSE "ending"
BY DEF LifeUnder

\* A lease that changes its phase takes its tag on: held, ended or returned.
LEMMA PhaseStep ==
  ASSUME SlotsInv, SlotsInv', CapacityKept, [Next]_vars, NEW m \in Machines,
         lease'[m] # lease[m], Requeues(m) \/ Releases(m) \/ Holds(m) \/ Runs(m)
  PROVE  [Lifecycle!Next]_(Lifecycle!vars)
<1>k. PlacementInv /\ PlacementInv' /\ TypeOK
  BY DEF SlotsInv, PlacementInv
<1>2. lease[m].phase \in Phases
  <2>1. CASE Requeues(m)
    BY <2>1 DEF Requeues, Requeue, StopPlaced, Phases
  <2>2. CASE Releases(m)
    BY <2>2 DEF Releases, FailLease, CompleteLease, HandOver, StopHeld, Advance, Phases
  <2>3. CASE Holds(m)
    BY <2>3 DEF Holds, FailLease, Advance, Phases
  <2>4. CASE Runs(m)
    <3>1. ASSUME NEW i \in DOMAIN queue, StartRental(i, m) PROVE lease[m].phase = "reserved"
      BY <3>1, RentedReserved DEF StartRental
    <3>2. QED
      BY <2>4, <3>1 DEF Runs, CompleteReservation, Completing, Phases
  <2>5. QED
    BY <2>1, <2>2, <2>3, <2>4
<1>3. PICK t \in Tags : t = lease[m].tag
  BY <1>2, <1>k, LeaseSorts
<1>1. t = lease'[m].tag
  BY <1>3, NewLease
<1>4. /\ Life(t) = LifeUnder(lease[m]) /\ Life(t)' = LifeUnder(lease'[m])
      /\ MachineOf(t)' = MachineOf(t)
  BY <1>1, <1>3, <1>k, LifeLeased, LifeLeasedNext
<1>5. /\ exists' = exists
      /\ \A u \in Tags : u # t => Life(u)' = Life(u) /\ MachineOf(u)' = MachineOf(u)
  BY <1>1, <1>3, LeaseStepRest
<1>6. /\ Lives' = [Lives EXCEPT ![t] = LifeUnder(lease'[m])] /\ MachinesOf' = MachinesOf
      /\ Lives[t] = LifeUnder(lease[m])
  <2>1. Lives' = [Lives EXCEPT ![t] = LifeUnder(lease'[m])] /\ MachinesOf' = MachinesOf
    BY <1>3, <1>4, <1>5, OneLifeThere
  <2>2. QED
    BY <1>3, <1>4, <2>1 DEF Lives
<1>7. CASE Requeues(m)
  <2>1. lease[m].phase \in {"reserved", "running", "held"}
    BY <1>7 DEF Requeues, Requeue, StopPlaced
  <2>2. LifeUnder(lease[m]) \in {"placed", "held"} /\ LifeUnder(lease'[m]) = "returning"
    BY <1>7, <2>1, LifeOf, NewLease
  <2>3. Lifecycle!Return(t)
    BY <1>5, <1>6, <2>2 DEF Lifecycle!Return, Lifecycle!Become
  <2>4. QED
    BY <1>3, <2>3 DEF Lifecycle!Next
<1>8. CASE Releases(m)
  <2>1. lease[m].phase \in {"running", "held"}
    BY <1>8 DEF Releases, FailLease, CompleteLease, HandOver, StopHeld, Advance
  <2>2. ~lease[m].requeue
    BY <2>1 DEF SlotsInv, RequeueReleases
  <2>3. LifeUnder(lease[m]) \in {"placed", "held"} /\ LifeUnder(lease'[m]) = "ending"
    BY <1>8, <2>1, <2>2, LifeOf, NewLease
  <2>4. Lifecycle!End(t)
    BY <1>5, <1>6, <2>3 DEF Lifecycle!End, Lifecycle!Become
  <2>5. QED
    BY <1>3, <2>4 DEF Lifecycle!Next
<1>9. CASE Holds(m)
  <2>1. LifeUnder(lease[m]) = "placed" /\ LifeUnder(lease'[m]) = "held"
    <3>1. lease[m].phase = "running"
      BY <1>9 DEF Holds, FailLease, Advance
    <3>2. QED
      BY <1>9, <3>1, LifeOf, NewLease
  <2>2. Lifecycle!Hold(t)
    BY <1>5, <1>6, <2>1 DEF Lifecycle!Hold, Lifecycle!Become
  <2>3. QED
    BY <1>3, <2>2 DEF Lifecycle!Next
<1>10. CASE Runs(m)
  <2>1. lease[m].phase = "reserved"
    <3>1. ASSUME NEW i \in DOMAIN queue, StartRental(i, m) PROVE lease[m].phase = "reserved"
      BY <3>1, RentedReserved DEF StartRental
    <3>2. QED
      BY <1>10, <3>1 DEF Runs, CompleteReservation, Completing
  <2>2. Life(t)' = Life(t)
    BY <1>4, <1>10, <2>1, LifeOf, NewLease
  <2>3. Lives' = Lives /\ MachinesOf' = MachinesOf
    BY <1>4, <1>5, <2>2, NoLife
  <2>4. QED
    BY <1>5, <2>3 DEF Lifecycle!vars
<1>11. QED
  BY <1>7, <1>8, <1>9, <1>10

\* A lease that begins places a queued tag where none is.
LEMMA BeginStep ==
  ASSUME SlotsInv, SlotsInv', CapacityKept, [Next]_vars, NEW m \in Machines,
         lease'[m] # lease[m], NEW i \in DOMAIN queue, Begins(i, m)
  PROVE  Lifecycle!Next
<1>k. PlacementInv /\ PlacementInv' /\ TypeOK /\ TypeOK'
  BY DEF SlotsInv, PlacementInv
<1>t. PICK t \in Tags : t = queue[i].tag
  BY <1>k, QueueSorts
<1>1. t \in Queued
  BY <1>t DEF Queued
<1>2. at \in {"placing", "renting"} /\ lease[m] = NoLease
  <2>1. ASSUME Place(i, m) \/ \E S \in SUBSET Slots : PlaceRaises(i, m, S)
        PROVE  at \in {"placing", "renting"} /\ lease[m] = NoLease
    <3>1. at = "placing" /\ <<t, m>> \in plan
      BY <1>t, <2>1 DEF Place, PlaceRaises
    <3>2. QED
      BY <3>1 DEF SlotsInv, PlanFree
  <2>2. ASSUME RecordRental(i, m) PROVE at \in {"placing", "renting"} /\ lease[m] = NoLease
    BY <1>k, <2>2 DEF RecordRental, CanRent, PlacementInv, LeasesPooled
  <2>3. QED
    BY <2>1, <2>2 DEF Begins
<1>3. lease'[m].tag = t /\ lease'[m].phase \in {"reserved", "running"}
  BY <1>t, NewLease
<1>4. \A n \in Machines : lease[n].tag # t
  BY <1>t, <1>2, <1>k, PlacedAlone
<1>5. Life(t) = "queued"
  BY <1>1, <1>4, <1>k, LifeFree DEF Waiting
<1>6. Life(t)' = "placed" /\ MachineOf(t)' = m
  BY <1>1, <1>3, <1>k, LifeLeasedNext, LifeOf
<1>7. /\ exists' = exists
      /\ \A u \in Tags : u # t => Life(u)' = Life(u) /\ MachineOf(u)' = MachineOf(u)
  <2>1. \A u \in Tags : u # lease[m].tag
    BY <1>2, NullAssumption DEF NoLease
  <2>2. QED
    BY <1>3, <2>1, LeaseStepRest
<1>8. Lives' = [Lives EXCEPT ![t] = "placed"] /\ MachinesOf' = [MachinesOf EXCEPT ![t] = m]
  BY <1>1, <1>6, <1>7, OneLife
<1>9. \A u \in Tags : MachinesOf[u] # m
  <2> SUFFICES ASSUME NEW u \in Tags, MachineOf(u) = m PROVE FALSE
    BY DEF MachinesOf
  <2>1. CASE \A n \in Machines : lease[n].tag # u
    BY <1>k, <2>1, LifeFree, NullAssumption
  <2>2. ASSUME NEW n \in Machines, lease[n].tag = u PROVE FALSE
    <3>1. n = m
      BY <1>k, <2>2, LifeLeased
    <3>2. QED
      BY <1>2, <2>2, <3>1, NullAssumption DEF NoLease
  <2>3. QED
    BY <2>1, <2>2
<1>10. Lives[t] = "queued"
  BY <1>1, <1>5 DEF Lives
<1>11. Lifecycle!Place(t, m)
  BY <1>7, <1>8, <1>9, <1>10 DEF Lifecycle!Place, Lifecycle!Become
<1>12. QED
  BY <1>1, <1>11 DEF Lifecycle!Next

\* A lease that ends takes its tag off the machine: to the queue if it was to
\* run (again), or for good.
LEMMA EndStep ==
  ASSUME SlotsInv, SlotsInv', CapacityKept, [Next]_vars, NEW m \in Machines,
         lease'[m] # lease[m], Ends(m), lease'[m] = NoLease
  PROVE  Lifecycle!Next
<1>k. PlacementInv /\ PlacementInv' /\ TypeOK /\ TypeOK'
  BY DEF SlotsInv, PlacementInv
<1>l. lease[m] # NoLease /\ lease[m] \in Leases /\ lease[m].tag \in Tags
  BY <1>k, LeaseSorts
<1>t. PICK t \in Tags : t = lease[m].tag
  BY <1>l
<1>1. lease[m] # NoLease /\ lease[m] \in Leases /\ lease[m].tag = t
  BY <1>l, <1>t
<1>2. Life(t) = LifeUnder(lease[m])
  BY <1>1, <1>k, LifeLeased
<1>3. /\ exists' = exists /\ (at' = "lost" => carry' = lease[m])
      /\ \A n \in Machines : n # m => lease'[n] = lease[n]
      /\ \A u \in Tags : u # t => Life(u)' = Life(u) /\ MachineOf(u)' = MachineOf(u)
  <2>1. lease'[m].tag \notin Tags
    BY NullAssumption DEF NoLease
  <2>2. QED
    BY <1>1, <2>1, LeaseStepRest
<1>4. \A n \in Machines : lease'[n].tag # t
  <2>1. ASSUME NEW n \in Machines, n # m PROVE lease[n].tag # t
    BY <1>1, <1>k, <2>1 DEF PlacementInv, OneLeasePerTag
  <2>2. lease'[m].tag # t
    BY <1>1, NullAssumption DEF NoLease
  <2>3. QED
    BY <1>3, <2>1, <2>2
<1>5. Life(t)' = (IF Waiting(t)' THEN "queued" ELSE "idle") /\ MachineOf(t)' = NoMachine
  BY <1>1, <1>4, <1>k, LifeFreeNext
<1>6. /\ Lives' = [Lives EXCEPT ![t] = IF Waiting(t)' THEN "queued" ELSE "idle"]
      /\ MachinesOf' = [MachinesOf EXCEPT ![t] = NoMachine]
      /\ Lives[t] = LifeUnder(lease[m])
  <2>1. /\ Lives' = [Lives EXCEPT ![t] = IF Waiting(t)' THEN "queued" ELSE "idle"]
        /\ MachinesOf' = [MachinesOf EXCEPT ![t] = NoMachine]
    BY <1>1, <1>3, <1>5, OneLife
  <2>2. QED
    BY <1>1, <1>2, <2>1 DEF Lives
<1>7. LifeUnder(lease[m]) \in {"placed", "held", "ending", "returning"}
  BY DEF LifeUnder
<1>8. /\ WantsToRun(lease[m]) <=> LifeUnder(lease[m]) \in {"placed", "returning"}
      /\ lease[m].requeue => WantsToRun(lease[m])
  <2>1. lease[m].phase \in {"reserved", "running", "releasing", "held"}
        /\ (lease[m].requeue => lease[m].phase = "releasing")
    BY <1>1 DEF SlotsInv, RequeueReleases, Leases, Phases
  <2>2. QED
    BY <2>1, LifeOf DEF WantsToRun
<1>9. ASSUME Waiting(t)' <=> WantsToRun(lease[m]) PROVE Lifecycle!Next
  <2>1. Lifecycle!Off(t)
    BY <1>3, <1>6, <1>7, <1>8, <1>9 DEF Lifecycle!Off, Lifecycle!Become, Lifecycle!OnMachine
  <2>2. QED
    BY <1>1, <2>1 DEF Lifecycle!Next
<1>10. CASE LeaseOrphaned(m)
  <2>1. at = "leases" /\ at' = "leases" /\ queue' = queue /\ t \notin exists
    BY <1>1, <1>10 DEF LeaseOrphaned, Visit
  <2>2. t \notin Queued
    BY <1>1, <1>k, <2>1, VisitKnown DEF VisitStages
  <2>3. ~Waiting(t)'
    BY <2>1, <2>2 DEF Waiting, Queued
  <2>4. Lifecycle!Abandon(t)
    BY <1>3, <1>6, <1>7, <2>1, <2>3 DEF Lifecycle!Abandon, Lifecycle!Become, Lifecycle!OnMachine
  <2>5. QED
    BY <1>1, <2>4 DEF Lifecycle!Next
<1>11. CASE FinishRelease(m)
  <2>1. at = "leases" /\ at' = "leases" /\ lease[m].phase = "releasing"
        /\ queue' = IF lease[m].requeue THEN <<Requeued(t)>> \o queue ELSE queue
    BY <1>1, <1>11 DEF FinishRelease, Advance, Visit
  <2>2. t \notin Queued
    BY <1>1, <1>k, <2>1, VisitKnown DEF VisitStages
  <2>3. Waiting(t)' <=> lease[m].requeue
    <3>1. CASE lease[m].requeue
      <4>1. Queued' = Queued \cup {t}
        BY <1>1, <1>k, <2>1, <2>2, <3>1, RequeuedEntry, EntryPrepended DEF PlacementInv, TypeOK
      <4>2. QED
        BY <3>1, <4>1 DEF Waiting
    <3>2. CASE ~lease[m].requeue
      BY <2>1, <2>2, <3>2 DEF Waiting, Queued
    <3>3. QED
      BY <3>1, <3>2
  <2>4. QED
    BY <1>9, <2>1, <2>3 DEF WantsToRun
<1>12. CASE LoseMachine(m)
  <2>1. at \in {"leases", "losing"} /\ at' = "lost" /\ carry' = lease[m] /\ queue' = queue
    BY <1>12, <1>k, LosingUnleases DEF LoseMachine
  <2>2. t \notin Queued
    BY <1>1, <1>k, <2>1, VisitKnown DEF VisitStages
  <2>3. Waiting(t)' <=> WantsToRun(lease[m])
    BY <1>1, <2>1, <2>2 DEF Waiting, Queued, WantsToRun
  <2>4. QED
    BY <1>9, <2>3
<1>13. CASE LaunchRefused(m)
  <2>1. t \in Queued /\ queue' = queue /\ lease[m].phase = "reserved"
    BY <1>1, <1>13, RentedReserved DEF LaunchRefused
  <2>2. Waiting(t)' /\ WantsToRun(lease[m])
    <3>1. t \in Queued'
      BY <2>1 DEF Queued
    <3>2. QED
      BY <2>1, <3>1 DEF Waiting, WantsToRun
  <2>3. QED
    BY <1>9, <2>2
<1>14. QED
  BY <1>10, <1>11, <1>12, <1>13 DEF Ends, CapacityKept

LEMMA LifecycleStep ==
  ASSUME SlotsInv, SlotsInv', CapacityKept, [Next]_vars
  PROVE  [Lifecycle!Next]_(Lifecycle!vars)
<1>k. TypeOK /\ TypeOK'
  BY DEF SlotsInv, PlacementInv
<1>1. CASE lease' = lease
  BY <1>1, FreeStep
<1>2. ASSUME NEW m \in Machines, lease'[m] # lease[m]
      PROVE  [Lifecycle!Next]_(Lifecycle!vars)
  <2>1. CASE Requeues(m) \/ Releases(m) \/ Holds(m) \/ Runs(m)
    BY <1>2, <2>1, PhaseStep
  <2>2. ASSUME NEW i \in DOMAIN queue, Begins(i, m) PROVE Lifecycle!Next
    BY <1>2, <2>2, BeginStep
  <2>3. CASE Ends(m) /\ lease'[m] = NoLease
    BY <1>2, <2>3, EndStep
  <2>4. QED
    BY <1>2, <1>k, <2>1, <2>2, <2>3, LeaseChangesBy
<1>3. (\A m \in Machines : lease'[m] = lease[m]) => lease' = lease
  BY <1>k DEF TypeOK
<1>4. QED
  BY <1>1, <1>2, <1>3

LEMMA InitLifecycle ==
  ASSUME Init
  PROVE  Lifecycle!Init
<1>1. TypeOK /\ exists = Tags /\ at = "idle" /\ \A m \in Machines : lease[m] = NoLease
  BY InitTypeOK DEF Init
<1>2. Queued = {}
  BY DEF Init, Queued
<1>3. ASSUME NEW t \in Tags PROVE Life(t) = "idle" /\ MachineOf(t) = NoMachine
  <2>1. \A m \in Machines : lease[m].tag # t
    BY <1>1, NullAssumption DEF NoLease
  <2>2. QED
    BY <1>1, <1>2, <2>1, LifeFree DEF Waiting
<1>4. QED
  BY <1>1, <1>3 DEF Lifecycle!Init, Lives, MachinesOf

\* Each step of the queue is a step, or a stutter, of the lifecycle it promises a
\* tag: so a tag leaves a machine only drained, lost or with its task, and one to
\* run again is then queued.
THEOREM QueueImplementsLifecycle == ASSUME NoneDropped PROVE Spec => ImplementsLifecycle
<1>1. Init => Lifecycle!Init
  BY InitLifecycle
<1>2. SlotsInv /\ SlotsInv' /\ CapacityKept /\ [Next]_vars => [Lifecycle!Next]_(Lifecycle!vars)
  BY LifecycleStep
<1>3. QED
  BY <1>1, <1>2, SlotsInvariant, CapacityNeverDropped, PTL DEF Spec, ImplementsLifecycle, Lifecycle!Spec
=============================================================================
