--------------------------- MODULE TagQueueProofs ---------------------------
(***************************************************************************)
(* Proofs about the tag queue, for every pool, layout and set of tags,     *)
(* commands and faults: its state keeps its type, and no tag is placed     *)
(* twice, queued twice, or queued and placed.                              *)
(***************************************************************************)
EXTENDS TagQueueProps, SequenceTheorems, TLAPS

-----------------------------------------------------------------------------
\* What the writer's three edits do to a queue.

\* RemoveAt drops one element and keeps the order of the others.
LEMMA RemoveAtDef ==
  ASSUME NEW S, NEW s \in Seq(S), NEW i \in 1 .. Len(s)
  PROVE  /\ RemoveAt(s, i) \in Seq(S)
         /\ Len(RemoveAt(s, i)) = Len(s) - 1
         /\ \A j \in 1 .. Len(s) - 1 :
              RemoveAt(s, i)[j] = IF j < i THEN s[j] ELSE s[j + 1]
<1> DEFINE before == SubSeq(s, 1, i - 1)
           after == SubSeq(s, i + 1, Len(s))
<1>1. Len(s) \in Nat /\ i \in Int /\ \A j \in 1 .. Len(s) : s[j] \in S
  BY LenProperties
<1>2. /\ before \in Seq(S)
      /\ Len(before) = i - 1
      /\ \A j \in 1 .. i - 1 : before[j] = s[j]
  BY <1>1, SubSeqProperties
<1>3. /\ after \in Seq(S)
      /\ Len(after) = Len(s) - i
      /\ \A j \in 1 .. Len(s) - i : after[j] = s[j + i]
  BY <1>1, SubSeqProperties
<1>4. RemoveAt(s, i) = before \o after
  BY DEF RemoveAt
<1> HIDE DEF before, after
<1>5. /\ before \o after \in Seq(S)
      /\ Len(before \o after) = Len(s) - 1
      /\ \A j \in 1 .. Len(s) - 1 :
           (before \o after)[j] = IF j <= i - 1 THEN before[j] ELSE after[j - (i - 1)]
  <2>1. Len(before) + Len(after) = Len(s) - 1
    BY <1>1, <1>2, <1>3
  <2>2. /\ before \o after \in Seq(S)
        /\ Len(before \o after) = Len(before) + Len(after)
        /\ \A j \in 1 .. Len(before) + Len(after) :
             (before \o after)[j] =
               IF j <= Len(before) THEN before[j] ELSE after[j - Len(before)]
    BY <1>2, <1>3, ConcatProperties
  <2>3. QED
    BY <1>2, <2>1, <2>2
<1>6. ASSUME NEW j \in 1 .. Len(s) - 1
      PROVE  (before \o after)[j] = IF j < i THEN s[j] ELSE s[j + 1]
  <2>1. CASE j < i
    <3>1. j \in 1 .. i - 1 /\ j <= i - 1
      BY <1>1, <2>1
    <3>2. QED
      BY <1>2, <1>5, <2>1, <3>1
  <2>2. CASE ~(j < i)
    <3>1. ~(j <= i - 1) /\ j - (i - 1) \in 1 .. Len(s) - i /\ (j - (i - 1)) + i = j + 1
      BY <1>1, <2>2
    <3>2. QED
      BY <1>3, <1>5, <2>2, <3>1
  <2>3. QED
    BY <2>1, <2>2
<1>7. QED
  BY <1>4, <1>5, <1>6

\* The entry of a tag that is queued once is taken out.
LEMMA EntryRemoved ==
  ASSUME queue \in Seq(Entries), QueuedOnce, NEW i \in DOMAIN queue,
         queue' = RemoveAt(queue, i)
  PROVE  /\ queue' \in Seq(Entries)
         /\ QueuedOnce'
         /\ Queued' = Queued \ {queue[i].tag}
<1>1. DOMAIN queue = 1 .. Len(queue) /\ Len(queue) \in Nat
  BY LenProperties
<1>2. /\ queue' \in Seq(Entries)
      /\ Len(queue') = Len(queue) - 1
      /\ \A j \in 1 .. Len(queue) - 1 : queue'[j] = IF j < i THEN queue[j] ELSE queue[j + 1]
  BY <1>1, RemoveAtDef
<1>3. DOMAIN queue' = 1 .. Len(queue) - 1
  BY <1>2, LenProperties
<1>4. QueuedOnce'
  <2> DEFINE old(j) == IF j < i THEN j ELSE j + 1
  <2>1. \A j \in DOMAIN queue' : old(j) \in DOMAIN queue /\ queue'[j] = queue[old(j)]
    BY <1>1, <1>2, <1>3
  <2>2. \A j, k \in DOMAIN queue' : old(j) = old(k) => j = k
    BY <1>1, <1>3
  <2> HIDE DEF old
  <2>3. QED
    BY <2>1, <2>2 DEF QueuedOnce
<1>5. Queued' \subseteq Queued \ {queue[i].tag}
  <2> SUFFICES ASSUME NEW j \in DOMAIN queue'
               PROVE  queue'[j].tag \in Queued \ {queue[i].tag}
    BY DEF Queued
  <2>1. PICK k \in DOMAIN queue : k # i /\ queue'[j] = queue[k]
    BY <1>1, <1>2, <1>3
  <2>2. QED
    BY <2>1 DEF Queued, QueuedOnce
<1>6. Queued \ {queue[i].tag} \subseteq Queued'
  <2> SUFFICES ASSUME NEW j \in DOMAIN queue, j # i
               PROVE  queue[j].tag \in Queued'
    BY DEF Queued
  <2>1. PICK k \in DOMAIN queue' : queue'[k] = queue[j]
    <3>1. CASE j < i
      BY <1>1, <1>2, <1>3, <3>1
    <3>2. CASE j > i
      <4>1. j - 1 \in 1 .. Len(queue) - 1 /\ ~(j - 1 < i) /\ (j - 1) + 1 = j
        BY <1>1, <3>2
      <4>2. QED
        BY <1>2, <1>3, <4>1
    <3>3. QED
      BY <1>1, <3>1, <3>2
  <2>2. QED
    BY <2>1 DEF Queued
<1>7. QED
  BY <1>2, <1>4, <1>5, <1>6

\* An entry of a tag that is not queued is added at the tail.
LEMMA EntryAppended ==
  ASSUME queue \in Seq(Entries), QueuedOnce, NEW e \in Entries, e.tag \notin Queued,
         queue' = Append(queue, e)
  PROVE  /\ queue' \in Seq(Entries)
         /\ QueuedOnce'
         /\ Queued' = Queued \cup {e.tag}
<1>1. DOMAIN queue = 1 .. Len(queue) /\ Len(queue) \in Nat
  BY LenProperties
<1>2. /\ queue' \in Seq(Entries)
      /\ Len(queue') = Len(queue) + 1
      /\ \A j \in 1 .. Len(queue) : queue'[j] = queue[j]
      /\ queue'[Len(queue) + 1] = e
  BY AppendProperties
<1>3. DOMAIN queue' = 1 .. Len(queue) + 1
  BY <1>2, LenProperties
<1>4. DOMAIN queue' = DOMAIN queue \cup {Len(queue) + 1} /\ Len(queue) + 1 \notin DOMAIN queue
  BY <1>1, <1>3
<1>5. \A j \in DOMAIN queue : queue[j].tag # e.tag
  BY DEF Queued
<1>6. QueuedOnce'
  BY <1>1, <1>2, <1>4, <1>5 DEF QueuedOnce
<1>7. Queued' = Queued \cup {e.tag}
  BY <1>1, <1>2, <1>4 DEF Queued
<1>8. QED
  BY <1>2, <1>6, <1>7

\* An entry of a tag that is not queued is put at the head.
LEMMA EntryPrepended ==
  ASSUME queue \in Seq(Entries), QueuedOnce, NEW e \in Entries, e.tag \notin Queued,
         queue' = <<e>> \o queue
  PROVE  /\ queue' \in Seq(Entries)
         /\ QueuedOnce'
         /\ Queued' = Queued \cup {e.tag}
<1>1. DOMAIN queue = 1 .. Len(queue) /\ Len(queue) \in Nat
  BY LenProperties
<1>2. <<e>> \in Seq(Entries) /\ Len(<<e>>) = 1 /\ <<e>>[1] = e
  OBVIOUS
<1>3. /\ queue' \in Seq(Entries)
      /\ Len(queue') = 1 + Len(queue)
      /\ \A j \in 1 .. 1 + Len(queue) :
           queue'[j] = IF j <= 1 THEN <<e>>[j] ELSE queue[j - 1]
  BY <1>2, ConcatProperties
<1>4. DOMAIN queue' = 1 .. 1 + Len(queue)
  BY <1>3, LenProperties
<1>5. queue'[1] = e /\ \A j \in 2 .. 1 + Len(queue) : queue'[j] = queue[j - 1]
  BY <1>1, <1>2, <1>3
<1>6. \A j \in DOMAIN queue : queue[j].tag # e.tag
  BY DEF Queued
<1>7. QueuedOnce'
  BY <1>1, <1>4, <1>5, <1>6 DEF QueuedOnce
<1>8. Queued' \subseteq Queued \cup {e.tag}
  <2> SUFFICES ASSUME NEW j \in 2 .. 1 + Len(queue)
               PROVE  queue'[j].tag \in Queued
    BY <1>1, <1>4, <1>5 DEF Queued
  <2>1. j - 1 \in DOMAIN queue
    BY <1>1
  <2>2. QED
    BY <1>5, <2>1 DEF Queued
<1>9. Queued \subseteq Queued'
  <2> SUFFICES ASSUME NEW j \in DOMAIN queue
               PROVE  queue[j].tag \in Queued'
    BY DEF Queued
  <2>1. j + 1 \in 2 .. 1 + Len(queue) /\ (j + 1) - 1 = j
    BY <1>1
  <2>2. QED
    BY <1>4, <1>5, <2>1 DEF Queued
<1>10. e.tag \in Queued'
  <2>1. 1 \in DOMAIN queue'
    BY <1>1, <1>4
  <2>2. QED
    BY <1>5, <2>1 DEF Queued
<1>11. QED
  BY <1>3, <1>7, <1>8, <1>9, <1>10

-----------------------------------------------------------------------------
\* Type correctness.

\* A lease that names a tag, or is in a phase of a lease, is a lease.
LEMMA LeaseSorts ==
  ASSUME TypeOK, NEW m \in Machines,
         lease[m].tag \in Tags \/ lease[m].phase \in Phases \/ lease[m] # NoLease
  PROVE  lease[m] \in Leases /\ lease[m].tag \in Tags /\ lease[m] # NoLease
<1>1. lease[m] \in Leases \cup {NoLease}
  BY DEF TypeOK
<1>2. lease[m] = NoLease => lease[m].tag = NoTag /\ lease[m].phase = "free"
  BY DEF NoLease
<1>3. lease[m] \in Leases
  BY <1>1, <1>2, NullAssumption DEF Phases
<1>4. lease[m].phase # "free"
  BY <1>3 DEF Leases, Phases
<1>5. QED
  BY <1>2, <1>3, <1>4 DEF Leases

\* A function over the first n indices is a sequence.
LEMMA FunctionIsSeq ==
  ASSUME NEW S, NEW n \in Nat, NEW f \in [1 .. n -> S]
  PROVE  f \in Seq(S)
BY SeqDef

\* A change of phase makes a lease of a lease, of the same tag.
LEMMA PhaseChanged ==
  ASSUME NEW l \in Leases, NEW p \in Phases
  PROVE  InPhase(l, p) \in Leases /\ InPhase(l, p).tag = l.tag
<1>1. l.tag \in Tags /\ l.requeue \in BOOLEAN
  BY DEF Leases
<1>2. QED
  BY <1>1 DEF InPhase, Lease, Leases

\* The entry a tag comes back with is an entry.
LEMMA RequeuedEntry ==
  ASSUME NEW t \in Tags
  PROVE  Requeued(t) \in Entries /\ Requeued(t).tag = t
BY DEF Requeued, Entry, Entries, Bundles

\* Every entry of the queue names a tag.
LEMMA QueueSorts ==
  ASSUME TypeOK, NEW i \in DOMAIN queue
  PROVE  queue[i].tag \in Tags /\ queue[i].bundle \in Bundles
<1>1. DOMAIN queue = 1 .. Len(queue)
  BY LenProperties DEF TypeOK
<1>2. queue[i] \in Entries
  BY <1>1, ElementOfSeq DEF TypeOK
<1>3. QED
  BY <1>2 DEF Entries

\* The queue with an entry at its head is a queue.
LEMMA RequeuedPrepended ==
  ASSUME TypeOK, NEW t \in Tags
  PROVE  <<Requeued(t)>> \o queue \in Seq(Entries)
<1>1. <<Requeued(t)>> \in Seq(Entries)
  BY RequeuedEntry
<1>2. QED
  BY <1>1, ConcatProperties DEF TypeOK

\* A release starts with a drain over some of the layout.
LEMMA StartReleaseType ==
  ASSUME TypeOK, NEW m \in Machines, NEW l \in Leases, StartRelease(m, l)
  PROVE  /\ lease' \in [Machines -> Leases \cup {NoLease}]
         /\ drain' \in [Machines -> {"none", "running", "ok", "failed"}]
         /\ left' \in [Machines -> SUBSET Roles]
<1>1. InPhase(l, "releasing") \in Leases
  BY PhaseChanged DEF Phases
<1>2. QED
  BY <1>1 DEF TypeOK, StartRelease, SubmitDrain, RolesOf

\* A requeued lease is a lease.
LEMMA RequeueLeaseType ==
  ASSUME TypeOK, NEW m \in Machines, lease[m] \in Leases, RequeueLease(m)
  PROVE  /\ lease' \in [Machines -> Leases \cup {NoLease}]
         /\ slot' \in [Slots -> SlotStates]
         /\ drain' \in [Machines -> {"none", "running", "ok", "failed"}]
         /\ left' \in [Machines -> SUBSET Roles]
<1>1. lease[m].tag \in Tags /\ lease[m].phase \in Phases
  BY DEF Leases
<1>2. Lease(lease[m].tag, lease[m].phase, TRUE) \in Leases
  BY <1>1 DEF Lease, Leases
<1>3. slot' \in [Slots -> SlotStates]
  BY DEF TypeOK, RequeueLease, PauseSlots, SlotStates
<1>4. QED
  BY <1>2, <1>3, StartReleaseType DEF RequeueLease


\* The operator's commands keep the type.
LEMMA CommandsType ==
  ASSUME TypeOK, Commands
  PROVE  TypeOK'
<1> USE PoolAssumption DEF TypeOK, store, writer, threads, world
<1>1. ASSUME NEW t \in Tags, CreateTask(t)
     PROVE  TypeOK'
  BY <1>1 DEF CreateTask
<1>2. ASSUME NEW t \in Tags, Enqueue(t)
     PROVE  TypeOK'
  BY <1>2 DEF Enqueue, Entry, Entries, Bundles
<1>3. ASSUME NEW t \in Tags, DeleteTask(t)
     PROVE  TypeOK'
  BY <1>3 DEF DeleteTask, DropSlots, SlotStates, WorkStates
<1>4. ASSUME NEW t \in Tags, NEW S \in SUBSET Slots, DeletePartway(t, S)
     PROVE  TypeOK'
  BY <1>4 DEF DeletePartway, DropSlots, SlotStates, WorkStates
<1>5. ASSUME NEW i \in DOMAIN queue, Dequeue(i)
     PROVE  TypeOK'
  <2>1. queue' \in Seq(Entries)
    BY <1>5, RemoveAtDef, LenProperties DEF Dequeue
  <2>2. QED
    BY <1>5, <2>1 DEF Dequeue
<1>6. ASSUME NEW i \in DOMAIN queue, Move(i)
     PROVE  TypeOK'
  BY <1>6 DEF Move
<1>7. ASSUME NEW m \in Machines, Release(m)
     PROVE  TypeOK'
  BY <1>7 DEF Release, SlotStates
<1>8. ASSUME NEW m \in Machines, Requeue(m)
     PROVE  TypeOK'
  <2>1. lease[m] \in Leases /\ lease[m].tag \in Tags
    BY <1>8, LeaseSorts DEF Requeue, Phases
  <2>2. QED
    BY <1>8, <2>1, RequeueLeaseType DEF Requeue
<1>9. ASSUME NEW m \in Machines, AddMachine(m)
     PROVE  TypeOK'
  BY <1>9 DEF AddMachine
<1>10. ASSUME NEW m \in Machines, RemoveMachine(m)
     PROVE  TypeOK'
  BY <1>10 DEF RemoveMachine
<1>11. ASSUME NEW t \in Tags, NEW r \in Roles, StartSlot(t, r)
     PROVE  TypeOK'
  BY <1>11 DEF StartSlot, Slots, SlotStates, WorkStates
<1>12. ASSUME NEW t \in Tags, NEW r \in Roles, PauseSlot(t, r)
     PROVE  TypeOK'
  BY <1>12 DEF PauseSlot, Slots, SlotStates
<1>13. ASSUME NEW t \in Tags, NEW r \in Roles, RemoveSlot(t, r)
     PROVE  TypeOK'
  BY <1>13 DEF RemoveSlot, DropSlots, SlotStates, WorkStates
<1>14. ASSUME StopCloud
     PROVE  TypeOK'
  BY <1>14 DEF StopCloud
<1>15. ASSUME RemoveCapacity
     PROVE  TypeOK'
  <2>1. cap' \in 0 .. MaxCap
    BY <1>15 DEF RemoveCapacity
  <2>2. capacity' \in BOOLEAN
    BY <1>15, Zenon DEF RemoveCapacity
  <2>3. QED
    BY <1>15, <2>1, <2>2 DEF RemoveCapacity
<1>16. ASSUME NEW n \in 0 .. MaxCap, SetCap(n)
     PROVE  TypeOK'
  BY <1>16 DEF SetCap
<1>17. QED
  BY <1>1, <1>2, <1>3, <1>4, <1>5, <1>6, <1>7, <1>8, <1>9, <1>10,
     <1>11, <1>12, <1>13, <1>14, <1>15, <1>16 DEF Commands

\* So do the steps of stop_cloud,
LEMMA StopStepType ==
  ASSUME TypeOK, StopStep
  PROVE  TypeOK'
<1> USE PoolAssumption DEF TypeOK, store, writer, threads, world
<1>1. ASSUME StopEnds
     PROVE  TypeOK'
  BY <1>1 DEF StopEnds
<1>2. ASSUME NEW m \in Machines, StopRental(m)
     PROVE  TypeOK'
  <2>1. CASE StopUnleased(m)
    BY <1>2, <2>1 DEF StopRental, StopUnleased
  <2>2. CASE StopPlaced(m)
    <3>1. lease[m] \in Leases /\ lease[m].tag \in Tags
      BY <2>2, LeaseSorts DEF StopPlaced, Phases
    <3>2. QED
      BY <1>2, <2>2, <3>1, RequeueLeaseType DEF StopRental, StopPlaced
  <2>3. CASE StopHeld(m)
    <3>1. lease[m] \in Leases /\ lease[m].tag \in Tags
      BY <2>3, LeaseSorts DEF StopHeld, Phases
    <3>2. QED
      BY <1>2, <2>3, <3>1, StartReleaseType DEF StopRental, StopHeld
  <2>4. CASE StopReleasing(m)
    BY <1>2, <2>4 DEF StopRental, StopReleasing
  <2>5. QED
    BY <1>2, <2>1, <2>2, <2>3, <2>4 DEF StopRental
<1>3. QED
  BY <1>1, <1>2 DEF StopStep

\* the outcomes of a lease's visit,
LEMMA AdvanceLeaseType ==
  ASSUME TypeOK, NEW m \in Machines, AdvanceLease(m)
  PROVE  TypeOK'
<1> USE PoolAssumption DEF TypeOK, store, writer, threads, world
<1>1. ASSUME LeaseOrphaned(m)
     PROVE  TypeOK'
  BY <1>1 DEF LeaseOrphaned, Visit, EndDrain
<1>2. ASSUME CompleteReservation(m)
     PROVE  TypeOK'
  <2>1. InPhase(lease[m], "running") \in Leases
    BY <1>2, LeaseSorts, PhaseChanged DEF CompleteReservation, Completing, Phases
  <2>2. QED
    BY <1>2, <2>1 DEF CompleteReservation
<1>3. ASSUME FailLease(m)
     PROVE  TypeOK'
  <2>1. lease[m] \in Leases /\ lease[m].tag \in Tags
    BY <1>3, LeaseSorts DEF FailLease, Advance
  <2>2. InPhase(lease[m], "held") \in Leases
    BY <2>1, PhaseChanged DEF Phases
  <2>3. /\ lease' \in [Machines -> Leases \cup {NoLease}]
        /\ drain' \in [Machines -> {"none", "running", "ok", "failed"}]
        /\ left' \in [Machines -> SUBSET Roles]
    BY <1>3, <2>1, <2>2, StartReleaseType DEF FailLease
  <2>4. QED
    BY <1>3, <2>3 DEF FailLease, Advance, Visit
<1>p. ASSUME PauseFailed(m)
     PROVE  TypeOK'
  BY <1>p DEF PauseFailed, PauseSlots, SlotStates
<1>w. ASSUME NEW wanted \in BOOLEAN, ReservationRaises(m, wanted)
     PROVE  TypeOK'
  BY <1>w DEF ReservationRaises, SlotStates
<1>4. ASSUME CompleteLease(m)
     PROVE  TypeOK'
  <2>1. lease[m] \in Leases /\ lease[m].tag \in Tags
    BY <1>4, LeaseSorts DEF CompleteLease, Advance
  <2>2. /\ lease' \in [Machines -> Leases \cup {NoLease}]
        /\ drain' \in [Machines -> {"none", "running", "ok", "failed"}]
        /\ left' \in [Machines -> SUBSET Roles]
    BY <1>4, <2>1, StartReleaseType DEF CompleteLease
  <2>3. QED
    BY <1>4, <2>2 DEF CompleteLease, Advance, Visit
<1>5. ASSUME HandOver(m)
     PROVE  TypeOK'
  <2>1. lease[m] \in Leases /\ lease[m].tag \in Tags
    BY <1>5, LeaseSorts DEF HandOver, Advance
  <2>2. /\ lease' \in [Machines -> Leases \cup {NoLease}]
        /\ drain' \in [Machines -> {"none", "running", "ok", "failed"}]
        /\ left' \in [Machines -> SUBSET Roles]
    BY <1>5, <2>1, StartReleaseType DEF HandOver
  <2>3. QED
    BY <1>5, <2>2 DEF HandOver, Advance, Visit
<1>6. ASSUME ResubmitDrain(m)
     PROVE  TypeOK'
  BY <1>6 DEF ResubmitDrain, Advance, Visit, SubmitDrain, RolesOf
<1>7. ASSUME DrainFailed(m)
     PROVE  TypeOK'
  BY <1>7 DEF DrainFailed, Advance, Visit, EndDrain
<1>8. ASSUME FinishRelease(m)
     PROVE  TypeOK'
  <2>1. lease[m] \in Leases /\ lease[m].tag \in Tags
    BY <1>8, LeaseSorts DEF FinishRelease, Advance
  <2>2. queue' \in Seq(Entries)
    BY <1>8, <2>1, RequeuedPrepended DEF FinishRelease
  <2>3. QED
    BY <1>8, <2>2 DEF FinishRelease, Advance, Visit, EndDrain, DropSlots, SlotStates, WorkStates
<1>9. ASSUME NEW S \in SUBSET Slots, FinishPartway(m, S)
     PROVE  TypeOK'
  BY <1>9 DEF FinishPartway, Advance, Visit, EndDrain, DropSlots, SlotStates, WorkStates
<1>10. ASSUME LeaseWaits(m)
     PROVE  TypeOK'
  BY <1>10 DEF LeaseWaits, Advance, Visit
<1>11. ASSUME StartReserved(m)
     PROVE  TypeOK'
  BY <1>11 DEF StartReserved, SlotStates
<1>12. ASSUME LoseMachine(m)
     PROVE  TypeOK'
  BY <1>12 DEF LoseMachine, EndDrain
<1>13. ASSUME NEW r \in Roles, CreateReserved(m, r)
     PROVE  TypeOK'
  <2>1. lease[m] \in Leases /\ lease[m].tag \in Tags
    BY <1>13, LeaseSorts DEF CreateReserved, Completing
  <2>2. <<lease[m].tag, r>> \in Slots
    BY <2>1 DEF Slots
  <2>3. QED
    BY <1>13, <2>1, <2>2 DEF CreateReserved, Completing, SlotStates
<1>14. ASSUME NEW r \in Roles, LoseSlot(m, r)
     PROVE  TypeOK'
  BY <1>14 DEF LoseSlot, DropSlots, SlotStates, WorkStates
<1>15. QED
  BY <1>1, <1>2, <1>3, <1>4, <1>5, <1>6, <1>7, <1>8, <1>9, <1>10,
     <1>11, <1>12, <1>13, <1>14, <1>p, <1>w DEF AdvanceLease

\* the pass,
LEMMA TickType ==
  ASSUME TypeOK, Tick
  PROVE  TypeOK'
<1> USE PoolAssumption DEF TypeOK, store, writer, threads, world
<1>1. ASSUME TickStarts
     PROVE  TypeOK'
  BY <1>1 DEF TickStarts
<1>2. ASSUME StaleDropped
     PROVE  TypeOK'
  BY <1>2 DEF StaleDropped
<1>3. ASSUME AdvanceBuilds
     PROVE  TypeOK'
  <2>1. PICK submits : 
          /\ queue' = [i \in DOMAIN queue |->
                         Entry(queue[i].tag, AdvancedBundle(queue[i], submits))]
          /\ builds' = [t \in Tags |->
                          IF t \in Queued
                            THEN AdvancedBuild(queue[CHOOSE i \in DOMAIN queue : queue[i].tag = t],
                                               submits)
                            ELSE builds[t]]
    BY <1>3, Zenon DEF AdvanceBuilds
  <2>2. queue' \in Seq(Entries) /\ \A i \in DOMAIN queue : queue[i].tag \in Tags
    <3>1. DOMAIN queue = 1 .. Len(queue) /\ Len(queue) \in Nat
      BY LenProperties
    <3>2. ASSUME NEW i \in DOMAIN queue
          PROVE  queue[i].tag \in Tags /\ queue'[i] \in Entries
      <4>1. queue[i] \in Entries /\ queue[i].tag \in Tags /\ queue[i].bundle \in Bundles
        BY QueueSorts, <3>1, ElementOfSeq
      <4>2. AdvancedBundle(queue[i], submits) \in Bundles
        BY <4>1 DEF AdvancedBundle, Bundles
      <4>3. queue'[i] = Entry(queue[i].tag, AdvancedBundle(queue[i], submits))
        BY <2>1
      <4>4. QED
        BY <4>1, <4>2, <4>3 DEF Entry, Entries
    <3>3. queue' \in [1 .. Len(queue) -> Entries]
      BY <2>1, <3>1, <3>2
    <3>4. QED
      BY <3>1, <3>2, <3>3, FunctionIsSeq
  <2>3. builds' \in [Tags -> {"none", "running", "ok", "failed"}]
    <3>1. ASSUME NEW t \in Queued
          PROVE  AdvancedBuild(queue[CHOOSE i \in DOMAIN queue : queue[i].tag = t], submits)
                   \in {"none", "running", "ok", "failed"}
      <4> DEFINE i == CHOOSE i \in DOMAIN queue : queue[i].tag = t
      <4>1. i \in DOMAIN queue
        BY DEF Queued
      <4>2. builds[queue[i].tag] \in {"none", "running", "ok", "failed"}
        BY <2>2, <4>1
      <4> HIDE DEF i
      <4>3. AdvancedBuild(queue[i], submits) \in {"none", "running", "ok", "failed"}
        BY <4>2 DEF AdvancedBuild
      <4>4. QED
        BY <4>3 DEF i
    <3>2. QED
      BY <2>1, <3>1
  <2>4. pinned' \subseteq Tags
    BY <1>3, <2>2 DEF AdvanceBuilds
  <2>5. QED
    BY <1>3, <2>2, <2>3, <2>4 DEF AdvanceBuilds
<1>4. ASSUME ListingFails
     PROVE  TypeOK'
  BY <1>4 DEF ListingFails
<1>5. ASSUME ReconcileRentals
     PROVE  TypeOK'
  <2>1. work' \in [Slots -> WorkStates] /\ out' \subseteq Slots
    BY <1>5 DEF ReconcileRentals, GoDown, WorkStates, Exits
  <2>2. inst' \in [Machines -> {"none", "up", "stopped", "gone"}]
    BY <1>5 DEF ReconcileRentals
  <2>3. QED
    BY <1>5, <2>1, <2>2 DEF ReconcileRentals
<1>6. ASSUME NEW i \in DOMAIN queue, DropStaleEntry(i)
     PROVE  TypeOK'
  <2>1. queue' \in Seq(Entries)
    BY <1>6, RemoveAtDef, LenProperties DEF DropStaleEntry
  <2>2. QED
    BY <1>6, <2>1 DEF DropStaleEntry
<1>7. ASSUME LoseLease
     PROVE  TypeOK'
  <2>1. WantsToRun(carry) => carry.tag \in Tags
    BY NullAssumption DEF WantsToRun, NoLease, Leases
  <2>2. queue' \in Seq(Entries)
    BY <1>7, <2>1, RequeuedPrepended DEF LoseLease
  <2>3. QED
    BY <1>7, <2>2 DEF LoseLease
<1>8. ASSUME LeasesAdvanced
     PROVE  TypeOK'
  BY <1>8 DEF LeasesAdvanced, Matchings, Eligible
<1>9. ASSUME Placed
     PROVE  TypeOK'
  BY <1>9 DEF Placed
<1>10. ASSUME TickEnds
     PROVE  TypeOK'
  BY <1>10 DEF TickEnds
<1>11. ASSUME NEW i \in DOMAIN queue, NEW m \in Machines, Place(i, m)
     PROVE  TypeOK'
  <2>1. Lease(queue[i].tag, "running", FALSE) \in Leases
    BY QueueSorts DEF Lease, Leases, Phases
  <2>2. queue' \in Seq(Entries)
    BY <1>11, RemoveAtDef, LenProperties DEF Place
  <2>3. QED
    BY <1>11, <2>1, <2>2 DEF Place, StartSlots, SlotStates
<1>12. ASSUME NEW i \in DOMAIN queue, NEW m \in Machines, RecordRental(i, m)
     PROVE  TypeOK'
  <2>1. Lease(queue[i].tag, "reserved", FALSE) \in Leases
    BY QueueSorts DEF Lease, Leases, Phases
  <2>2. QED
    BY <1>12, <2>1 DEF RecordRental
<1>13. ASSUME NEW i \in DOMAIN queue, NEW m \in Machines, StartRental(i, m)
     PROVE  TypeOK'
  <2>1. InPhase(lease[m], "running") \in Leases
    BY <1>13, QueueSorts, LeaseSorts, PhaseChanged DEF StartRental, LeasedOn, Phases
  <2>2. queue' \in Seq(Entries)
    BY <1>13, RemoveAtDef, LenProperties DEF StartRental
  <2>3. QED
    BY <1>13, <2>1, <2>2 DEF StartRental, StartSlots, SlotStates
<1>14. ASSUME NEW i \in DOMAIN queue, NEW m \in Machines, NEW S \in SUBSET Slots,
              PlaceRaises(i, m, S)
     PROVE  TypeOK'
  <2>1. Lease(queue[i].tag, "reserved", FALSE) \in Leases
    BY QueueSorts DEF Lease, Leases, Phases
  <2>2. queue' \in Seq(Entries)
    BY <1>14, RemoveAtDef, LenProperties DEF PlaceRaises
  <2>3. QED
    BY <1>14, <2>1, <2>2 DEF PlaceRaises, SlotStates
<1>r. ASSUME NEW i \in DOMAIN queue, NEW m \in Machines, NEW S \in SUBSET Slots,
             RentalRaises(i, m, S)
     PROVE  TypeOK'
  <2>1. queue' \in Seq(Entries)
    BY <1>r, RemoveAtDef, LenProperties DEF RentalRaises
  <2>2. QED
    BY <1>r, <2>1 DEF RentalRaises, SlotStates
<1>15. ASSUME NEW m \in Machines, Launch(m)
     PROVE  TypeOK'
  BY <1>15 DEF Launch
<1>16. ASSUME NEW m \in Machines, LaunchRefused(m)
     PROVE  TypeOK'
  BY <1>16 DEF LaunchRefused
<1>17. ASSUME NEW m \in Machines, AdvanceLease(m)
     PROVE  TypeOK'
  BY <1>17, AdvanceLeaseType
<1>18. QED
  BY <1>1, <1>2, <1>3, <1>4, <1>5, <1>6, <1>7, <1>8, <1>9, <1>10,
     <1>11, <1>12, <1>13, <1>14, <1>15, <1>16, <1>17, <1>r DEF Tick

\* the drain and build threads,
LEMMA ThreadsType ==
  ASSUME TypeOK, Threads
  PROVE  TypeOK'
<1> USE PoolAssumption DEF TypeOK, store, writer, threads, world
<1>1. ASSUME NEW m \in Machines, DrainRaises(m)
     PROVE  TypeOK'
  BY <1>1 DEF DrainRaises, EndDrain
<1>2. ASSUME NEW m \in Machines, DrainDone(m)
     PROVE  TypeOK'
  BY <1>2 DEF DrainDone, EndDrain
<1>3. ASSUME NEW m \in Machines, NEW r \in Roles, DrainSlot(m, r)
     PROVE  TypeOK'
  BY <1>3 DEF DrainSlot
<1>4. ASSUME NEW t \in Tags, BuildEnds(t)
     PROVE  TypeOK'
  BY <1>4 DEF BuildEnds
<1>5. QED
  BY <1>1, <1>2, <1>3, <1>4 DEF Threads

\* the workers,
LEMMA WorkersType ==
  ASSUME TypeOK, Workers
  PROVE  TypeOK'
<1> USE PoolAssumption DEF TypeOK, store, writer, threads, world
<1>1. ASSUME NEW t \in Tags, NEW r \in Roles, WorkerExits(t, r)
     PROVE  TypeOK'
  <2>1. work' \in [Slots -> WorkStates]
    BY <1>1 DEF WorkerExits, WorkStates, Exits
  <2>2. out' \subseteq Slots
    BY <1>1 DEF WorkerExits, Slots
  <2>3. QED
    BY <1>1, <2>1, <2>2 DEF WorkerExits
<1>2. ASSUME NEW t \in Tags, NEW r \in Roles, StopWorker(t, r)
     PROVE  TypeOK'
  <2>1. work' \in [Slots -> WorkStates]
    BY <1>2 DEF StopWorker, WorkStates, Exits
  <2>2. out' \subseteq Slots
    <3>1. <<t, r>> \in Slots
      BY DEF Slots
    <3>2. out' = out \/ out' = out \cup {<<t, r>>}
      BY <1>2 DEF StopWorker
    <3>3. QED
      BY <3>1, <3>2
  <2>3. QED
    BY <1>2, <2>1, <2>2 DEF StopWorker
<1>3. ASSUME NEW t \in Tags, NEW r \in Roles, StartWorker(t, r)
     PROVE  TypeOK'
  BY <1>3 DEF StartWorker, Slots, SlotStates, WorkStates, Exits
<1>4. ASSUME NEW t \in Tags, NEW r \in Roles, NoteFinished(t, r)
     PROVE  TypeOK'
  BY <1>4 DEF NoteFinished, Slots, SlotStates, WorkStates, Exits
<1>5. ASSUME NEW t \in Tags, NEW r \in Roles, NoteFailed(t, r)
     PROVE  TypeOK'
  BY <1>5 DEF NoteFailed, Slots, SlotStates, WorkStates, Exits
<1>6. QED
  BY <1>1, <1>2, <1>3, <1>4, <1>5 DEF Workers

\* and the world.
LEMMA WorldType ==
  ASSUME TypeOK, World
  PROVE  TypeOK'
<1> USE PoolAssumption DEF TypeOK, store, writer, threads, world
<1>1. ASSUME Crash
     PROVE  TypeOK'
  BY <1>1 DEF Crash
<1>2. ASSUME NEW m \in Machines, InstanceLost(m)
     PROVE  TypeOK'
  BY <1>2 DEF InstanceLost, WorkStates
<1>3. ASSUME NEW m \in Machines, HandRun(m)
     PROVE  TypeOK'
  BY <1>3 DEF HandRun
<1>4. QED
  BY <1>1, <1>2, <1>3 DEF World

\* The types hold at first,
LEMMA InitTypeOK ==
  ASSUME Init
  PROVE  TypeOK
<1>1. queue \in Seq(Entries)
  BY DEF Init
<1>2. QED
  BY <1>1, PoolAssumption DEF Init, TypeOK, SlotStates, WorkStates

\* and every step keeps them.
LEMMA TypeStep ==
  ASSUME TypeOK, [Next]_vars
  PROVE  TypeOK'
<1>1. CASE UNCHANGED vars
  BY <1>1 DEF TypeOK, vars, store, writer, threads, world
<1>2. QED
  BY <1>1, CommandsType, StopStepType, TickType, ThreadsType, WorkersType, WorldType DEF Next

\* The state of the tag queue always has its type.
THEOREM TypeCorrect == Spec => []TypeOK
<1>1. Init => TypeOK
  BY InitTypeOK
<1>2. TypeOK /\ [Next]_vars => TypeOK'
  BY TypeStep
<1>3. QED
  BY <1>1, <1>2, PTL DEF Spec

-----------------------------------------------------------------------------
\* No tag is placed twice.

\* What most steps do: no machine gets a tag, no role gets a slot.
NothingPlaced ==
  /\ \A m \in Machines :
       lease'[m] # NoLease => /\ lease[m] # NoLease
                              /\ lease'[m].tag = lease[m].tag
                              /\ m \in pool'
  /\ \A x \in Slots : slot'[x] # "none" => slot[x] # "none"

\* And no tag enters the queue.
NothingQueued == QueuedOnce' /\ Queued' \subseteq Queued

\* The parts of the invariant that do not depend on where the writer is.
Everywhere ==
  LeasesPooled /\ OneLeasePerTag /\ QueuedOnce /\ QueuedOrPlaced /\ QueuedWithoutSlots

\* And those that do.
ByStage == StaleEntriesGone /\ LostTagOut /\ PlannedPooled /\ AddedThere

\* The parts of the invariant.
LEMMA InvParts ==
  /\ PlacementInv => TypeOK /\ Everywhere /\ ByStage
  /\ TypeOK' /\ Everywhere' /\ ByStage' => PlacementInv'
BY DEF PlacementInv, Everywhere, ByStage

\* Without new placements, a leased tag keeps one machine, of the pool.
LEMMA LeaseSideShrinks ==
  ASSUME TypeOK, OneLeasePerTag, NothingPlaced
  PROVE  LeasesPooled' /\ OneLeasePerTag'
<1>1. LeasesPooled'
  BY DEF NothingPlaced, LeasesPooled
<1>2. OneLeasePerTag'
  <2> SUFFICES ASSUME NEW m \in Machines, NEW n \in Machines,
                      lease'[m] # NoLease, lease'[m].tag = lease'[n].tag
               PROVE  m = n
    BY DEF OneLeasePerTag
  <2>1. lease[m] # NoLease /\ lease'[m].tag = lease[m].tag /\ lease[m].tag \in Tags
    BY LeaseSorts DEF NothingPlaced
  <2>2. lease'[m].tag # NoLease.tag
    BY <2>1, NullAssumption DEF NoLease
  <2>3. lease'[n] # NoLease
    BY <2>2
  <2>4. QED
    BY <2>1, <2>3 DEF NothingPlaced, OneLeasePerTag
<1>3. QED
  BY <1>1, <1>2

\* Without new placements and entries, the first parts are kept.
LEMMA Shrinks ==
  ASSUME TypeOK, TypeOK', Everywhere, NothingPlaced, NothingQueued
  PROVE  Everywhere' /\ DoublyKnown' \subseteq DoublyKnown
<1>1. \A t \in Tags : HasSlots(t)' => HasSlots(t)
  BY DEF HasSlots, NothingPlaced, Slots
<1>2. \A t \in Queued : t \in Tags
  BY QueueSorts DEF Queued
<1>3. LeasesPooled' /\ OneLeasePerTag'
  BY LeaseSideShrinks DEF Everywhere
<1>5. DoublyKnown' \subseteq DoublyKnown
  BY DEF NothingPlaced, NothingQueued, DoublyKnown
<1>6. QueuedOrPlaced'
  BY <1>1, <1>2 DEF NothingPlaced, NothingQueued, QueuedOrPlaced, Everywhere
<1>7. QueuedWithoutSlots'
  BY <1>1, <1>2 DEF NothingQueued, QueuedWithoutSlots, Everywhere
<1>8. QED
  BY <1>3, <1>5, <1>6, <1>7 DEF Everywhere, NothingQueued

\* With the writer idle, in a command or starting a pass, nothing more is asked.
LEMMA AtRest ==
  ASSUME at' \in {"idle", "stopping", "dropping"}, added' = {}
  PROVE  ByStage'
BY DEF ByStage, StaleEntriesGone, LostTagOut, PlannedPooled, AddedThere

\* While the writer visits the entries and the leases, no tag is doubly known.
LEMMA Visiting ==
  ASSUME at' \in {"builds", "rentals", "leases", "starting", "losing", "renting"},
         DoublyKnown' = {}, AddedThere'
  PROVE  ByStage'
BY DEF ByStage, StaleEntriesGone, LostTagOut, PlannedPooled, AddedThere

\* A step that leaves the writer where it is.
LEMMA SameStage ==
  ASSUME PlacementInv, TypeOK', NothingPlaced, NothingQueued, UNCHANGED <<writer, pool>>,
         \A x \in added : slot'[x] # "none"
  PROVE  PlacementInv'
<1>1. TypeOK /\ Everywhere /\ ByStage
  BY InvParts
<1>2. Everywhere' /\ DoublyKnown' \subseteq DoublyKnown
  BY <1>1, Shrinks
<1>3. UNCHANGED <<at, todo, plan, gone, carry, added, pool>>
  BY DEF writer
<1>4. StaleEntriesGone'
  BY <1>1, <1>2, <1>3 DEF ByStage, StaleEntriesGone
<1>5. LostTagOut'
  <2> SUFFICES ASSUME at = "lost"
               PROVE  LostTagOut'
    BY <1>3 DEF LostTagOut
  <2>1. /\ carry # NoLease /\ carry \in Leases
        /\ carry.tag \notin Queued
        /\ ~HasSlots(carry.tag)
        /\ \A m \in Machines : lease[m].tag # carry.tag
    BY <1>1 DEF ByStage, LostTagOut, TypeOK
  <2>2. carry.tag \in Tags
    BY <2>1 DEF Leases
  <2>3. ~HasSlots(carry.tag)'
    BY <1>3, <2>1, <2>2 DEF HasSlots, NothingPlaced, Slots
  <2>4. \A m \in Machines : lease'[m].tag # carry.tag
    BY <2>1, <2>2, NullAssumption DEF NothingPlaced, NoLease
  <2>5. QED
    BY <1>3, <2>1, <2>3, <2>4 DEF LostTagOut, NothingQueued
<1>6. PlannedPooled' /\ AddedThere'
  BY <1>1, <1>3 DEF ByStage, PlannedPooled, AddedThere
<1>7. QED
  BY <1>2, <1>4, <1>5, <1>6, InvParts DEF ByStage

\* A command, a crash, or a step that brings the writer to rest.
LEMMA RestStep ==
  ASSUME PlacementInv, TypeOK', NothingPlaced, NothingQueued,
         at' \in {"idle", "stopping", "dropping"}, added' = {}
  PROVE  PlacementInv'
BY Shrinks, AtRest, InvParts

\* A visit that places nothing.
LEMMA VisitStep ==
  ASSUME PlacementInv, TypeOK', NothingPlaced, NothingQueued,
         at \in {"builds", "rentals", "leases", "starting", "losing", "placing", "renting"},
         at' \in {"builds", "rentals", "leases", "starting", "losing", "renting"},
         AddedThere'
  PROVE  PlacementInv'
<1>1. DoublyKnown = {}
  BY DEF PlacementInv, StaleEntriesGone
<1>2. QED
  BY <1>1, Shrinks, Visiting, InvParts

\* An unchanged queue.
LEMMA QueueKept ==
  ASSUME QueuedOnce, queue' = queue
  PROVE  NothingQueued
BY DEF NothingQueued, QueuedOnce, Queued

\* A machine's lease keeps its tag: in another phase, or with requeue set.
LEMMA TagKept ==
  ASSUME TypeOK, LeasesPooled, NEW m \in Machines, NEW l \in Leases,
         lease[m] # NoLease, l.tag = lease[m].tag,
         lease' = [lease EXCEPT ![m] = l], pool' = pool,
         \A x \in Slots : slot'[x] # "none" => slot[x] # "none"
  PROVE  NothingPlaced
<1>1. \A n \in Machines : n # m => lease'[n] = lease[n]
  BY DEF TypeOK
<1>2. lease'[m] = l
  BY DEF TypeOK
<1>3. QED
  BY <1>1, <1>2 DEF NothingPlaced, LeasesPooled

\* A machine's lease ends.
LEMMA LeaseEnds ==
  ASSUME TypeOK, LeasesPooled, NEW m \in Machines,
         lease' = [lease EXCEPT ![m] = NoLease], pool \ {m} \subseteq pool',
         \A x \in Slots : slot'[x] # "none" => slot[x] # "none"
  PROVE  NothingPlaced
<1>1. \A n \in Machines : n # m => lease'[n] = lease[n]
  BY DEF TypeOK
<1>2. lease'[m] = NoLease
  BY DEF TypeOK
<1>3. QED
  BY <1>1, <1>2 DEF NothingPlaced, LeasesPooled

\* The leases stay, and only machines without one leave the pool.
LEMMA LeasesStay ==
  ASSUME LeasesPooled, lease' = lease,
         \A m \in pool \ pool' : lease[m] = NoLease,
         \A x \in Slots : slot'[x] # "none" => slot[x] # "none"
  PROVE  NothingPlaced
BY DEF NothingPlaced, LeasesPooled

\* A release that starts keeps the lease's tag.
LEMMA ReleaseKeepsTag ==
  ASSUME TypeOK, LeasesPooled, NEW m \in Machines, lease[m] \in Leases,
         NEW l \in Leases, l.tag = lease[m].tag, StartRelease(m, l), pool' = pool,
         \A x \in Slots : slot'[x] # "none" => slot[x] # "none"
  PROVE  NothingPlaced
<1>1. InPhase(l, "releasing") \in Leases /\ InPhase(l, "releasing").tag = lease[m].tag
  BY PhaseChanged DEF Phases
<1>2. lease[m].phase # "free"
  BY DEF Leases, Phases
<1>3. lease[m] # NoLease
  BY <1>2 DEF NoLease
<1>4. QED
  BY <1>1, <1>3, TagKept DEF StartRelease

\* So does a requeue.
LEMMA RequeueKeepsTag ==
  ASSUME TypeOK, LeasesPooled, NEW m \in Machines, lease[m] \in Leases,
         RequeueLease(m), pool' = pool
  PROVE  NothingPlaced
<1>1. lease[m].tag \in Tags /\ lease[m].phase \in Phases
  BY DEF Leases
<1>2. Lease(lease[m].tag, lease[m].phase, TRUE) \in Leases
  BY <1>1 DEF Lease, Leases
<1>3. Lease(lease[m].tag, lease[m].phase, TRUE).tag = lease[m].tag
  BY DEF Lease
<1>4. \A x \in Slots : slot'[x] # "none" => slot[x] # "none"
  BY DEF TypeOK, RequeueLease, PauseSlots
<1>5. QED
  BY <1>2, <1>3, <1>4, ReleaseKeepsTag DEF RequeueLease


\* Two neighbours of the queue change places.
LEMMA EntriesExchanged ==
  ASSUME queue \in Seq(Entries), QueuedOnce, NEW i \in DOMAIN queue, i + 1 \in DOMAIN queue,
         queue' = [queue EXCEPT ![i] = queue[i + 1], ![i + 1] = queue[i]]
  PROVE  QueuedOnce' /\ Queued' = Queued
<1>1. DOMAIN queue' = DOMAIN queue /\ i # i + 1
  BY LenProperties
<1> DEFINE old(j) == IF j = i THEN i + 1 ELSE IF j = i + 1 THEN i ELSE j
<1>2. \A j \in DOMAIN queue :
        old(j) \in DOMAIN queue /\ old(old(j)) = j /\ queue'[j] = queue[old(j)]
  BY <1>1
<1> HIDE DEF old
<1>3. QueuedOnce'
  BY <1>1, <1>2 DEF QueuedOnce
<1>4. QED
  BY <1>1, <1>2, <1>3 DEF Queued

\* What every command but Enqueue does.
QuietCommand ==
  /\ NothingPlaced /\ NothingQueued
  /\ at = "idle" /\ at' \in {"idle", "stopping"} /\ added' = added

\* A command other than Enqueue places and queues nothing; Enqueue adds a tag
\* that has neither a lease nor a slot.
LEMMA CommandsPlacement ==
  ASSUME PlacementInv, TypeOK', Commands
  PROVE  PlacementInv'
<1>k. TypeOK /\ LeasesPooled /\ QueuedOnce /\ (at = "idle" => added = {})
  BY DEF PlacementInv, AddedThere
<1>1. ASSUME NEW t \in Tags, CreateTask(t)
     PROVE  QuietCommand
  BY <1>1, <1>k, QueueKept, LeasesStay DEF CreateTask, QuietCommand, Command, writer, TypeOK
<1>2. ASSUME NEW t \in Tags, DeleteTask(t)
     PROVE  QuietCommand
  BY <1>2, <1>k, QueueKept, LeasesStay DEF DeleteTask,
    QuietCommand, Command, writer, DropSlots, TypeOK
<1>3. ASSUME NEW t \in Tags, NEW S \in SUBSET Slots, DeletePartway(t, S)
     PROVE  QuietCommand
  BY <1>3, <1>k, QueueKept, LeasesStay DEF DeletePartway,
    QuietCommand, Command, writer, DropSlots, TypeOK
<1>4. ASSUME NEW i \in DOMAIN queue, Dequeue(i)
     PROVE  QuietCommand
  <2>1. NothingQueued
    BY <1>4, <1>k, EntryRemoved DEF Dequeue, QuietCommand, Command, writer, NothingQueued, TypeOK
  <2>2. QED
    BY <1>4, <1>k, <2>1, LeasesStay DEF Dequeue, QuietCommand, Command, writer
<1>5. ASSUME NEW i \in DOMAIN queue, Move(i)
     PROVE  QuietCommand
  <2>1. NothingQueued
    BY <1>5, <1>k, EntriesExchanged DEF Move, QuietCommand, Command, writer, NothingQueued, TypeOK
  <2>2. QED
    BY <1>5, <1>k, <2>1, LeasesStay DEF Move, QuietCommand, Command, writer
<1>6. ASSUME NEW m \in Machines, Release(m)
     PROVE  QuietCommand
  BY <1>6, <1>k, QueueKept, LeasesStay DEF Release, QuietCommand, Command, writer, TypeOK
<1>7. ASSUME NEW m \in Machines, Requeue(m)
     PROVE  QuietCommand
  <2>1. lease[m] \in Leases
    BY <1>7, <1>k, LeaseSorts DEF Requeue, QuietCommand, Command, writer, Phases
  <2>2. QED
    BY <1>7, <1>k, <2>1, QueueKept, RequeueKeepsTag DEF Requeue, QuietCommand, Command, writer
<1>8. ASSUME NEW m \in Machines, AddMachine(m)
     PROVE  QuietCommand
  BY <1>8, <1>k, QueueKept, LeasesStay DEF AddMachine, QuietCommand, Command, writer, TypeOK
<1>9. ASSUME NEW m \in Machines, RemoveMachine(m)
     PROVE  QuietCommand
  BY <1>9, <1>k, QueueKept, LeasesStay DEF RemoveMachine, QuietCommand, Command, writer, TypeOK
<1>10. ASSUME NEW t \in Tags, NEW r \in Roles, StartSlot(t, r)
     PROVE  QuietCommand
  BY <1>10, <1>k, QueueKept, LeasesStay DEF StartSlot, QuietCommand, Command, writer, TypeOK
<1>11. ASSUME NEW t \in Tags, NEW r \in Roles, PauseSlot(t, r)
     PROVE  QuietCommand
  BY <1>11, <1>k, QueueKept, LeasesStay DEF PauseSlot, QuietCommand, Command, writer, TypeOK
<1>12. ASSUME NEW t \in Tags, NEW r \in Roles, RemoveSlot(t, r)
     PROVE  QuietCommand
  BY <1>12, <1>k, QueueKept, LeasesStay DEF RemoveSlot,
    QuietCommand, Command, writer, DropSlots, TypeOK
<1>13. ASSUME StopCloud
     PROVE  QuietCommand
  BY <1>13, <1>k, QueueKept, LeasesStay DEF StopCloud, QuietCommand, Command, writer, TypeOK
<1>14. ASSUME RemoveCapacity
     PROVE  QuietCommand
  BY <1>14, <1>k, QueueKept, LeasesStay DEF RemoveCapacity, QuietCommand, Command, writer, TypeOK
<1>15. ASSUME NEW n \in 0 .. MaxCap, SetCap(n)
     PROVE  QuietCommand
  BY <1>15, <1>k, QueueKept, LeasesStay DEF SetCap, QuietCommand, Command, writer, TypeOK
<1>16. ASSUME NEW t \in Tags, Enqueue(t)
     PROVE  PlacementInv'
  <2>1. PICK bundle \in Bundles : queue' = Append(queue, Entry(t, bundle))
    BY <1>16 DEF Enqueue, Bundles
  <2>2. Entry(t, bundle) \in Entries /\ Entry(t, bundle).tag = t /\ t \notin Queued
    BY <1>16 DEF Enqueue, Entry, Entries
  <2>3. QueuedOnce' /\ Queued' = Queued \cup {t}
    BY <1>k, <2>1, <2>2, EntryAppended DEF TypeOK
  <2>4. \A m \in Machines : lease[m] # NoLease => lease[m].tag # t
    BY <1>16, <1>k DEF Enqueue, Leased, LeasedOn, LeasesPooled
  <2>5. ~HasSlots(t)
    BY <1>16 DEF Enqueue
  <2>6. UNCHANGED <<lease, pool, slot>>
    BY <1>16 DEF Enqueue
  <2>7. Everywhere'
    <3>1. LeasesPooled' /\ OneLeasePerTag'
      BY <2>6 DEF PlacementInv, LeasesPooled, OneLeasePerTag
    <3>2. QueuedOrPlaced' /\ QueuedWithoutSlots'
      BY <2>3, <2>4, <2>5, <2>6 DEF PlacementInv, QueuedOrPlaced, QueuedWithoutSlots, HasSlots
    <3>3. QED
      BY <2>3, <3>1, <3>2 DEF Everywhere
  <2>8. at' = "idle" /\ added' = {}
    BY <1>16, <1>k DEF Enqueue, Command, writer
  <2>9. QED
    BY <2>7, <2>8, AtRest, InvParts
<1>17. CASE QuietCommand
  BY <1>17, <1>k, RestStep DEF QuietCommand
<1>18. QED
  BY <1>1, <1>2, <1>3, <1>4, <1>5, <1>6, <1>7, <1>8, <1>9, <1>10,
     <1>11, <1>12, <1>13, <1>14, <1>15, <1>16, <1>17 DEF Commands

\* Stopping all cloud spending keeps the invariant.
LEMMA StopStepPlacement ==
  ASSUME PlacementInv, TypeOK', StopStep
  PROVE  PlacementInv'
<1>1. TypeOK /\ LeasesPooled /\ QueuedOnce /\ (at = "stopping" => added = {})
  BY DEF PlacementInv, AddedThere
<1>2. CASE StopEnds
  <2>1. NothingPlaced /\ NothingQueued
    BY <1>1, <1>2, QueueKept, LeasesStay DEF StopEnds, store
  <2>2. QED
    BY <1>1, <1>2, <2>1, RestStep DEF StopEnds
<1>3. ASSUME NEW m \in Machines, StopRental(m)
      PROVE  PlacementInv'
  <2>1. NothingPlaced
    <3>1. CASE StopUnleased(m)
      BY <1>1, <3>1, LeasesStay DEF StopUnleased
    <3>2. CASE StopPlaced(m)
      BY <1>1, <3>2, LeaseSorts, RequeueKeepsTag DEF StopPlaced, Phases
    <3>3. CASE StopHeld(m)
      BY <1>1, <3>3, LeaseSorts, ReleaseKeepsTag DEF StopHeld, Phases
    <3>4. CASE StopReleasing(m)
      BY <1>1, <3>4, LeasesStay DEF StopReleasing
    <3>5. QED
      BY <1>3, <3>1, <3>2, <3>3, <3>4 DEF StopRental
  <2>2. QED
    BY <1>1, <1>3, <2>1, QueueKept, RestStep DEF StopRental
<1>4. QED
  BY <1>2, <1>3 DEF StopStep

\* The threads, the workers and the world leave the writer, the leases and the
\* queue alone; a worker's exit only changes the state of its slot.
LEMMA OthersPlacement ==
  ASSUME PlacementInv, TypeOK', Threads \/ Workers \/ World
  PROVE  PlacementInv'
<1>1. TypeOK /\ LeasesPooled /\ QueuedOnce /\ AddedThere
  BY DEF PlacementInv
<1>2. CASE Crash
  <2>1. NothingPlaced /\ NothingQueued
    BY <1>1, <1>2, QueueKept, LeasesStay DEF Crash, store
  <2>2. QED
    BY <1>2, <2>1, RestStep DEF Crash
<1>3. CASE UNCHANGED <<store, writer>>
  <2>1. NothingPlaced /\ NothingQueued
    BY <1>1, <1>3, QueueKept, LeasesStay DEF store
  <2>2. QED
    BY <1>1, <1>3, <2>1, SameStage DEF store, AddedThere
<1>4. ASSUME NEW t \in Tags, NEW r \in Roles, NoteFinished(t, r) \/ NoteFailed(t, r)
      PROVE  PlacementInv'
  <2>1. /\ UNCHANGED <<queue, pool, lease, writer>>
        /\ \A x \in Slots : slot'[x] # "none" <=> slot[x] # "none"
    BY <1>1, <1>4 DEF TypeOK, NoteFinished, NoteFailed, Slots
  <2>2. NothingPlaced /\ NothingQueued
    BY <1>1, <2>1, QueueKept, LeasesStay
  <2>3. QED
    BY <1>1, <2>1, <2>2, SameStage DEF AddedThere, TypeOK
<1>5. Threads => UNCHANGED <<store, writer>>
  BY DEF Threads, DrainRaises, DrainDone, DrainSlot, BuildEnds
<1>6. ASSUME NEW t \in Tags, NEW r \in Roles,
             WorkerExits(t, r) \/ StopWorker(t, r) \/ StartWorker(t, r)
      PROVE  UNCHANGED <<store, writer>>
  BY <1>6 DEF WorkerExits, StopWorker, StartWorker
<1>7. ASSUME NEW m \in Machines, InstanceLost(m) \/ HandRun(m)
      PROVE  UNCHANGED <<store, writer>>
  BY <1>7 DEF InstanceLost, HandRun
<1>8. QED
  BY <1>2, <1>3, <1>4, <1>5, <1>6, <1>7 DEF Workers, World

\* Where no tag is doubly known.
VisitStages ==
  {"builds", "rentals", "leases", "starting", "losing", "lost", "placing", "renting"}

\* What a visit of a lease starts from.
LEMMA VisitKnown ==
  ASSUME PlacementInv
  PROVE  /\ TypeOK /\ LeasesPooled /\ QueuedOnce /\ AddedThere
         /\ at \in VisitStages =>
              \A m \in Machines : lease[m] # NoLease => lease[m].tag \notin Queued
BY DEF PlacementInv, StaleEntriesGone, DoublyKnown, VisitStages

\* Only the end of a release puts a tag back in the queue, and only the
\* completion of a reservation creates slots.
LEMMA AdvanceLeasePlacement ==
  ASSUME PlacementInv, TypeOK', NEW m \in Machines, AdvanceLease(m)
  PROVE  PlacementInv'
<1>k. /\ TypeOK /\ LeasesPooled /\ QueuedOnce /\ AddedThere
      /\ at \in {"leases", "starting", "losing"} =>
           \A n \in Machines : lease[n] # NoLease => lease[n].tag \notin Queued
  BY VisitKnown DEF VisitStages
<1>1. ASSUME LeaseOrphaned(m)
      PROVE  PlacementInv'
  <2>1. NothingPlaced /\ NothingQueued
    BY <1>k, <1>1, QueueKept, LeaseEnds DEF LeaseOrphaned
  <2>2. QED
    BY <1>k, <1>1, <2>1, VisitStep DEF LeaseOrphaned, Visit, AddedThere
<1>2. ASSUME CompleteReservation(m)
      PROVE  PlacementInv'
  <2>1. lease[m] \in Leases /\ lease[m] # NoLease
    BY <1>k, <1>2, LeaseSorts DEF CompleteReservation, Completing, Phases
  <2>2. InPhase(lease[m], "running") \in Leases /\ InPhase(lease[m], "running").tag = lease[m].tag
    BY <2>1, PhaseChanged DEF Phases
  <2>3. NothingPlaced /\ NothingQueued
    BY <1>k, <1>2, <2>1, <2>2, QueueKept, TagKept DEF CompleteReservation
  <2>4. at \in {"leases", "starting"} /\ at' = "leases" /\ AddedThere'
    BY <1>2 DEF CompleteReservation, Completing, AddedThere
  <2>5. QED
    BY <2>3, <2>4, VisitStep
<1>3. ASSUME FailLease(m)
      PROVE  PlacementInv'
  <2>1. lease[m] \in Leases /\ lease[m] # NoLease
    BY <1>k, <1>3, LeaseSorts DEF FailLease, Advance, Phases, NoLease
  <2>2. InPhase(lease[m], "held") \in Leases /\ InPhase(lease[m], "held").tag = lease[m].tag
    BY <2>1, PhaseChanged DEF Phases
  <2>3. NothingPlaced
    BY <1>k, <1>3, <2>1, <2>2, ReleaseKeepsTag, TagKept DEF FailLease
  <2>4. NothingQueued
    BY <1>k, <1>3, QueueKept DEF FailLease
  <2>5. QED
    BY <1>k, <1>3, <2>3, <2>4, VisitStep DEF FailLease, Advance, Visit, AddedThere
<1>p. ASSUME PauseFailed(m)
      PROVE  PlacementInv'
  <2>1. \A x \in Slots : slot'[x] # "none" => slot[x] # "none"
    BY <1>k, <1>p DEF PauseFailed, PauseSlots, TypeOK
  <2>2. NothingPlaced /\ NothingQueued
    BY <1>k, <1>p, <2>1, QueueKept, LeasesStay DEF PauseFailed
  <2>3. QED
    BY <1>k, <1>p, <2>2, VisitStep DEF PauseFailed, AddedThere, writer
<1>w. ASSUME NEW wanted \in BOOLEAN, ReservationRaises(m, wanted)
      PROVE  PlacementInv'
  <2>1. \A x \in Slots : slot'[x] # "none" => slot[x] # "none"
    BY <1>k, <1>w DEF ReservationRaises, AddedThere, TypeOK
  <2>2. NothingPlaced /\ NothingQueued
    BY <1>k, <1>w, <2>1, QueueKept, LeasesStay DEF ReservationRaises
  <2>3. QED
    BY <1>w, <2>2, VisitStep DEF ReservationRaises, Completing, AddedThere
<1>4. ASSUME CompleteLease(m) \/ HandOver(m)
      PROVE  PlacementInv'
  <2>1. lease[m] \in Leases /\ lease[m] # NoLease
    BY <1>k, <1>4, LeaseSorts DEF CompleteLease, HandOver, Advance, Phases, NoLease
  <2>2. NothingPlaced /\ NothingQueued
    BY <1>k, <1>4, <2>1, QueueKept, ReleaseKeepsTag DEF CompleteLease, HandOver
  <2>3. QED
    BY <1>k, <1>4, <2>2, VisitStep DEF CompleteLease, HandOver, Advance, Visit, AddedThere
<1>5. ASSUME ResubmitDrain(m) \/ DrainFailed(m) \/ LeaseWaits(m)
      PROVE  PlacementInv'
  <2>1. UNCHANGED store
    BY <1>5 DEF ResubmitDrain, DrainFailed, LeaseWaits
  <2>2. NothingPlaced /\ NothingQueued
    BY <1>k, <2>1, QueueKept, LeasesStay DEF store
  <2>3. QED
    BY <1>k, <1>5, <2>2, VisitStep
       DEF ResubmitDrain, DrainFailed, LeaseWaits, Advance, Visit, AddedThere
<1>6. ASSUME FinishRelease(m)
      PROVE  PlacementInv'
  <2>1. /\ at = "leases" /\ at' = "leases" /\ added' = {}
        /\ lease[m].tag \in Tags /\ lease[m] # NoLease
    BY <1>k, <1>6, LeaseSorts DEF FinishRelease, Advance, Visit, AddedThere, Phases
  <2>t. PICK t \in Tags : t = lease[m].tag
    BY <2>1
  <2>2. t \notin Queued
    BY <1>k, <2>1, <2>t
  <2>3. QueuedOnce' /\ Queued' \subseteq Queued \cup {t}
    <3>1. CASE lease[m].requeue
      <4>1. queue' = <<Requeued(t)>> \o queue
        BY <1>6, <2>t, <3>1 DEF FinishRelease
      <4>2. Requeued(t) \in Entries /\ Requeued(t).tag = t /\ queue \in Seq(Entries)
        BY <1>k, RequeuedEntry DEF TypeOK
      <4>3. QED
        BY <1>k, <2>2, <4>1, <4>2, EntryPrepended
    <3>2. CASE ~lease[m].requeue
      BY <1>k, <1>6, <3>2, QueueKept DEF FinishRelease, NothingQueued
    <3>3. QED
      BY <3>1, <3>2
  <2>4. NothingPlaced
    BY <1>k, <1>6, LeaseEnds DEF FinishRelease, DropSlots, TypeOK
  <2>5. \A n \in Machines :
          lease'[n].tag # t /\ (lease'[n] # NoLease => lease'[n].tag \notin Queued')
    <3> SUFFICES ASSUME NEW n \in Machines
                 PROVE  lease'[n].tag # t /\ (lease'[n] # NoLease => lease'[n].tag \notin Queued')
      OBVIOUS
    <3>1. CASE n = m
      <4>1. lease'[n] = NoLease /\ NoLease.tag # t
        BY <1>k, <1>6, <3>1, NullAssumption DEF FinishRelease, NoLease, TypeOK
      <4>2. QED
        BY <4>1
    <3>2. CASE n # m
      <4>1. lease'[n] = lease[n] /\ lease[n].tag # t
        BY <1>k, <1>6, <2>1, <2>t, <3>2 DEF FinishRelease, TypeOK, PlacementInv, OneLeasePerTag
      <4>2. QED
        BY <1>k, <2>1, <2>3, <4>1
    <3>3. QED
      BY <3>1, <3>2
  <2>6. ~HasSlots(t)'
    <3>1. \A q \in Roles : slot'[<<t, q>>] = "none"
      BY <1>6, <2>t DEF FinishRelease, DropSlots, Slots
    <3>2. QED
      BY <3>1 DEF HasSlots
  <2>7. LeasesPooled' /\ OneLeasePerTag'
    BY <1>k, <2>4, LeaseSideShrinks DEF PlacementInv
  <2>8. QueuedOrPlaced' /\ DoublyKnown' = {}
    BY <2>5 DEF QueuedOrPlaced, DoublyKnown
  <2>9. QueuedWithoutSlots'
    <3>1. \A u \in Tags : HasSlots(u)' => HasSlots(u)
      BY <2>4 DEF HasSlots, NothingPlaced, Slots
    <3>2. \A u \in Queued : u \in Tags
      BY <1>k, QueueSorts DEF Queued
    <3>3. \A u \in Queued : ~HasSlots(u)
      BY DEF PlacementInv, QueuedWithoutSlots
    <3>4. \A u \in Queued' : ~HasSlots(u)'
      BY <2>3, <2>6, <3>1, <3>2, <3>3
    <3>5. QED
      BY <3>4 DEF QueuedWithoutSlots
  <2>10. QED
    BY <2>1, <2>3, <2>7, <2>8, <2>9, Visiting, InvParts DEF Everywhere, AddedThere
<1>7. ASSUME NEW S \in SUBSET Slots, FinishPartway(m, S)
      PROVE  PlacementInv'
  <2>1. NothingPlaced /\ NothingQueued
    BY <1>k, <1>7, QueueKept, LeasesStay DEF FinishPartway, DropSlots, TypeOK
  <2>2. at = "leases" /\ at' = "leases" /\ added = {} /\ added' = {}
    BY <1>k, <1>7 DEF FinishPartway, Advance, Visit, AddedThere
  <2>3. QED
    BY <2>1, <2>2, VisitStep DEF AddedThere
<1>8. ASSUME StartReserved(m)
      PROVE  PlacementInv'
  <2>1. \A x \in Slots : slot'[x] # "none" => slot[x] # "none"
    BY <1>k, <1>8 DEF StartReserved, AddedThere, TypeOK
  <2>2. NothingPlaced /\ NothingQueued
    BY <1>k, <1>8, <2>1, QueueKept, LeasesStay DEF StartReserved
  <2>3. QED
    BY <1>8, <2>2, VisitStep DEF StartReserved, AddedThere
<1>9. ASSUME LoseMachine(m)
      PROVE  PlacementInv'
  <2>1. /\ at \in {"leases", "losing"} /\ at' = "lost" /\ added' = {}
        /\ lease[m].tag \in Tags /\ lease[m] # NoLease /\ carry' = lease[m]
        /\ ~HasSlots(lease[m].tag) /\ slot' = slot
    BY <1>k, <1>9, NullAssumption DEF LoseMachine, AddedThere, NoLease, TypeOK
  <2>t. PICK t \in Tags : t = lease[m].tag
    BY <2>1
  <2>2. NothingPlaced /\ NothingQueued
    BY <1>k, <1>9, QueueKept, LeaseEnds DEF LoseMachine
  <2>3. Everywhere' /\ DoublyKnown' \subseteq DoublyKnown
    BY <2>2, Shrinks, InvParts
  <2>4. DoublyKnown' = {}
    BY <2>1, <2>3 DEF PlacementInv, StaleEntriesGone
  <2>5. LostTagOut'
    <3>1. t \notin Queued'
      BY <1>k, <2>1, <2>2, <2>t DEF NothingQueued
    <3>2. ~HasSlots(t)'
      BY <2>1, <2>t DEF HasSlots
    <3>3. ASSUME NEW n \in Machines
          PROVE  lease'[n].tag # t
      <4>1. CASE n = m
        <5>1. lease'[n] = NoLease /\ NoLease.tag # t
          BY <1>k, <1>9, <4>1, NullAssumption DEF LoseMachine, NoLease, TypeOK
        <5>2. QED
          BY <5>1
      <4>2. CASE n # m
        BY <1>k, <1>9, <2>1, <2>t, <4>2 DEF LoseMachine, TypeOK, PlacementInv, OneLeasePerTag
      <4>3. QED
        BY <4>1, <4>2
    <3>4. carry'.tag = t /\ carry' # NoLease
      BY <2>1, <2>t
    <3>5. ~HasSlots(carry.tag)'
      BY <3>2, <3>4 DEF HasSlots
    <3>6. QED
      BY <3>1, <3>3, <3>4, <3>5 DEF LostTagOut
  <2>6. ByStage'
    BY <2>1, <2>4, <2>5 DEF ByStage, StaleEntriesGone, PlannedPooled, AddedThere
  <2>7. QED
    BY <2>3, <2>6, InvParts
<1>10. ASSUME NEW r \in Roles, CreateReserved(m, r)
       PROVE  PlacementInv'
  <2>1. /\ at \in {"leases", "starting"} /\ at' = "starting"
        /\ lease[m].tag \in Tags /\ lease[m] # NoLease
        /\ UNCHANGED <<queue, pool, lease>>
    BY <1>k, <1>10, LeaseSorts DEF CreateReserved, Completing, Phases
  <2>2. \A n \in Machines : lease[n] # NoLease => lease[n].tag \notin Queued
    BY <1>k, <2>1
  <2>3. /\ \A x \in Slots : x # <<lease[m].tag, r>> => (slot'[x] # "none" <=> slot[x] # "none")
        /\ slot'[<<lease[m].tag, r>>] = "paused"
        /\ added' = {<<lease[m].tag, r>>}
    BY <1>k, <1>10, <2>1 DEF CreateReserved, TypeOK, Slots, AddedThere
  <2>4. LeasesPooled' /\ OneLeasePerTag' /\ QueuedOnce'
    BY <2>1 DEF PlacementInv, LeasesPooled, OneLeasePerTag, QueuedOnce
  <2>5. QueuedOrPlaced' /\ DoublyKnown' = {}
    BY <2>1, <2>2 DEF QueuedOrPlaced, DoublyKnown, Queued
  <2>6. QueuedWithoutSlots'
    <3> SUFFICES ASSUME NEW t \in Queued
                 PROVE  ~HasSlots(t)'
      BY <2>1 DEF QueuedWithoutSlots, Queued
    <3>1. t \in Tags /\ t # lease[m].tag /\ ~HasSlots(t)
      <4>1. t \in Tags /\ t # lease[m].tag
        BY <1>k, <2>1, <2>2, QueueSorts DEF Queued
      <4>2. QED
        BY <4>1 DEF PlacementInv, QueuedWithoutSlots
    <3>2. \A q \in Roles : slot'[t, q] # "none" <=> slot[t, q] # "none"
      BY <2>3, <3>1 DEF Slots
    <3>3. QED
      BY <3>1, <3>2 DEF HasSlots
  <2>7. AddedThere'
    BY <1>k, <2>1, <2>3 DEF AddedThere, TypeOK
  <2>8. QED
    BY <2>1, <2>4, <2>5, <2>6, <2>7, Visiting, InvParts DEF Everywhere
<1>11. ASSUME NEW r \in Roles, LoseSlot(m, r)
       PROVE  PlacementInv'
  <2>1. NothingPlaced /\ NothingQueued
    BY <1>k, <1>11, QueueKept, LeasesStay DEF LoseSlot, DropSlots, TypeOK
  <2>2. at \in {"leases", "losing"} /\ at' = "losing" /\ added = {} /\ added' = {}
    BY <1>k, <1>11 DEF LoseSlot, AddedThere
  <2>3. QED
    BY <2>1, <2>2, VisitStep DEF AddedThere
<1>12. QED
  BY <1>1, <1>2, <1>3, <1>4, <1>5, <1>6, <1>7, <1>8, <1>9, <1>10, <1>11,
     <1>p, <1>w, Zenon DEF AdvanceLease

\* A placement: a queued tag without a slot or a lease gets a machine, leaves the
\* queue with its entry, and its slots may start.
LEMMA Placing ==
  ASSUME TypeOK, TypeOK', Everywhere, NEW i \in DOMAIN queue, NEW m \in Machines,
         NEW l \in Leases, l.tag = queue[i].tag,
         \A n \in Machines : n # m => lease[n].tag # l.tag,
         lease' = [lease EXCEPT ![m] = l], m \in pool', pool \subseteq pool',
         queue' = RemoveAt(queue, i),
         \A x \in Slots : x[1] # l.tag => slot'[x] = slot[x]
  PROVE  Everywhere' /\ DoublyKnown' \subseteq DoublyKnown \ {m}
<1>1. QueuedOnce' /\ Queued' = Queued \ {l.tag} /\ l.tag \in Tags
  BY EntryRemoved, QueueSorts DEF Everywhere, TypeOK
<1>2. lease'[m] = l /\ \A n \in Machines : n # m => lease'[n] = lease[n] /\ lease'[n].tag # l.tag
  BY DEF TypeOK
<1>3. LeasesPooled'
  BY <1>2 DEF LeasesPooled, Everywhere
<1>4. OneLeasePerTag'
  BY <1>2 DEF OneLeasePerTag, Everywhere
<1>5. DoublyKnown' \subseteq DoublyKnown \ {m}
  BY <1>1, <1>2 DEF DoublyKnown
<1>6. ASSUME NEW t \in Queued'
      PROVE  t \in Queued /\ ~HasSlots(t) /\ ~HasSlots(t)'
  <2>1. t \in Queued /\ t # l.tag /\ t \in Tags /\ ~HasSlots(t)
    BY <1>1, QueueSorts DEF Queued, QueuedWithoutSlots, Everywhere
  <2>2. \A r \in Roles : slot'[t, r] = slot[t, r]
    <3> SUFFICES ASSUME NEW r \in Roles
                 PROVE  slot'[<<t, r>>] = slot[<<t, r>>]
      OBVIOUS
    <3>1. <<t, r>> \in Slots /\ <<t, r>>[1] # l.tag
      BY <2>1 DEF Slots
    <3>2. QED
      BY <3>1
  <2>3. QED
    BY <2>1, <2>2 DEF HasSlots
<1>7. QueuedWithoutSlots'
  BY <1>6 DEF QueuedWithoutSlots
<1>8. QueuedOrPlaced'
  <2> SUFFICES ASSUME NEW n \in Machines, lease'[n] # NoLease, lease'[n].tag \in Queued'
               PROVE  n \in Rentable /\ ~HasSlots(lease[n].tag)'
    BY <1>1, <1>2 DEF QueuedOrPlaced
  <2>1. n # m /\ lease'[n] = lease[n]
    BY <1>1, <1>2
  <2>2. PICK t \in Queued' : t = lease'[n].tag
    OBVIOUS
  <2>3. n \in Rentable
    BY <1>6, <2>1 DEF QueuedOrPlaced, Everywhere
  <2>4. ~HasSlots(t)'
    BY <1>6
  <2>5. QED
    BY <2>1, <2>2, <2>3, <2>4 DEF HasSlots
<1>9. QED
  BY <1>1, <1>3, <1>4, <1>5, <1>7, <1>8 DEF Everywhere

\* The slots a placement starts are those of its tag.
LEMMA StartsOwnSlots ==
  ASSUME TypeOK, NEW t \in Tags, NEW m, StartSlots(t, m)
  PROVE  \A x \in Slots : x[1] # t => slot'[x] = slot[x]
BY DEF TypeOK, StartSlots

\* Every step of a pass keeps the invariant.
LEMMA TickPlacement ==
  ASSUME PlacementInv, TypeOK', Tick
  PROVE  PlacementInv'
<1>k. /\ TypeOK /\ LeasesPooled /\ QueuedOnce /\ AddedThere /\ Everywhere
      /\ at \in VisitStages =>
           \A m \in Machines : lease[m] # NoLease => lease[m].tag \notin Queued
  BY VisitKnown, InvParts DEF VisitStages
<1>1. ASSUME TickStarts
      PROVE  PlacementInv'
  <2>1. NothingPlaced /\ NothingQueued
    BY <1>k, <1>1, QueueKept, LeasesStay DEF TickStarts, store
  <2>2. QED
    BY <1>k, <1>1, <2>1, RestStep DEF TickStarts, AddedThere
<1>2. ASSUME StaleDropped
      PROVE  PlacementInv'
  <2>1. NothingPlaced /\ NothingQueued
    BY <1>k, <1>2, QueueKept, LeasesStay DEF StaleDropped, store
  <2>2. DoublyKnown = {}
    BY <1>k, <1>2 DEF StaleDropped, Stale, Leased, LeasedOn, LeasesPooled, DoublyKnown, Queued
  <2>3. at' = "builds" /\ added' = {}
    BY <1>k, <1>2 DEF StaleDropped, AddedThere
  <2>4. Everywhere' /\ DoublyKnown' = {}
    BY <1>k, <2>1, <2>2, Shrinks
  <2>5. QED
    BY <2>3, <2>4, Visiting, InvParts DEF AddedThere
<1>3. ASSUME AdvanceBuilds
      PROVE  PlacementInv'
  <2>1. PICK submits :
          queue' = [i \in DOMAIN queue |->
                      Entry(queue[i].tag, AdvancedBundle(queue[i], submits))]
    BY <1>3, Zenon DEF AdvanceBuilds
  <2>2. DOMAIN queue' = DOMAIN queue /\ \A i \in DOMAIN queue : queue'[i].tag = queue[i].tag
    BY <2>1 DEF Entry
  <2>3. NothingQueued
    BY <1>k, <2>2 DEF NothingQueued, QueuedOnce, Queued
  <2>4. NothingPlaced
    BY <1>k, <1>3, LeasesStay DEF AdvanceBuilds
  <2>5. at = "builds" /\ at' = "rentals" /\ added = {} /\ added' = {}
    BY <1>k, <1>3 DEF AdvanceBuilds, AddedThere
  <2>6. QED
    BY <2>3, <2>4, <2>5, VisitStep DEF AddedThere
<1>4. ASSUME ListingFails
      PROVE  PlacementInv'
  <2>1. NothingPlaced /\ NothingQueued
    BY <1>k, <1>4, QueueKept, LeasesStay DEF ListingFails, store
  <2>2. at = "rentals" /\ at' = "leases" /\ added = {} /\ added' = {}
    BY <1>k, <1>4 DEF ListingFails, AddedThere
  <2>3. QED
    BY <2>1, <2>2, VisitStep DEF AddedThere
<1>5. ASSUME ReconcileRentals
      PROVE  PlacementInv'
  <2>1. PICK dropped \in SUBSET Machines, idle \in SUBSET {m \in Machines : lease[m] = NoLease} :
          /\ pool' = pool \ (dropped \cup idle)
          /\ lease' = [m \in Machines |-> IF m \in dropped THEN NoLease ELSE lease[m]]
    <3> DEFINE rented == pool \cap Rentable
               unready == {m \in rented : inst[m] = "none"}
               dropping == IF capacity THEN {} ELSE unready
               unleased == {m \in rented \ unready : lease[m] = NoLease}
    <3>1. PICK idle \in SUBSET unleased :
            /\ pool' = pool \ (dropping \cup idle)
            /\ lease' = [m \in Machines |-> IF m \in dropping THEN NoLease ELSE lease[m]]
      BY <1>5 DEF ReconcileRentals
    <3>2. dropping \subseteq Machines /\ unleased \subseteq {m \in Machines : lease[m] = NoLease}
      BY <1>k DEF TypeOK
    <3> HIDE DEF dropping, unleased
    <3>3. QED
      BY <3>1, <3>2
  <2>2. NothingPlaced
    BY <1>k, <1>5, <2>1 DEF NothingPlaced, LeasesPooled, ReconcileRentals
  <2>3. NothingQueued
    BY <1>k, <1>5, QueueKept DEF ReconcileRentals
  <2>4. at = "rentals" /\ at' = "leases" /\ added = {} /\ added' = {}
    BY <1>k, <1>5 DEF ReconcileRentals, AddedThere
  <2>5. QED
    BY <2>2, <2>3, <2>4, VisitStep DEF AddedThere
<1>6. ASSUME NEW i \in DOMAIN queue, DropStaleEntry(i)
      PROVE  PlacementInv'
  <2>1. NothingQueued
    BY <1>k, <1>6, EntryRemoved DEF DropStaleEntry, NothingQueued, TypeOK
  <2>2. NothingPlaced
    BY <1>k, <1>6, LeasesStay DEF DropStaleEntry
  <2>3. QED
    BY <1>k, <1>6, <2>1, <2>2, RestStep DEF DropStaleEntry, writer, AddedThere
<1>7. ASSUME NEW m \in Machines, AdvanceLease(m)
      PROVE  PlacementInv'
  BY <1>7, AdvanceLeasePlacement
<1>8. ASSUME LoseLease
      PROVE  PlacementInv'
  <2>1. /\ carry \in Leases /\ carry.tag \in Tags /\ carry.tag \notin Queued
        /\ ~HasSlots(carry.tag) /\ at = "lost"
        /\ \A m \in Machines : lease[m].tag # carry.tag
    BY <1>k, <1>8 DEF LoseLease, PlacementInv, LostTagOut, TypeOK, Leases
  <2>t. PICK t \in Tags : t = carry.tag
    BY <2>1
  <2>2. UNCHANGED <<lease, pool, slot>> /\ at' = "leases" /\ added' = {}
    BY <1>k, <1>8 DEF LoseLease, AddedThere
  <2>3. QueuedOnce' /\ Queued' \subseteq Queued \cup {t}
    <3>1. CASE WantsToRun(carry)
      <4>1. queue' = <<Requeued(t)>> \o queue
        BY <1>8, <2>t, <3>1 DEF LoseLease
      <4>2. Requeued(t) \in Entries /\ Requeued(t).tag = t /\ queue \in Seq(Entries)
        BY <1>k, RequeuedEntry DEF TypeOK
      <4>3. QED
        BY <1>k, <2>1, <2>t, <4>1, <4>2, EntryPrepended
    <3>2. CASE ~WantsToRun(carry)
      BY <1>k, <1>8, <3>2, QueueKept DEF LoseLease, NothingQueued
    <3>3. QED
      BY <3>1, <3>2
  <2>4. LeasesPooled' /\ OneLeasePerTag'
    BY <2>2 DEF PlacementInv, LeasesPooled, OneLeasePerTag
  <2>5. QueuedOrPlaced' /\ DoublyKnown' = {}
    BY <1>k, <2>1, <2>t, <2>2, <2>3 DEF QueuedOrPlaced, DoublyKnown, VisitStages
  <2>6. QueuedWithoutSlots'
    <3>1. \A u \in Queued' : ~HasSlots(u)'
      BY <2>1, <2>t, <2>2, <2>3 DEF PlacementInv, QueuedWithoutSlots, HasSlots
    <3>2. QED
      BY <3>1 DEF QueuedWithoutSlots
  <2>7. QED
    BY <2>2, <2>3, <2>4, <2>5, <2>6, Visiting, InvParts DEF Everywhere, AddedThere
<1>9. ASSUME LeasesAdvanced
      PROVE  PlacementInv'
  <2>1. NothingPlaced /\ NothingQueued
    BY <1>k, <1>9, QueueKept, LeasesStay DEF LeasesAdvanced, store
  <2>2. /\ at = "leases" /\ at' = "placing" /\ added' = {} /\ pool' = pool
        /\ plan' \subseteq Eligible
    BY <1>k, <1>9 DEF LeasesAdvanced, AddedThere, Matchings, store
  <2>3. PlannedPooled'
    BY <2>2 DEF PlannedPooled, Eligible, Free
  <2>4. Everywhere' /\ DoublyKnown' = {}
    BY <1>k, <2>1, <2>2, Shrinks DEF PlacementInv, StaleEntriesGone
  <2>5. ByStage'
    BY <2>2, <2>3, <2>4 DEF ByStage, StaleEntriesGone, LostTagOut, AddedThere
  <2>6. QED
    BY <2>4, <2>5, InvParts
<1>10. ASSUME Placed
       PROVE  PlacementInv'
  <2>1. NothingPlaced /\ NothingQueued
    BY <1>k, <1>10, QueueKept, LeasesStay DEF Placed, store
  <2>2. at = "placing" /\ at' = "renting" /\ added = {} /\ added' = {}
    BY <1>k, <1>10 DEF Placed, AddedThere
  <2>3. QED
    BY <2>1, <2>2, VisitStep DEF AddedThere
<1>11. ASSUME TickEnds
       PROVE  PlacementInv'
  <2>1. NothingPlaced /\ NothingQueued
    BY <1>k, <1>11, QueueKept, LeasesStay DEF TickEnds, store
  <2>2. QED
    BY <1>k, <1>11, <2>1, RestStep DEF TickEnds, AddedThere
<1>12. ASSUME NEW i \in DOMAIN queue, NEW m \in Machines, Place(i, m)
       PROVE  PlacementInv'
  <2> DEFINE l == Lease(queue[i].tag, "running", FALSE)
  <2>1. l \in Leases /\ l.tag = queue[i].tag /\ queue[i].tag \in Queued
    BY <1>k, QueueSorts DEF Lease, Leases, Phases, Queued
  <2>2. at = "placing" /\ added = {} /\ <<queue[i].tag, m>> \in plan
    BY <1>k, <1>12 DEF Place, AddedThere
  <2>3. m \in pool /\ \A p \in plan : p[2] \in pool
    BY <2>2 DEF PlacementInv, PlannedPooled
  <2>4. \A n \in Machines : lease[n].tag # queue[i].tag
    BY <1>k, <2>1, <2>2, LeaseSorts, QueueSorts DEF VisitStages
  <2>5. /\ lease' = [lease EXCEPT ![m] = l]
        /\ queue' = RemoveAt(queue, i)
        /\ pool' = pool /\ at' = "placing" /\ added' = {} /\ plan' \subseteq plan
    BY <1>12, <2>2 DEF Place
  <2>6. \A x \in Slots : x[1] # queue[i].tag => slot'[x] = slot[x]
    BY <1>k, <1>12, QueueSorts, StartsOwnSlots DEF Place
  <2> HIDE DEF l
  <2>7. Everywhere' /\ DoublyKnown' \subseteq DoublyKnown \ {m}
    BY <1>k, <2>1, <2>3, <2>4, <2>5, <2>6, Placing
  <2>8. DoublyKnown' = {}
    BY <2>2, <2>7 DEF PlacementInv, StaleEntriesGone
  <2>9. ByStage'
    BY <2>3, <2>5, <2>8 DEF ByStage, StaleEntriesGone, LostTagOut, PlannedPooled, AddedThere
  <2>10. QED
    BY <2>7, <2>9, InvParts
<1>13. ASSUME NEW i \in DOMAIN queue, NEW m \in Machines, RecordRental(i, m)
       PROVE  PlacementInv'
  <2>t. PICK t \in Tags : t = queue[i].tag /\ t \in Queued
    BY <1>k, QueueSorts DEF Queued
  <2>1. at = "renting" /\ at' = "launching" /\ added' = {} /\ todo' = {m}
    BY <1>k, <1>13 DEF RecordRental, AddedThere
  <2>2. m \in Rentable /\ pool' = pool \cup {m} /\ UNCHANGED <<queue, slot>>
    BY <1>13 DEF RecordRental, CanRent
  <2>3. lease'[m].tag = t /\ \A n \in Machines : n # m => lease'[n] = lease[n]
    BY <1>k, <1>13, <2>t DEF RecordRental, Lease, TypeOK
  <2>4. \A n \in Machines : lease[n].tag # t
    BY <1>k, <2>t, <2>1, LeaseSorts DEF VisitStages
  <2>5. ~HasSlots(t) /\ ~HasSlots(t)'
    BY <2>t, <2>2 DEF PlacementInv, QueuedWithoutSlots, HasSlots
  <2>6. DoublyKnown' \subseteq {m} /\ QueuedOnce' /\ Queued' = Queued
    BY <1>k, <2>1, <2>2, <2>3 DEF DoublyKnown, QueuedOnce, Queued, VisitStages
  <2>7. LeasesPooled' /\ OneLeasePerTag'
    BY <1>k, <2>2, <2>3, <2>4 DEF LeasesPooled, OneLeasePerTag, PlacementInv
  <2>8. QueuedOrPlaced'
    <3>1. \A n \in Machines : lease'[n] # NoLease /\ lease'[n].tag \in Queued' => n = m
      BY <2>6 DEF DoublyKnown
    <3>2. ~HasSlots(lease[m].tag)'
      BY <2>3, <2>5 DEF HasSlots
    <3>3. QED
      BY <2>2, <3>1, <3>2 DEF QueuedOrPlaced
  <2>9. QueuedWithoutSlots'
    BY <2>2, <2>6 DEF QueuedWithoutSlots, PlacementInv, HasSlots
  <2>10. ByStage'
    BY <2>1, <2>6 DEF ByStage, StaleEntriesGone, LostTagOut, PlannedPooled, AddedThere
  <2>11. QED
    BY <2>6, <2>7, <2>8, <2>9, <2>10, InvParts DEF Everywhere
<1>14. ASSUME NEW i \in DOMAIN queue, NEW m \in Machines, StartRental(i, m)
       PROVE  PlacementInv'
  <2> DEFINE l == InPhase(lease[m], "running")
  <2>1. lease[m].tag = queue[i].tag /\ queue[i].tag \in Tags
    BY <1>k, <1>14, QueueSorts DEF StartRental, LeasedOn
  <2>2. lease[m] \in Leases /\ lease[m] # NoLease
    BY <1>k, <2>1, LeaseSorts
  <2>3. l \in Leases /\ l.tag = queue[i].tag
    BY <2>1, <2>2, PhaseChanged DEF Phases
  <2>4. m \in pool /\ \A n \in Machines : n # m => lease[n].tag # queue[i].tag
    BY <1>k, <2>1, <2>2 DEF LeasesPooled, PlacementInv, OneLeasePerTag
  <2>5. DoublyKnown \subseteq {m} /\ added = {}
    BY <1>k, <1>14 DEF StartRental, PlacementInv, StaleEntriesGone, AddedThere
  <2>6. /\ lease' = [lease EXCEPT ![m] = l]
        /\ queue' = RemoveAt(queue, i)
        /\ pool' = pool /\ at' = "renting" /\ added' = {}
    BY <1>14, <2>5 DEF StartRental
  <2>7. \A x \in Slots : x[1] # queue[i].tag => slot'[x] = slot[x]
    BY <1>k, <1>14, QueueSorts, StartsOwnSlots DEF StartRental
  <2> HIDE DEF l
  <2>8. Everywhere' /\ DoublyKnown' \subseteq DoublyKnown \ {m}
    BY <1>k, <2>3, <2>4, <2>6, <2>7, Placing
  <2>9. DoublyKnown' = {}
    BY <2>5, <2>8
  <2>10. QED
    BY <2>6, <2>8, <2>9, Visiting, InvParts DEF AddedThere
<1>15. ASSUME NEW i \in DOMAIN queue, NEW m \in Machines, NEW S \in SUBSET Slots,
              PlaceRaises(i, m, S)
       PROVE  PlacementInv'
  <2> DEFINE l == Lease(queue[i].tag, "reserved", FALSE)
  <2>1. l \in Leases /\ l.tag = queue[i].tag /\ queue[i].tag \in Queued
    BY <1>k, QueueSorts DEF Lease, Leases, Phases, Queued
  <2>2. at = "placing" /\ added = {} /\ <<queue[i].tag, m>> \in plan
    BY <1>k, <1>15 DEF PlaceRaises, AddedThere
  <2>3. m \in pool
    BY <2>2 DEF PlacementInv, PlannedPooled
  <2>4. \A n \in Machines : lease[n].tag # queue[i].tag
    BY <1>k, <2>1, <2>2, LeaseSorts, QueueSorts DEF VisitStages
  <2>5. /\ lease' = [lease EXCEPT ![m] = l]
        /\ queue' = RemoveAt(queue, i)
        /\ pool' = pool /\ at' = "idle" /\ added' = {}
    BY <1>15, <2>2 DEF PlaceRaises
  <2>6. \A x \in Slots : x[1] # queue[i].tag => slot'[x] = slot[x]
    BY <1>k, <1>15 DEF PlaceRaises, TypeOK
  <2> HIDE DEF l
  <2>7. Everywhere' /\ DoublyKnown' \subseteq DoublyKnown \ {m}
    BY <1>k, <2>1, <2>3, <2>4, <2>5, <2>6, Placing
  <2>8. QED
    BY <2>5, <2>7, AtRest, InvParts
<1>r. ASSUME NEW i \in DOMAIN queue, NEW m \in Machines, NEW S \in SUBSET Slots,
             RentalRaises(i, m, S)
      PROVE  PlacementInv'
  <2>1. lease[m].tag = queue[i].tag /\ queue[i].tag \in Tags
    BY <1>k, <1>r, QueueSorts DEF RentalRaises, LeasedOn
  <2>2. lease[m] \in Leases /\ lease[m] # NoLease
    BY <1>k, <2>1, LeaseSorts
  <2>3. m \in pool /\ \A n \in Machines : n # m => lease[n].tag # queue[i].tag
    BY <1>k, <2>1, <2>2 DEF LeasesPooled, PlacementInv, OneLeasePerTag
  <2>4. added = {}
    BY <1>k, <1>r DEF RentalRaises, AddedThere
  <2>5. /\ lease' = [lease EXCEPT ![m] = lease[m]]
        /\ queue' = RemoveAt(queue, i)
        /\ pool' = pool /\ at' = "idle" /\ added' = {}
    BY <1>k, <1>r, <2>4 DEF RentalRaises, TypeOK
  <2>6. \A x \in Slots : x[1] # queue[i].tag => slot'[x] = slot[x]
    BY <1>k, <1>r DEF RentalRaises, TypeOK
  <2>7. Everywhere' /\ DoublyKnown' \subseteq DoublyKnown \ {m}
    BY <1>k, <2>1, <2>2, <2>3, <2>5, <2>6, Placing
  <2>8. QED
    BY <2>5, <2>7, AtRest, InvParts
<1>16. ASSUME NEW m \in Machines, Launch(m)
       PROVE  PlacementInv'
  <2>1. NothingPlaced /\ NothingQueued
    BY <1>k, <1>16, QueueKept, LeasesStay DEF Launch, store
  <2>2. Everywhere' /\ DoublyKnown' \subseteq DoublyKnown
    BY <1>k, <2>1, Shrinks
  <2>3. at = "launching" /\ at' = "launched" /\ added' = {} /\ todo' = todo
    BY <1>k, <1>16 DEF Launch, AddedThere
  <2>4. \E n \in Machines : todo' = {n} /\ DoublyKnown' \subseteq {n}
    BY <2>2, <2>3 DEF PlacementInv, StaleEntriesGone
  <2>5. ByStage'
    BY <2>3, <2>4 DEF ByStage, StaleEntriesGone, LostTagOut, PlannedPooled, AddedThere
  <2>6. QED
    BY <2>2, <2>5, InvParts
<1>17. ASSUME NEW m \in Machines, LaunchRefused(m)
       PROVE  PlacementInv'
  <2>1. NothingPlaced /\ NothingQueued
    BY <1>k, <1>17, QueueKept, LeaseEnds DEF LaunchRefused
  <2>2. QED
    BY <1>k, <1>17, <2>1, RestStep DEF LaunchRefused, AddedThere
<1>18. QED
  BY <1>1, <1>2, <1>3, <1>4, <1>5, <1>6, <1>7, <1>8, <1>9, <1>10, <1>11, <1>12,
     <1>13, <1>14, <1>15, <1>16, <1>17, <1>r, Zenon DEF Tick

\* The placement invariant is inductive, so it holds in every reachable state.
THEOREM PlacementInvariant == Spec => []PlacementInv
<1>1. Init => PlacementInv
  <2> SUFFICES ASSUME Init
               PROVE  PlacementInv
    OBVIOUS
  <2>1. TypeOK
    BY InitTypeOK
  <2>2. queue = <<>> /\ Queued = {}
    BY DEF Init, Queued
  <2>3. /\ lease = [m \in Machines |-> NoLease] /\ NoLease.tag = NoTag
        /\ at = "idle" /\ added = {}
    BY DEF Init, NoLease
  <2>4. LeasesPooled /\ OneLeasePerTag /\ QueuedOrPlaced
    BY <2>3 DEF LeasesPooled, OneLeasePerTag, QueuedOrPlaced
  <2>5. QueuedOnce /\ QueuedWithoutSlots
    BY <2>2 DEF QueuedOnce, QueuedWithoutSlots
  <2>6. StaleEntriesGone /\ LostTagOut /\ PlannedPooled /\ AddedThere
    BY <2>3 DEF StaleEntriesGone, LostTagOut, PlannedPooled, AddedThere
  <2>7. QED
    BY <2>1, <2>4, <2>5, <2>6 DEF PlacementInv
<1>2. PlacementInv /\ [Next]_vars => PlacementInv'
  <2> SUFFICES ASSUME PlacementInv, [Next]_vars
               PROVE  PlacementInv'
    OBVIOUS
  <2>1. TypeOK /\ TypeOK'
    BY TypeStep, InvParts
  <2>2. CASE UNCHANGED vars
    <3>1. UNCHANGED <<store, writer>>
      BY <2>2 DEF vars
    <3>2. NothingPlaced /\ NothingQueued
      BY <3>1, QueueKept, LeasesStay DEF store, PlacementInv
    <3>3. QED
      BY <2>1, <3>1, <3>2, SameStage DEF store, PlacementInv, AddedThere
  <2>3. QED
    BY <2>1, <2>2, CommandsPlacement, StopStepPlacement, TickPlacement, OthersPlacement DEF Next
<1>3. QED
  BY <1>1, <1>2, PTL DEF Spec

\* No tag ever leases two machines.
THEOREM NeverPlacedTwice == Spec => []OneLeasePerTag
BY PlacementInvariant, PTL DEF PlacementInv

\* No tag is ever queued twice.
THEOREM NeverQueuedTwice == Spec => []QueuedOnce
BY PlacementInvariant, PTL DEF PlacementInv

\* A queued tag has no slots, and a lease only if a rental is being made for it.
THEOREM NeverQueuedAndPlaced == Spec => []QueuedOrPlaced
BY PlacementInvariant, PTL DEF PlacementInv

=============================================================================
