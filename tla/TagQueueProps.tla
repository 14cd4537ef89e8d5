--------------------------- MODULE TagQueueProps ---------------------------
(***************************************************************************)
(* What makes the tag queue correct: properties of TagQueue's states and   *)
(* steps, and the abstract specification it implements.                    *)
(***************************************************************************)
EXTENDS TagQueue

\* The sorts of the variables; a machine outside the pool has no lease, and a
\* role without a slot has no machine and no worker.
TypeOK ==
  /\ exists \subseteq Tags
  /\ pinned \subseteq Tags
  /\ queue \in Seq(Entries)
  /\ pool \subseteq Machines
  /\ lease \in [Machines -> Leases \cup {NoLease}]
  /\ retiring \subseteq Machines
  /\ capacity \in BOOLEAN
  /\ cap \in 0 .. MaxCap
  /\ slot \in [Slots -> SlotStates]
  /\ host \in [Slots -> Machines \cup {NoMachine}]
  /\ builds \in [Tags -> {"none", "running", "ok", "failed"}]
  /\ drain \in [Machines -> {"none", "running", "ok", "failed"}]
  /\ left \in [Machines -> SUBSET Roles]
  /\ at \in {"idle", "stopping", "dropping", "builds", "rentals", "leases", "losing",
             "lost", "starting", "placing", "renting", "launching", "launched"}
  /\ todo \subseteq Machines
  /\ plan \subseteq Tags \X Machines
  /\ gone \subseteq Machines
  /\ carry \in Leases \cup {NoLease}
  /\ added \subseteq Slots
  /\ work \in [Slots -> WorkStates]
  /\ out \subseteq Slots
  /\ inst \in [Machines -> {"none", "up", "stopped", "gone"}]
  /\ busy \subseteq Machines

\* No tag leases two machines, whatever restarts, requeues and lost rentals
\* came between: `_leased` reads the first lease that names the tag.
OneLeasePerTag ==
  \A m, n \in Machines : lease[m] # NoLease /\ lease[m].tag = lease[n].tag => m = n

\* A tag is queued once: entries come from the operator, from a release and
\* from a lost rental, and Queue.find and the matching know them by tag.
QueuedOnce ==
  \A i, j \in DOMAIN queue : queue[i].tag = queue[j].tag => i = j

\* A tag is never both queued and placed (_place), except between a rental's
\* record and its queue entry's removal: then it has no slots yet.
QueuedOrPlaced ==
  \A m \in Machines :
    lease[m] # NoLease /\ lease[m].tag \in Queued =>
      m \in Rentable /\ ~HasSlots(lease[m].tag)

\* A queue-made slot always has its tag's lease on its machine behind it: the
\* lease alone keeps other tags off that machine (occupants skips the tag's own
\* slots), and a slot without a pool machine breaks every lookup of it.
SlotsUnderLease ==
  \A x \in Slots : slot[x] # "none" => host[x] \in pool /\ LeasedOn(host[x], x[1])

\* Only one tag's workers are alive on a machine.
OneTagAlive ==
  \A x, y \in Slots :
    work[x] = "alive" /\ work[y] = "alive" /\ host[x] = host[y] => x[1] = y[1]

\* A drain's result is still true when the pass acts on it: every slot of the
\* tag is down and its container empty, so that removing the slots discards
\* nothing ("Release drains before it removes").
DrainedIsClean ==
  \A m \in Machines :
    lease[m].phase = "releasing" /\ drain[m] = "ok" =>
      \A r \in Roles : work[lease[m].tag, r] # "alive" /\ <<lease[m].tag, r>> \notin out

ReleasedEmpty ==
  \A m \in Machines :
    /\ lease[m].phase = "releasing" /\ lease[m].tag \in exists
    /\ lease'[m] = NoLease /\ m \in pool'
    => \A r \in Roles : <<lease[m].tag, r>> \notin out

\* A release closes a lease only with every container of its tag emptied: a
\* generator's container is removed without another sweep.
ReleaseDiscardsNothing == [][ReleasedEmpty]_vars

\* Queued, on a machine, or in the writer's hands on its way back.
InCustody(t) ==
  \/ t \in Queued
  \/ Leased(t)
  \/ at = "lost" /\ carry.tag = t /\ WantsToRun(carry)

StaysInCustody ==
  \A t \in Tags :
    InCustody(t) /\ ~InCustody(t)' =>
      \/ t \notin exists
      \/ at = "idle" /\ t \in Queued
      \/ \E m \in Machines : LeasedOn(m, t) /\ ~WantsToRun(lease[m])

\* A tag leaves the queue's custody only when its task is deleted, when the
\* operator dequeues it, or when a lease that is not to run again ends.  In
\* particular a requeued tag, or one whose rental was lost, is not forgotten.
CustodyKept == [][StaysInCustody]_vars

EndedWithCause ==
  \A m \in Machines :
    /\ lease[m].phase = "running"
    /\ lease'[m].phase \in {"releasing", "held"}
    /\ ~lease'[m].requeue
    => \/ \A r \in Roles : slot[lease[m].tag, r] = "finished"
       \/ \E r \in Roles : slot[lease[m].tag, r] = "failed"

\* Without a requeue, a lease ends only once its tag's slots show why: the whole
\* layout finished, or a slot failed.  (A running lease without slots counts as
\* finished, "placement creates a lease together with its slots".)
EndsWithCause == [][EndedWithCause]_vars

BackAtHead ==
  \A m \in Machines :
    /\ lease[m].phase = "releasing" /\ lease[m].requeue
    /\ lease[m].tag \in exists
    /\ lease'[m] = NoLease /\ m \in pool'
    => /\ queue' # <<>> /\ Head(queue').tag = lease[m].tag
       /\ Tail(queue') = queue

\* A tag taken off a machine to run again goes to the head of the queue, ahead
\* of everything that was waiting.
ReturnsToHead == [][BackAtHead]_vars

-----------------------------------------------------------------------------
\* Why no tag is placed twice: the inductive invariant behind OneLeasePerTag,
\* QueuedOnce and QueuedOrPlaced.

\* Only a machine of the pool is leased.
LeasesPooled == \A m \in Machines : lease[m] # NoLease => m \in pool

\* The tags that are both queued and leased, by the machine leased.
DoublyKnown == {m \in Machines : lease[m] # NoLease /\ lease[m].tag \in Queued}

\* A queued tag has no slots.
QueuedWithoutSlots == \A t \in Queued : ~HasSlots(t)

\* From the moment the pass has dropped the stale entries, no queued tag is
\* leased, except by the rental the pass is making.
StaleEntriesGone ==
  /\ at \in {"builds", "rentals", "leases", "starting", "losing", "lost", "placing", "renting"} =>
       DoublyKnown = {}
  /\ at \in {"launching", "launched"} =>
       \E m \in Machines : todo = {m} /\ DoublyKnown \subseteq {m}

\* The tag in the writer's hands is nowhere else.
LostTagOut ==
  at = "lost" =>
    /\ carry # NoLease
    /\ carry.tag \notin Queued
    /\ ~HasSlots(carry.tag)
    /\ \A m \in Machines : lease[m].tag # carry.tag

\* The pass places on machines of the pool.
PlannedPooled == at = "placing" => \A p \in plan : p[2] \in pool

\* The slots created for a reservation and not yet saved as wanted are there.
AddedThere ==
  added # {} => at = "starting" /\ \A x \in added : slot[x] # "none"

PlacementInv ==
  /\ TypeOK
  /\ LeasesPooled
  /\ OneLeasePerTag
  /\ QueuedOnce
  /\ QueuedOrPlaced
  /\ QueuedWithoutSlots
  /\ StaleEntriesGone
  /\ LostTagOut
  /\ PlannedPooled
  /\ AddedThere

-----------------------------------------------------------------------------
\* The further invariants behind SlotsUnderLease, OneTagAlive, DrainedIsClean
\* and the action properties.

\* A slot's tag has its task, and where there is no slot there is no worker and
\* no container.
SlotsWhole ==
  \A x \in Slots : IF slot[x] = "none" THEN work[x] = "none" /\ x \notin out
                                      ELSE x[1] \in exists

\* The slots of a leased tag are on the machine it leases.
SlotsAtLease ==
  \A m \in Machines, x \in Slots :
    lease[m].tag = x[1] /\ slot[x] # "none" => host[x] = m

\* What the pass has found queued, and what it took off a lost rental, it may
\* still place: no command deletes a task until the pass ends.
EntriesExist ==
  /\ at \notin {"idle", "stopping", "dropping"} => Queued \subseteq exists
  /\ at = "lost" => carry.tag \in exists

\* The machines of the plan are free until their own match is placed.
PlanFree ==
  at = "placing" => IsMatching(plan) /\ \A p \in plan : lease[p[2]] = NoLease

\* A rental being made is reserved for a tag that is still queued.
RentalReserved ==
  at \in {"launching", "launched"} =>
    \A m \in todo : /\ lease[m].tag \in Queued
                    /\ lease[m] = Lease(lease[m].tag, "reserved", FALSE)

\* The slots being created are a reserved tag's.
StartingReserved ==
  at = "starting" => carry.phase = "reserved" /\ \A x \in added : x[1] = carry.tag

\* A lease marked for requeueing is being released.
RequeueReleases ==
  \A m \in Machines : lease[m].requeue => lease[m].phase = "releasing"

SlotsInv ==
  /\ PlacementInv
  /\ SlotsWhole
  /\ SlotsAtLease
  /\ EntriesExist
  /\ PlanFree
  /\ RentalReserved
  /\ StartingReserved
  /\ RequeueReleases

\* No rental is dropped under its lease.
CapacityKept == capacity \/ Rentable = {}

\* Nothing restarts the workers of a tag that is held or being released, ...
Unwanted ==
  \A m \in Machines :
    lease[m].phase \in {"held", "releasing"} =>
      \A r \in Roles : slot[lease[m].tag, r] # "running"

\* ... so what a drain is done with stays down and empty.
DrainedSoFar ==
  \A m \in Machines :
    lease[m].phase = "releasing" /\ drain[m] \in {"running", "ok"} =>
      /\ drain[m] = "ok" => left[m] = {}
      /\ \A r \in Roles \ left[m] :
           work[lease[m].tag, r] # "alive" /\ <<lease[m].tag, r>> \notin out

\* A running lease has its whole layout of slots, until its rental is lost, ...
RunningWhole ==
  \A m \in Machines :
    lease[m].phase = "running" /\ ~(at = "losing" /\ carry = lease[m]) =>
      \A r \in Roles : slot[lease[m].tag, r] # "none"

\* ... which takes the instance's loss.
LossSeen ==
  "instance" \notin Faults =>
    at \notin {"losing", "lost"} /\ gone = {} /\ \A m \in Machines : inst[m] # "gone"

-----------------------------------------------------------------------------
\* TagQueue implements TagLifecycle.

LeaseOf(t) == lease[CHOOSE m \in Machines : LeasedOn(m, t)]

\* The state of a tag on a machine, by its lease l.
LifeUnder(l) ==
  CASE l.phase = "releasing" -> IF l.requeue THEN "returning" ELSE "ending"
    [] l.phase = "held"      -> "held"
    [] OTHER                 -> "placed"

Life(t) ==
  IF Leased(t) THEN LifeUnder(LeaseOf(t))
               ELSE IF InCustody(t) THEN "queued" ELSE "idle"

MachineOf(t) ==
  IF Leased(t) THEN CHOOSE m \in Machines : LeasedOn(m, t) ELSE NoMachine

Lives == [t \in Tags |-> Life(t)]
MachinesOf == [t \in Tags |-> MachineOf(t)]

Lifecycle == INSTANCE TagLifecycle WITH created <- exists, life <- Lives, on <- MachinesOf

\* Each step of the queue is a step, or a stutter, of the lifecycle above.
ImplementsLifecycle == Lifecycle!Spec

-----------------------------------------------------------------------------
\* Liveness.  Passes keep coming and each visits every slot, the drain and
\* build threads run what is submitted, and a worker ends by itself.

Fairness ==
  /\ WF_vars(Tick)
  /\ \A m \in Machines :
       WF_vars(DrainDone(m) \/ DrainRaises(m) \/ \E r \in Roles : DrainSlot(m, r))
  /\ \A t \in Tags : WF_vars(BuildEnds(t))
  /\ \A t \in Tags, r \in Roles :
       /\ SF_vars(StartWorker(t, r))
       /\ SF_vars(StopWorker(t, r))
       /\ SF_vars(NoteFinished(t, r) \/ NoteFailed(t, r))
       /\ WF_vars(WorkerExits(t, r))

FairSpec == Spec /\ Fairness

\* The dashboard restarts for ever; otherwise, after its last restart, ...
\* (The end of a quiet pass changes the state as a restart at that point would:
\* it is no restart.)
RestartsForever == []<><<Crash /\ ~TickEnds /\ ~StopEnds>>_vars

\* A release in progress ends: its drain succeeds once its workers are down
\* (I8 of the state model: after a restart the control plane converges).
ReleaseEnds ==
  \/ RestartsForever
  \/ \A m \in Machines :
       lease[m].phase = "releasing" ~> lease[m].phase # "releasing"

\* A queued tag that some pool machine fits gets a machine, or shows why not:
\* the operator took it out, or its bundle failed to build.
QueuedRuns ==
  \/ RestartsForever
  \/ \A t \in Tags :
       t \in Queued ~> \/ t \notin Queued
                       \/ \E i \in DOMAIN queue : queue[i] = Entry(t, "failed")
=============================================================================
