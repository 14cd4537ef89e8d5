------------------------------ MODULE TagQueue ------------------------------
(***************************************************************************)
(* The tag queue of the training dashboard (dashboard/tag_queue.py) with   *)
(* what it drives: the machine pool and its leases (pool.py), the slots of *)
(* a placed tag as the worker manager keeps them (workers.py), the drain   *)
(* and build threads, and the pool's rentals (pool_rentals.py).            *)
(*                                                                         *)
(* One thread, the writer, runs the operator's commands and the steps of   *)
(* the reconcile pass.  A command is atomic to the other commands; a pass  *)
(* (tick) is a sequence of commits, so `at` says where the writer is: only *)
(* at "idle" may a command or a worker-manager step run, while the drain   *)
(* and build threads, the workers and the provider never wait for it.      *)
(* Every action ends in at most one commit of the control store, so a      *)
(* crash between two actions is a crash between two commits.               *)
(***************************************************************************)
EXTENDS Placement, FiniteSets, SequencesExt

CONSTANTS
  Tags,        \* tags, each of one workload
  Machines,    \* names of pool machines
  Roles,       \* the roles of the layout, one slot each
  NoTag,       \* the tag of a machine without a lease
  NoMachine,   \* the host of a role without a slot
  Trainers,    \* the roles with an ingest tick, swept by a removal
  Ssh,         \* the machines reached over ssh: workers run in containers
  Rentable,    \* the machines the pool rents, under one capacity entry
  MaxCap,      \* that entry's cap
  Fits,        \* pairs <<tag, machine>> that pass refusal, bundle aside
  Operator,    \* the operator's commands an instance explores
  Faults       \* the faults an instance explores

ASSUME PoolAssumption ==
  /\ Rentable \subseteq Ssh
  /\ Ssh \subseteq Machines
  /\ Trainers \subseteq Roles
  /\ Fits \subseteq Tags \X Machines
  /\ MaxCap \in Nat

ASSUME NullAssumption == NoTag \notin Tags /\ NoMachine \notin Machines

VARIABLES
  \* The control store: what survives a crash.
  exists,     \* the tags with a task record
  pinned,     \* the tags whose task has a pinned bundle
  queue,      \* the queue's entries, in order
  pool,       \* the machines in the pool
  lease,      \* the lease of each machine
  retiring,   \* the rentals being given up
  capacity,   \* whether the capacity entry exists
  cap,        \* its cap
  slot,       \* state of each tag's slot of each role
  host,       \* the machine that slot is on
  \* The dashboard process: what a crash forgets.
  builds,     \* per tag, its bundle build on the build thread
  drain,      \* per machine, the drain of its releasing lease
  left,       \* per machine, the roles that drain has yet to do
  at,         \* where the writer thread is
  todo,       \* the machines the writer has yet to visit
  plan,       \* the placements the writer has yet to make
  gone,       \* the rentals this pass's listing showed gone
  carry,      \* the lease it is completing, or ending as its machine is lost
  added,      \* the slots it has created and not yet saved as wanted
  \* The world.
  work,       \* per tag and role, its worker process or container
  out,        \* the tag-role pairs whose container holds output
  inst,       \* per rental, its provider instance
  busy        \* the machines with slots run by hand

store == <<exists, pinned, queue, pool, lease, retiring, capacity, cap, slot, host>>
writer == <<at, todo, plan, gone, carry, added>>
threads == <<builds, drain, left>>
world == <<work, out, inst, busy>>
vars == <<store, writer, threads, world>>

-----------------------------------------------------------------------------
\* Values and views of the state.

Phases == {"reserved", "running", "releasing", "held"}
NoLease == [tag |-> NoTag, phase |-> "free", requeue |-> FALSE]
Lease(t, p, q) == [tag |-> t, phase |-> p, requeue |-> q]
Leases == [tag : Tags, phase : Phases, requeue : BOOLEAN]

\* The lease l, in phase p.
InPhase(l, p) == Lease(l.tag, p, l.requeue)

Bundles == {"none", "building", "ready", "failed"}
Entry(t, b) == [tag |-> t, bundle |-> b]
Entries == [tag : Tags, bundle : Bundles]

\* A slot is wanted ("running"), or paused: by the operator, as finished or
\* as failed.  "none" is a role without a slot.
SlotStates == {"none", "running", "paused", "finished", "failed"}

\* A worker is alive, or down with how it exited, or there is none.
Exits == {"done", "crash", "fatal", "term"}
WorkStates == {"none", "alive"} \cup Exits

Slots == Tags \X Roles

Queued == {queue[i].tag : i \in DOMAIN queue}

LeasedOn(m, t) == lease[m].tag = t
Leased(t) == \E m \in pool : LeasedOn(m, t)
HasSlots(t) == \E r \in Roles : slot[t, r] # "none"

\* placement.refusal: the hardware fit, then the bundle an ssh machine needs.
Refused(e, m) ==
  \/ <<e.tag, m>> \notin Fits
  \/ m \in Ssh /\ e.bundle # "ready"

\* The ssh machines, pooled or to be rented, a tag could run on.
SshTargets(t) ==
  {m \in (pool \cup IF capacity THEN Rentable ELSE {}) \cap Ssh : <<t, m>> \in Fits}

\* The entry a tag goes back to the queue with.
Requeued(t) == Entry(t, IF t \in pinned THEN "ready" ELSE "none")

\* Whether a rental's machine can be reached over ssh.
Reachable(m) == m \in Rentable => inst[m] = "up"

\* A tag's slots as a role set.
RolesOf(t) == {r \in Roles : slot[t, r] # "none"}

\* Slots S are gone, with their containers and what these hold.
DropSlots(S) ==
  /\ slot' = [x \in Slots |-> IF x \in S THEN "none" ELSE slot[x]]
  /\ host' = [x \in Slots |-> IF x \in S THEN NoMachine ELSE host[x]]
  /\ work' = [x \in Slots |-> IF x \in S THEN "none" ELSE work[x]]
  /\ out' = out \ S

\* The workers alive in slots S are ended, and may flush into their containers.
GoDown(S) ==
  LET alive == {x \in S : work[x] = "alive"}
  IN /\ work' = [x \in Slots |-> IF x \in alive THEN "term" ELSE work[x]]
     /\ \E flushed \in SUBSET alive : out' = out \cup flushed

\* _start_slots: the layout's slots the tag lacks, wanted, on machine m.
StartSlots(t, m) ==
  LET new == {x \in Slots : x[1] = t /\ slot[x] = "none"}
  IN /\ slot' = [x \in Slots |-> IF x \in new THEN "running" ELSE slot[x]]
     /\ host' = [x \in Slots |-> IF x \in new THEN m ELSE host[x]]

\* Every wanted slot of t is paused.
PauseSlots(t) ==
  slot' = [x \in Slots |->
             IF x[1] = t /\ slot[x] = "running" THEN "paused" ELSE slot[x]]

\* _submit_drain: a drain over the slots the tag has now.
SubmitDrain(m) ==
  /\ drain' = [drain EXCEPT ![m] = "running"]
  /\ left' = [left EXCEPT ![m] = RolesOf(lease[m].tag)]

\* _start_release, of the lease l of machine m.
StartRelease(m, l) ==
  /\ lease' = [lease EXCEPT ![m] = InPhase(l, "releasing")]
  /\ SubmitDrain(m)

EndDrain(m, result) ==
  /\ drain' = [drain EXCEPT ![m] = result]
  /\ left' = [left EXCEPT ![m] = {}]

Fault(f) == f \in Faults
Command(c) == at = "idle" /\ c \in Operator

-----------------------------------------------------------------------------
\* The operator's commands, run whole on the writer thread.

CreateTask(t) ==
  /\ Command("create")
  /\ t \notin exists
  /\ exists' = exists \cup {t}
  /\ UNCHANGED <<pinned, queue, pool, lease, retiring, capacity, cap, slot, host,
                 writer, threads, world>>

\* enqueue.  A tag an ssh machine could take has its bundle built at once.
Enqueue(t) ==
  /\ Command("enqueue")
  /\ t \in exists \ Queued
  /\ ~HasSlots(t)
  /\ ~Leased(t)
  /\ LET bundle == IF SshTargets(t) = {} THEN "none" ELSE "building"
     IN /\ queue' = Append(queue, Entry(t, bundle))
        /\ builds' = IF bundle = "building" THEN [builds EXCEPT ![t] = "running"]
                                            ELSE builds
  /\ UNCHANGED <<exists, pinned, pool, lease, retiring, capacity, cap, slot, host,
                 writer, drain, left, world>>

Dequeue(i) ==
  /\ Command("dequeue")
  /\ queue' = RemoveAt(queue, i)
  /\ builds' = [builds EXCEPT ![queue[i].tag] = "none"]
  /\ UNCHANGED <<exists, pinned, pool, lease, retiring, capacity, cap, slot, host,
                 writer, drain, left, world>>

\* move, one place toward the tail (toward the head is the same exchange).
Move(i) ==
  /\ Command("move")
  /\ i + 1 \in DOMAIN queue
  /\ queue' = [queue EXCEPT ![i] = queue[i + 1], ![i + 1] = queue[i]]
  /\ UNCHANGED <<exists, pinned, pool, lease, retiring, capacity, cap, slot, host,
                 writer, threads, world>>

\* release: every slot of a placed tag is finished; one already failed stays
\* failed as well, and the pass sees the failure first.
Release(m) ==
  /\ Command("release")
  /\ lease[m].phase = "running"
  /\ slot' = [x \in Slots |->
                IF LeasedOn(m, x[1]) /\ slot[x] \in {"running", "paused"}
                  THEN "finished" ELSE slot[x]]
  /\ UNCHANGED <<exists, pinned, queue, pool, lease, retiring, capacity, cap, host,
                 writer, threads, world>>

\* The body of requeue: pause the slots, mark the lease and start its release.
RequeueLease(m) ==
  /\ PauseSlots(lease[m].tag)
  /\ StartRelease(m, Lease(lease[m].tag, lease[m].phase, TRUE))

Requeue(m) ==
  /\ Command("requeue")
  /\ m \in pool
  /\ lease[m].phase \in {"reserved", "running", "held"}
  /\ lease[m].tag \in exists
  /\ RequeueLease(m)
  /\ UNCHANGED <<exists, pinned, queue, pool, retiring, capacity, cap, host,
                 writer, builds, world>>

\* stop_cloud: first the caps and the retiring marks are committed, then each
\* rental is dealt with in turn.
StopCloud ==
  /\ Command("stop_cloud")
  /\ cap' = 0
  /\ retiring' = retiring \cup (pool \cap Rentable)
  /\ at' = "stopping"
  /\ todo' = pool \cap Rentable
  /\ UNCHANGED <<exists, pinned, queue, pool, lease, capacity, slot, host,
                 plan, gone, carry, added, threads, world>>

StopUnleased(m) ==
  /\ lease[m] = NoLease
  /\ \A x \in Slots : host[x] # m
  /\ pool' = pool \ {m}
  /\ inst' = [inst EXCEPT ![m] = "none"]
  /\ retiring' = retiring \ {m}
  /\ UNCHANGED <<lease, slot, drain, left>>

StopPlaced(m) ==
  /\ lease[m].phase \in {"reserved", "running"}
  /\ lease[m].tag \in exists
  /\ RequeueLease(m)
  /\ UNCHANGED <<pool, retiring, inst>>

StopHeld(m) ==
  /\ lease[m].phase = "held"
  /\ StartRelease(m, lease[m])
  /\ UNCHANGED <<pool, retiring, inst, slot>>

\* A releasing rental is terminated once its release completes.
StopReleasing(m) ==
  /\ lease[m].phase = "releasing"
  /\ UNCHANGED <<pool, retiring, inst, lease, slot, drain, left>>

StopRental(m) ==
  /\ at = "stopping"
  /\ m \in todo
  /\ StopUnleased(m) \/ StopPlaced(m) \/ StopHeld(m) \/ StopReleasing(m)
  /\ todo' = todo \ {m}
  /\ UNCHANGED <<exists, pinned, queue, capacity, cap, host,
                 at, plan, gone, carry, added, builds, work, out, busy>>

\* Every rental is dealt with, or one raised (the provider refused a terminate,
\* a leased tag was deleted, slots still name an unleased one) and the command
\* ends there.
StopEnds ==
  /\ at = "stopping"
  /\ \/ todo = {}
     \/ Fault("provider")
     \/ \E m \in todo : lease[m].phase \in {"reserved", "running"} /\ lease[m].tag \notin exists
     \/ \E m \in todo, x \in Slots : lease[m] = NoLease /\ host[x] = m
  /\ at' = "idle"
  /\ todo' = {}
  /\ UNCHANGED <<store, plan, gone, carry, added, threads, world>>

\* delete_task.  Wanted slots refuse it up front.
DeleteTask(t) ==
  /\ Command("delete")
  /\ t \in exists
  /\ \A r \in Roles : slot[t, r] # "running" /\ work[t, r] # "alive"
  /\ exists' = exists \ {t}
  /\ pinned' = pinned \ {t}
  /\ DropSlots({t} \X Roles)
  /\ UNCHANGED <<queue, pool, lease, retiring, capacity, cap, writer, threads, inst, busy>>

\* delete_task, refused midway by a paused slot whose worker is still alive:
\* "a refusal partway leaves the earlier ones gone".
DeletePartway(t, S) ==
  /\ Command("delete")
  /\ t \in exists
  /\ \A r \in Roles : slot[t, r] # "running"
  /\ \E r \in Roles : work[t, r] = "alive"
  /\ \A x \in S : x[1] = t /\ slot[x] # "none" /\ work[x] # "alive"
  /\ DropSlots(S)
  /\ UNCHANGED <<exists, pinned, queue, pool, lease, retiring, capacity, cap,
                 writer, threads, inst, busy>>

\* The command that starts a slot whose tag's lease is in the given phase.
StartCommand ==
  [free |-> "start", reserved |-> "start", running |-> "start",
   held |-> "start_held", releasing |-> "start_releasing"]

\* set_worker_state(run=True).  A machine that cannot be reached, or a gate,
\* leaves the worker for a later pass to start.
StartSlot(t, r) ==
  /\ slot[t, r] # "none"
  /\ Command(StartCommand[lease[host[t, r]].phase])
  /\ slot' = [slot EXCEPT ![<<t, r>>] = "running"]
  /\ \/ work' = work
     \/ Reachable(host[t, r]) /\ work' = [work EXCEPT ![<<t, r>>] = "alive"]
  /\ UNCHANGED <<exists, pinned, queue, pool, lease, retiring, capacity, cap, host,
                 writer, threads, out, inst, busy>>

\* set_worker_state(run=False).  A finished or failed slot is paused already.
PauseSlot(t, r) ==
  /\ Command("pause")
  /\ slot[t, r] = "running"
  /\ slot' = [slot EXCEPT ![<<t, r>>] = "paused"]
  /\ UNCHANGED <<exists, pinned, queue, pool, lease, retiring, capacity, cap, host,
                 writer, threads, world>>

\* remove_worker: refused while the worker runs; discards what a container
\* still holds, which the operator is told.
RemoveSlot(t, r) ==
  /\ Command("remove")
  /\ slot[t, r] # "none"
  /\ work[t, r] # "alive"
  /\ DropSlots({<<t, r>>})
  /\ UNCHANGED <<exists, pinned, queue, pool, lease, retiring, capacity, cap,
                 writer, threads, inst, busy>>

AddMachine(m) ==
  /\ Command("add_machine")
  /\ m \in Machines \ (Rentable \cup pool)
  /\ pool' = pool \cup {m}
  /\ UNCHANGED <<exists, pinned, queue, lease, retiring, capacity, cap, slot, host,
                 writer, threads, world>>

\* Mutant: neither the lease nor the slots on the machine are looked at.
RemoveMachineInUse(m) ==
  /\ Command("remove_machine")
  /\ m \in pool
  /\ pool' = pool \ {m}
  /\ retiring' = retiring \ {m}
  /\ inst' = IF m \in Rentable THEN [inst EXCEPT ![m] = "none"] ELSE inst
  /\ UNCHANGED <<exists, pinned, queue, lease, capacity, cap, slot, host,
                 writer, threads, work, out, busy>>

\* remove_pool_machine, terminating a rental.
RemoveMachine(m) ==
  /\ Command("remove_machine")
  /\ m \in pool
  /\ lease[m] = NoLease
  /\ \A x \in Slots : host[x] # m
  /\ pool' = pool \ {m}
  /\ retiring' = retiring \ {m}
  /\ inst' = IF m \in Rentable THEN [inst EXCEPT ![m] = "none"] ELSE inst
  /\ UNCHANGED <<exists, pinned, queue, lease, capacity, cap, slot, host,
                 writer, threads, work, out, busy>>

\* set_capacity_cap; add_capacity is the same on a missing entry.
SetCap(n) ==
  /\ Command("set_cap")
  /\ n # cap
  /\ capacity' = TRUE
  /\ cap' = n
  /\ UNCHANGED <<exists, pinned, queue, pool, lease, retiring, slot, host,
                 writer, threads, world>>

RemoveCapacity ==
  /\ Command("remove_capacity")
  /\ capacity
  /\ capacity' = FALSE
  /\ cap' = 0
  /\ UNCHANGED <<exists, pinned, queue, pool, lease, retiring, slot, host,
                 writer, threads, world>>

-----------------------------------------------------------------------------
\* The pass (tick), step by step.

\* Mutant: an entry whose tag a crash left leased as well is kept.
StaleIfDeleted(i) == queue[i].tag \notin exists

\* _drop_stale_entries: entries whose task is gone, or whose tag is placed.
Stale(i) == queue[i].tag \notin exists \/ Leased(queue[i].tag)

TickStarts ==
  /\ at = "idle"
  /\ at' = "dropping"
  /\ UNCHANGED <<store, todo, plan, gone, carry, added, threads, world>>

DropStaleEntry(i) ==
  /\ at = "dropping"
  /\ Stale(i)
  /\ queue' = RemoveAt(queue, i)
  /\ UNCHANGED <<exists, pinned, pool, lease, retiring, capacity, cap, slot, host,
                 writer, threads, world>>

StaleDropped ==
  /\ at = "dropping"
  /\ ~\E i \in DOMAIN queue : Stale(i)
  /\ at' = "builds"
  /\ UNCHANGED <<store, todo, plan, gone, carry, added, threads, world>>

\* _advance_builds, for one entry: one with no bundle that an ssh machine could
\* now take starts a build; a build that ended is pinned, or failed; one the
\* build thread does not know (a restart) is submitted again.  `submits` says
\* whether a submission succeeds.
Building(e) ==
  \/ e.bundle = "building"
  \/ e.bundle = "none" /\ SshTargets(e.tag) # {}

AdvancedBundle(e, submits) ==
  IF ~Building(e) THEN e.bundle
  ELSE CASE builds[e.tag] = "none" /\ ~submits -> "failed"
         [] builds[e.tag] = "ok"                -> "ready"
         [] builds[e.tag] = "failed"            -> "failed"
         [] OTHER                               -> "building"

\* Mutant: a build the restart forgot is waited for.
AdvancedBuildForgotten(e, submits) ==
  IF Building(e) /\ builds[e.tag] \in {"ok", "failed"} THEN "none" ELSE builds[e.tag]

AdvancedBuild(e, submits) ==
  IF Building(e) /\ (builds[e.tag] # "none" \/ submits)
    THEN IF builds[e.tag] \in {"ok", "failed"} THEN "none" ELSE "running"
    ELSE builds[e.tag]

AdvanceBuilds ==
  /\ at = "builds"
  /\ \E submits \in IF Fault("build") THEN BOOLEAN ELSE {TRUE} :
       /\ queue' = [i \in DOMAIN queue |->
                      Entry(queue[i].tag, AdvancedBundle(queue[i], submits))]
       /\ builds' = [t \in Tags |->
                       IF t \in Queued
                         THEN AdvancedBuild(queue[CHOOSE i \in DOMAIN queue : queue[i].tag = t],
                                            submits)
                         ELSE builds[t]]
  /\ pinned' = pinned \cup
       {queue[i].tag : i \in
          {j \in DOMAIN queue : Building(queue[j]) /\ builds[queue[j].tag] = "ok"}}
  /\ at' = "rentals"
  /\ UNCHANGED <<exists, pool, lease, retiring, capacity, cap, slot, host,
                 todo, plan, gone, carry, added, drain, left, world>>

\* PoolRentals.reconcile, without a listing: nothing can be decided.
ListingFails ==
  /\ at = "rentals"
  /\ Fault("listing")
  /\ at' = "leases"
  /\ todo' = {m \in pool : lease[m] # NoLease}
  /\ gone' = {}
  /\ UNCHANGED <<store, plan, carry, added, threads, world>>

\* PoolRentals.reconcile, with a listing.  A rental recorded without an
\* instance (a launch cut short) gets one, or leaves the pool when its capacity
\* entry is gone; an unleased one is terminated once retiring or idle for long
\* enough, or dropped once it is gone; a held one is stopped, whatever still runs
\* there, and another one found stopped is started, at most every so often; and the
\* listing shows which leased ones are gone, unless they were launched too recently
\* to tell.  What the provider refuses is left for the next pass.
ReconcileRentals ==
  /\ at = "rentals"
  /\ LET rented   == pool \cap Rentable
         unready  == {m \in rented : inst[m] = "none"}
         dropped  == IF capacity THEN {} ELSE unready
         unleased == {m \in rented \ unready : lease[m] = NoLease}
         leased   == rented \ (unready \cup unleased)
         held     == {m \in leased : lease[m].phase = "held" /\ inst[m] = "up"}
     IN \E idle \in SUBSET unleased,
           launched \in SUBSET (unready \ dropped),
           stopped \in SUBSET held,
           started \in SUBSET {m \in leased : lease[m].phase # "held" /\ inst[m] = "stopped"},
           seen \in SUBSET {m \in leased : inst[m] = "gone"} :
          /\ \A m \in unleased : inst[m] = "gone" => m \in idle
          /\ ~Fault("provider") => /\ launched = unready \ dropped
                                   /\ unleased \cap retiring \subseteq idle
                                   /\ stopped = held
          /\ pool' = pool \ (dropped \cup idle)
          /\ retiring' = retiring \ (dropped \cup idle)
          /\ lease' = [m \in Machines |-> IF m \in dropped THEN NoLease ELSE lease[m]]
          /\ inst' = [m \in Machines |->
                        CASE m \in idle                   -> "none"
                          [] m \in launched \cup started   -> "up"
                          [] m \in stopped                -> "stopped"
                          [] OTHER                        -> inst[m]]
          /\ GoDown({x \in Slots : host[x] \in stopped})
          /\ drain' = [m \in Machines |-> IF m \in dropped THEN "none" ELSE drain[m]]
          /\ left' = [m \in Machines |-> IF m \in dropped THEN {} ELSE left[m]]
          /\ gone' = seen
          /\ todo' = {m \in pool \ dropped : lease[m] # NoLease}
  /\ at' = "leases"
  /\ UNCHANGED <<exists, pinned, queue, capacity, cap, slot, host,
                 plan, carry, added, builds, busy>>

-----------------------------------------------------------------------------
\* _advance_lease, one action per outcome.

Visit(m) ==
  /\ at = "leases"
  /\ m \in todo
  /\ todo' = todo \ {m}
  /\ UNCHANGED <<at, plan, gone, carry, added>>

\* A visited lease whose task is there and whose machine is not gone.
Advance(m, phase) ==
  /\ Visit(m)
  /\ lease[m].phase = phase
  /\ lease[m].tag \in exists
  /\ m \notin gone

\* The tag was deleted under its lease.  Its drain, if any, is never read: the
\* next release of this machine submits its own.
LeaseOrphaned(m) ==
  /\ Visit(m)
  /\ lease[m].tag \notin exists
  /\ lease' = [lease EXCEPT ![m] = NoLease]
  /\ EndDrain(m, "none")
  /\ UNCHANGED <<exists, pinned, queue, pool, retiring, capacity, cap, slot, host,
                 builds, world>>

\* A reserved lease is completed: one a crash left before its slots started.
\* This call of _start_slots runs in no transaction: for the roles that have none
\* yet, each slot is committed paused, and wanted with the commit of the next one.
Completing(m) ==
  /\ \/ at = "leases" /\ m \notin gone
     \/ at = "starting" /\ carry = lease[m]
  /\ m \in todo
  /\ lease[m].phase = "reserved"
  /\ lease[m].tag \in exists

CreateReserved(m, r) ==
  /\ Completing(m)
  /\ slot[lease[m].tag, r] = "none"
  /\ slot' = [x \in Slots |-> IF x = <<lease[m].tag, r>> THEN "paused"
                              ELSE IF x \in added THEN "running" ELSE slot[x]]
  /\ host' = [host EXCEPT ![<<lease[m].tag, r>>] = m]
  /\ at' = "starting"
  /\ carry' = lease[m]
  /\ added' = {<<lease[m].tag, r>>}
  /\ UNCHANGED <<exists, pinned, queue, pool, lease, retiring, capacity, cap,
                 todo, plan, gone, threads, world>>

\* One that cannot be created: the error ends this lease's turn.  That the last slot
\* created is wanted is not committed yet: a restart may find it paused.
ReservationRaises(m, wanted) ==
  /\ Completing(m)
  /\ Fault("slots")
  /\ \E r \in Roles : slot[lease[m].tag, r] = "none"
  /\ slot' = [x \in Slots |-> IF wanted /\ x \in added THEN "running" ELSE slot[x]]
  /\ at' = "leases"
  /\ todo' = todo \ {m}
  /\ carry' = NoLease
  /\ added' = {}
  /\ UNCHANGED <<exists, pinned, queue, pool, lease, retiring, capacity, cap, host,
                 plan, gone, threads, world>>

\* With every slot created, the last one too is saved as wanted.
StartReserved(m) ==
  /\ at = "starting"
  /\ carry = lease[m]
  /\ added # {}
  /\ \A r \in Roles : slot[lease[m].tag, r] # "none"
  /\ slot' = [x \in Slots |-> IF x \in added THEN "running" ELSE slot[x]]
  /\ added' = {}
  /\ UNCHANGED <<exists, pinned, queue, pool, lease, retiring, capacity, cap, host,
                 at, todo, plan, gone, carry, threads, world>>

\* Last, with no slot left to create, the lease runs.
CompleteReservation(m) ==
  /\ Completing(m)
  /\ \A r \in Roles : slot[lease[m].tag, r] # "none"
  /\ added = {}
  /\ lease' = [lease EXCEPT ![m] = InPhase(lease[m], "running")]
  /\ at' = "leases"
  /\ todo' = todo \ {m}
  /\ carry' = NoLease
  /\ UNCHANGED <<exists, pinned, queue, pool, retiring, capacity, cap, slot, host,
                 plan, gone, added, threads, world>>

\* _wanted: some queued tag could run on m once it is released.
Wanted(m) ==
  m \notin retiring /\ \E i \in DOMAIN queue : ~Refused(queue[i], m)

Failed(t) == \E r \in Roles : slot[t, r] = "failed"

\* Mutant: any(w.finished).
SomeFinished(t) == \E r \in Roles : slot[t, r] = "finished"

\* all(w.finished): also true of a tag with no slots left.
Finished(t) == \A r \in Roles : slot[t, r] \in {"none", "finished"}

\* _fail, first commit: every slot is paused.
PauseFailed(m) ==
  /\ at = "leases"
  /\ m \in todo \ gone
  /\ lease[m].phase = "running"
  /\ lease[m].tag \in exists
  /\ Failed(lease[m].tag)
  /\ PauseSlots(lease[m].tag)
  /\ UNCHANGED <<exists, pinned, queue, pool, lease, retiring, capacity, cap, host,
                 writer, threads, world>>

\* _fail, second: the machine is handed over or held.
FailLease(m) ==
  /\ Advance(m, "running")
  /\ Failed(lease[m].tag)
  /\ \A r \in Roles : slot[lease[m].tag, r] # "running"
  /\ IF Wanted(m) THEN StartRelease(m, lease[m])
                  ELSE /\ lease' = [lease EXCEPT ![m] = InPhase(lease[m], "held")]
                       /\ UNCHANGED <<drain, left>>
  /\ UNCHANGED <<exists, pinned, queue, pool, retiring, capacity, cap, slot, host,
                 builds, world>>

\* Every slot of the tag is finished.
CompleteLease(m) ==
  /\ Advance(m, "running")
  /\ ~Failed(lease[m].tag)
  /\ Finished(lease[m].tag)
  /\ StartRelease(m, lease[m])
  /\ UNCHANGED <<exists, pinned, queue, pool, retiring, capacity, cap, slot, host,
                 builds, world>>

\* A held machine that a queued tag can now use.
HandOver(m) ==
  /\ Advance(m, "held")
  /\ Wanted(m)
  /\ StartRelease(m, lease[m])
  /\ UNCHANGED <<exists, pinned, queue, pool, retiring, capacity, cap, slot, host,
                 builds, world>>

\* _finish_release, the drain unknown (a restart) or failed: it is submitted
\* again, at once or on the next pass.
\* Mutant: a drain the restart forgot is waited for.
ResubmitNever(m) ==
  /\ Advance(m, "releasing")
  /\ drain[m] = "none"
  /\ UNCHANGED <<store, threads, world>>

ResubmitDrain(m) ==
  /\ Advance(m, "releasing")
  /\ drain[m] = "none"
  /\ SubmitDrain(m)
  /\ UNCHANGED <<store, builds, world>>

DrainFailed(m) ==
  /\ Advance(m, "releasing")
  /\ drain[m] = "failed"
  /\ EndDrain(m, "none")
  /\ UNCHANGED <<store, builds, world>>

\* Mutant: the requeued tag goes to the tail.
FinishReleaseToTail(m) ==
  /\ Advance(m, "releasing")
  /\ drain[m] = "ok"
  /\ \A r \in Roles : work[lease[m].tag, r] # "alive"
  /\ EndDrain(m, "none")
  /\ DropSlots({lease[m].tag} \X Roles)
  /\ lease' = [lease EXCEPT ![m] = NoLease]
  /\ queue' = IF lease[m].requeue THEN Append(queue, Requeued(lease[m].tag)) ELSE queue
  /\ UNCHANGED <<exists, pinned, pool, retiring, capacity, cap, builds, inst, busy>>

\* Mutant: the requeued tag is not put back.
FinishReleaseForgets(m) ==
  /\ Advance(m, "releasing")
  /\ drain[m] = "ok"
  /\ \A r \in Roles : work[lease[m].tag, r] # "alive"
  /\ EndDrain(m, "none")
  /\ DropSlots({lease[m].tag} \X Roles)
  /\ lease' = [lease EXCEPT ![m] = NoLease]
  /\ queue' = queue
  /\ UNCHANGED <<exists, pinned, pool, retiring, capacity, cap, builds, inst, busy>>

\* Mutant: the drain's end is not waited for.
FinishReleaseEarly(m) ==
  /\ Advance(m, "releasing")
  /\ drain[m] \in {"running", "ok"}
  /\ \A r \in Roles : work[lease[m].tag, r] # "alive"
  /\ EndDrain(m, "none")
  /\ DropSlots({lease[m].tag} \X Roles)
  /\ lease' = [lease EXCEPT ![m] = NoLease]
  /\ queue' = IF lease[m].requeue THEN <<Requeued(lease[m].tag)>> \o queue ELSE queue
  /\ UNCHANGED <<exists, pinned, pool, retiring, capacity, cap, builds, inst, busy>>

\* _finish_release, the drain done: in one transaction the slots go, the lease
\* ends and a requeued tag is back at the head.
FinishRelease(m) ==
  /\ Advance(m, "releasing")
  /\ drain[m] = "ok"
  /\ \A r \in Roles : work[lease[m].tag, r] # "alive"
  /\ EndDrain(m, "none")
  /\ DropSlots({lease[m].tag} \X Roles)
  /\ lease' = [lease EXCEPT ![m] = NoLease]
  /\ queue' = IF lease[m].requeue THEN <<Requeued(lease[m].tag)>> \o queue ELSE queue
  /\ UNCHANGED <<exists, pinned, pool, retiring, capacity, cap, builds, inst, busy>>

\* The same, a removal refused midway: a raising transaction still commits, so
\* the slots removed before it stay removed, and the next pass drains again.
FinishPartway(m, S) ==
  /\ Advance(m, "releasing")
  /\ drain[m] = "ok"
  /\ Fault("removal") \/ \E r \in Roles : work[lease[m].tag, r] = "alive"
  /\ \A x \in S : x[1] = lease[m].tag /\ slot[x] # "none" /\ work[x] # "alive"
  /\ EndDrain(m, "none")
  /\ DropSlots(S)
  /\ UNCHANGED <<exists, pinned, queue, pool, lease, retiring, capacity, cap,
                 builds, inst, busy>>

\* Nothing to do for this lease on this pass.
LeaseWaits(m) ==
  /\ \/ Advance(m, "running") /\ ~Failed(lease[m].tag) /\ ~Finished(lease[m].tag)
     \/ Advance(m, "releasing") /\ drain[m] = "running"
     \/ Advance(m, "held") /\ ~Wanted(m)
  /\ UNCHANGED <<store, threads, world>>

\* _lose_rental, first commits: the tag's slots are removed outright, one by one.
LoseSlot(m, r) ==
  /\ at \in {"leases", "losing"}
  /\ m \in todo \cap gone
  /\ lease[m].tag \in exists
  /\ at = "losing" => carry = lease[m]
  /\ slot[lease[m].tag, r] # "none"
  /\ DropSlots({<<lease[m].tag, r>>})
  /\ at' = "losing"
  /\ carry' = lease[m]
  /\ UNCHANGED <<exists, pinned, queue, pool, lease, retiring, capacity, cap,
                 todo, plan, gone, added, threads, inst, busy>>

\* _lose_rental, next: the machine leaves the pool with its lease.  The pass
\* iterates over that very list, so it skips the machine after this one.
LoseMachine(m) ==
  /\ at \in {"leases", "losing"}
  /\ m \in todo \cap gone
  /\ lease[m].tag \in exists
  /\ at = "losing" => carry = lease[m]
  /\ ~HasSlots(lease[m].tag)
  /\ carry' = lease[m]
  /\ pool' = pool \ {m}
  /\ retiring' = retiring \ {m}
  /\ lease' = [lease EXCEPT ![m] = NoLease]
  /\ EndDrain(m, "none")
  /\ at' = "lost"
  /\ \E skipped \in SUBSET (todo \ {m}) :
       /\ Cardinality(skipped) <= 1
       /\ todo' = todo \ ({m} \cup skipped)
  /\ UNCHANGED <<exists, pinned, queue, capacity, cap, slot, host,
                 plan, gone, added, builds, world>>

\* _lose_rental, last: a tag that still wanted to run is back at the head.
WantsToRun(l) == l.requeue \/ l.phase \in {"reserved", "running"}

LoseLease ==
  /\ at = "lost"
  /\ queue' = IF WantsToRun(carry) THEN <<Requeued(carry.tag)>> \o queue ELSE queue
  /\ at' = "leases"
  /\ carry' = NoLease
  /\ UNCHANGED <<exists, pinned, pool, lease, retiring, capacity, cap, slot, host,
                 todo, plan, gone, added, threads, world>>

-----------------------------------------------------------------------------
\* _place.  The matching is computed once, from the free machines; then each
\* match is placed in a transaction of its own, in queue order.

\* Mutant: a leased machine counts as free.
FreeThoughLeased(m) == m \in pool /\ m \notin retiring /\ m \notin busy

Free(m) == m \in pool /\ lease[m] = NoLease /\ m \notin retiring /\ m \notin busy

Eligible ==
  {p \in Tags \X Machines :
     /\ Free(p[2])
     /\ \E i \in DOMAIN queue : queue[i].tag = p[1] /\ ~Refused(queue[i], p[2])}

QueueOrder == [i \in DOMAIN queue |-> queue[i].tag]

LeasesAdvanced ==
  /\ at = "leases"
  /\ todo = {}
  /\ plan' \in Matchings(QueueOrder, Eligible)
  /\ at' = "placing"
  /\ UNCHANGED <<store, todo, gone, carry, added, threads, world>>

\* The first queued tag that the plan places.
NextPlaced(i) ==
  /\ queue[i].tag \in Matched(plan)
  /\ \A j \in DOMAIN queue : j < i => queue[j].tag \notin Matched(plan)

\* Mutant: the entry stays in the queue.
PlaceKeepsEntry(i, m) ==
  /\ at = "placing"
  /\ <<queue[i].tag, m>> \in plan
  /\ NextPlaced(i)
  /\ lease' = [lease EXCEPT ![m] = Lease(queue[i].tag, "running", FALSE)]
  /\ StartSlots(queue[i].tag, m)
  /\ plan' = plan \ {<<queue[i].tag, m>>}
  /\ UNCHANGED <<exists, pinned, queue, pool, retiring, capacity, cap,
                 at, todo, gone, carry, added, threads, world>>

\* One match: the lease, the entry's removal and the slots commit together.
Place(i, m) ==
  /\ at = "placing"
  /\ <<queue[i].tag, m>> \in plan
  /\ NextPlaced(i)
  /\ lease' = [lease EXCEPT ![m] = Lease(queue[i].tag, "running", FALSE)]
  /\ queue' = RemoveAt(queue, i)
  /\ StartSlots(queue[i].tag, m)
  /\ plan' = plan \ {<<queue[i].tag, m>>}
  /\ UNCHANGED <<exists, pinned, pool, retiring, capacity, cap,
                 at, todo, gone, carry, added, threads, world>>

\* One match whose slots could not all be created: what the transaction did
\* before the error, slots S included, is committed, and the error ends the pass.
PlaceRaises(i, m, S) ==
  /\ at = "placing"
  /\ Fault("slots")
  /\ <<queue[i].tag, m>> \in plan
  /\ NextPlaced(i)
  /\ lease' = [lease EXCEPT ![m] = Lease(queue[i].tag, "reserved", FALSE)]
  /\ queue' = RemoveAt(queue, i)
  /\ S \subseteq {x \in Slots : x[1] = queue[i].tag /\ slot[x] = "none"}
  /\ slot' = [x \in Slots |-> IF x \in S THEN "running" ELSE slot[x]]
  /\ host' = [x \in Slots |-> IF x \in S THEN m ELSE host[x]]
  /\ at' = "idle"
  /\ plan' = {}
  /\ UNCHANGED <<exists, pinned, pool, retiring, capacity, cap,
                 todo, gone, carry, added, threads, world>>

Placed ==
  /\ at = "placing"
  /\ plan = {}
  /\ at' = "renting"
  /\ UNCHANGED <<store, todo, plan, gone, carry, added, threads, world>>

\* _rent_for.  A rental under the capacity entry, for queue entry i.
InUse == Cardinality(pool \cap Rentable)

CanRent(i, m) ==
  /\ capacity
  /\ InUse < cap
  /\ m \in Rentable \ pool
  /\ ~Refused(queue[i], m)

\* PoolRentals.rent, first commit: the machine is recorded with a reserved
\* lease; its tag is still queued.
RecordRental(i, m) ==
  /\ at = "renting"
  /\ CanRent(i, m)
  /\ \A j \in DOMAIN queue : j < i => ~\E k \in Machines : CanRent(j, k)
  /\ pool' = pool \cup {m}
  /\ lease' = [lease EXCEPT ![m] = Lease(queue[i].tag, "reserved", FALSE)]
  /\ inst' = [inst EXCEPT ![m] = "none"]
  /\ at' = "launching"
  /\ todo' = {m}
  /\ UNCHANGED <<exists, pinned, queue, retiring, capacity, cap, slot, host,
                 plan, gone, carry, added, threads, work, out, busy>>

\* The launch: the provider starts an instance.
Launch(m) ==
  /\ at = "launching"
  /\ m \in todo
  /\ inst' = [inst EXCEPT ![m] = "up"]
  /\ at' = "launched"
  /\ UNCHANGED <<store, todo, plan, gone, carry, added, threads, work, out, busy>>

\* Or it refuses: the record goes, and the entry is not asked for again until
\* RENT_RETRY_SECONDS have passed, so this pass rents no more.
LaunchRefused(m) ==
  /\ at = "launching"
  /\ m \in todo
  /\ Fault("provider")
  /\ pool' = pool \ {m}
  /\ lease' = [lease EXCEPT ![m] = NoLease]
  /\ at' = "idle"
  /\ todo' = {}
  /\ UNCHANGED <<exists, pinned, queue, retiring, capacity, cap, slot, host,
                 plan, gone, carry, added, threads, world>>

\* The rental's slots start and its tag leaves the queue.
StartRental(i, m) ==
  /\ at = "launched"
  /\ m \in todo
  /\ LeasedOn(m, queue[i].tag)
  /\ queue' = RemoveAt(queue, i)
  /\ StartSlots(queue[i].tag, m)
  /\ lease' = [lease EXCEPT ![m] = InPhase(lease[m], "running")]
  /\ at' = "renting"
  /\ todo' = {}
  /\ UNCHANGED <<exists, pinned, pool, retiring, capacity, cap,
                 plan, gone, carry, added, threads, world>>

\* The same, its slots not all created: as for a match, what was done is committed,
\* and the error ends the pass.  The lease stays reserved.
RentalRaises(i, m, S) ==
  /\ at = "launched"
  /\ Fault("slots")
  /\ m \in todo
  /\ LeasedOn(m, queue[i].tag)
  /\ queue' = RemoveAt(queue, i)
  /\ S \subseteq {x \in Slots : x[1] = queue[i].tag /\ slot[x] = "none"}
  /\ slot' = [x \in Slots |-> IF x \in S THEN "running" ELSE slot[x]]
  /\ host' = [x \in Slots |-> IF x \in S THEN m ELSE host[x]]
  /\ at' = "idle"
  /\ todo' = {}
  /\ UNCHANGED <<exists, pinned, pool, lease, retiring, capacity, cap,
                 plan, gone, carry, added, threads, world>>

TickEnds ==
  /\ at = "renting"
  /\ ~\E i \in DOMAIN queue, m \in Machines : CanRent(i, m)
  /\ at' = "idle"
  /\ gone' = {}
  /\ UNCHANGED <<store, todo, plan, carry, added, threads, world>>

-----------------------------------------------------------------------------
\* The drain and build threads.

\* _drain, one slot: it must be down; a container's output is swept.
DrainSlot(m, r) ==
  LET x == <<lease[m].tag, r>>
  IN /\ drain[m] = "running"
     /\ Reachable(m)
     /\ r \in left[m]
     /\ work[x] # "alive"
     /\ left' = [left EXCEPT ![m] = @ \ {r}]
     /\ out' = out \ {x}
     /\ UNCHANGED <<store, writer, builds, drain, work, inst, busy>>

\* _drain raises: a slot is alive, or its machine cannot be reached.
DrainRaises(m) ==
  /\ drain[m] = "running"
  /\ \E r \in left[m] :
       \/ work[lease[m].tag, r] = "alive"
       \/ m \in Ssh /\ (Fault("drain") \/ ~Reachable(m))
  /\ EndDrain(m, "failed")
  /\ UNCHANGED <<store, writer, builds, world>>

DrainDone(m) ==
  /\ drain[m] = "running"
  /\ left[m] = {}
  /\ EndDrain(m, "ok")
  /\ UNCHANGED <<store, writer, builds, world>>

BuildEnds(t) ==
  /\ builds[t] = "running"
  /\ \E result \in {"ok"} \cup IF Fault("build") THEN {"failed"} ELSE {} :
       builds' = [builds EXCEPT ![t] = result]
  /\ UNCHANGED <<store, writer, drain, left, world>>

-----------------------------------------------------------------------------
\* The workers, and the worker manager's steps between the passes' ticks.

\* A worker exits.  What it flushed on the way down is in its container, or
\* was delivered in place by a local one.
WorkerExits(t, r) ==
  /\ work[t, r] = "alive"
  /\ \E exit \in (Exits \cap Faults) \cup {"done"} :
       work' = [work EXCEPT ![<<t, r>>] = exit]
  /\ \/ out' = out
     \/ host[t, r] \in Ssh /\ out' = out \cup {<<t, r>>}
  /\ UNCHANGED <<store, writer, threads, inst, busy>>

\* reconcile stops the worker of a slot that is not wanted.
StopWorker(t, r) ==
  /\ at = "idle"
  /\ work[t, r] = "alive"
  /\ slot[t, r] \in {"paused", "finished", "failed"}
  /\ work' = [work EXCEPT ![<<t, r>>] = "term"]
  /\ \/ out' = out
     \/ host[t, r] \in Ssh /\ out' = out \cup {<<t, r>>}
  /\ UNCHANGED <<store, writer, threads, inst, busy>>

\* Mutant: a slot that is down is started whether it is wanted or not.
StartWorkerUnwanted(t, r) ==
  /\ at = "idle"
  /\ slot[t, r] # "none"
  /\ Reachable(host[t, r])
  /\ work[t, r] \in {"none", "crash", "term"}
  /\ work' = [work EXCEPT ![<<t, r>>] = "alive"]
  /\ UNCHANGED <<store, writer, threads, out, inst, busy>>

\* reconcile starts the worker of a wanted slot: anew, after a crash, or after
\* an exit 0 whose final sweep failed or whose code a restart lost.
StartWorker(t, r) ==
  /\ at = "idle"
  /\ slot[t, r] = "running"
  /\ Reachable(host[t, r])
  /\ \/ work[t, r] \in {"none", "crash", "term"}
     \/ work[t, r] = "done" /\ Fault("exit")
  /\ work' = [work EXCEPT ![<<t, r>>] = "alive"]
  /\ UNCHANGED <<store, writer, threads, out, inst, busy>>

\* The pass sees an exit 0: the slot is finished, a trainer's container swept.
NoteFinished(t, r) ==
  /\ at = "idle"
  /\ slot[t, r] = "running"
  /\ work[t, r] = "done"
  /\ slot' = [slot EXCEPT ![<<t, r>>] = "finished"]
  /\ out' = IF r \in Trainers THEN out \ {<<t, r>>} ELSE out
  /\ UNCHANGED <<exists, pinned, queue, pool, lease, retiring, capacity, cap, host,
                 writer, threads, work, inst, busy>>

\* The pass sees a fatal exit, or the crash that is one too many.
NoteFailed(t, r) ==
  /\ at = "idle"
  /\ slot[t, r] = "running"
  /\ work[t, r] \in {"fatal", "crash"}
  /\ slot' = [slot EXCEPT ![<<t, r>>] = "failed"]
  /\ UNCHANGED <<exists, pinned, queue, pool, lease, retiring, capacity, cap, host,
                 writer, threads, world>>

-----------------------------------------------------------------------------
\* The world: the provider, the operator's hand-run slots, crashes.

\* A rental's instance goes, with its disk and every container on it.
InstanceLost(m) ==
  /\ Fault("instance")
  /\ inst[m] \in {"up", "stopped"}
  /\ inst' = [inst EXCEPT ![m] = "gone"]
  /\ work' = [x \in Slots |-> IF host[x] = m THEN "none" ELSE work[x]]
  /\ out' = {x \in out : host[x] # m}
  /\ UNCHANGED <<store, writer, threads, busy>>

\* occupants(m): slots run by hand there come and go.
HandRun(m) ==
  /\ Fault("hand")
  /\ busy' = IF m \in busy THEN busy \ {m} ELSE busy \cup {m}
  /\ UNCHANGED <<store, writer, threads, work, out, inst>>

\* The dashboard stops, between two commits, and starts again from the store.
Crash ==
  /\ Fault("dashboard")
  /\ at' = "idle"
  /\ todo' = {}
  /\ plan' = {}
  /\ gone' = {}
  /\ carry' = NoLease
  /\ added' = {}
  /\ builds' = [t \in Tags |-> "none"]
  /\ drain' = [m \in Machines |-> "none"]
  /\ left' = [m \in Machines |-> {}]
  /\ UNCHANGED <<store, world>>

-----------------------------------------------------------------------------

\* A pool of owned machines, its tags created, nothing queued.
Init ==
  /\ exists = Tags
  /\ pinned = {}
  /\ queue = <<>>
  /\ pool = Machines \ Rentable
  /\ lease = [m \in Machines |-> NoLease]
  /\ retiring = {}
  /\ capacity = TRUE
  /\ cap = MaxCap
  /\ slot = [x \in Slots |-> "none"]
  /\ host = [x \in Slots |-> NoMachine]
  /\ builds = [t \in Tags |-> "none"]
  /\ drain = [m \in Machines |-> "none"]
  /\ left = [m \in Machines |-> {}]
  /\ at = "idle"
  /\ todo = {}
  /\ plan = {}
  /\ gone = {}
  /\ carry = NoLease
  /\ added = {}
  /\ work = [x \in Slots |-> "none"]
  /\ out = {}
  /\ inst = [m \in Machines |-> "none"]
  /\ busy = {}

Commands ==
  \/ \E t \in Tags : CreateTask(t) \/ Enqueue(t) \/ DeleteTask(t)
  \/ \E t \in Tags, S \in SUBSET Slots : DeletePartway(t, S)
  \/ \E i \in DOMAIN queue : Dequeue(i) \/ Move(i)
  \/ \E m \in Machines : Release(m) \/ Requeue(m) \/ AddMachine(m) \/ RemoveMachine(m)
  \/ \E t \in Tags, r \in Roles : StartSlot(t, r) \/ PauseSlot(t, r) \/ RemoveSlot(t, r)
  \/ StopCloud \/ RemoveCapacity
  \/ \E n \in 0 .. MaxCap : SetCap(n)

StopStep == StopEnds \/ \E m \in Machines : StopRental(m)

AdvanceLease(m) ==
  \/ LeaseOrphaned(m) \/ CompleteReservation(m)
  \/ PauseFailed(m) \/ FailLease(m) \/ CompleteLease(m) \/ HandOver(m)
  \/ ResubmitDrain(m) \/ DrainFailed(m) \/ FinishRelease(m)
  \/ \E S \in SUBSET Slots : FinishPartway(m, S)
  \/ LeaseWaits(m) \/ StartReserved(m) \/ LoseMachine(m)
  \/ \E wanted \in BOOLEAN : ReservationRaises(m, wanted)
  \/ \E r \in Roles : CreateReserved(m, r) \/ LoseSlot(m, r)

Tick ==
  \/ TickStarts \/ StaleDropped \/ AdvanceBuilds \/ ListingFails \/ ReconcileRentals
  \/ \E i \in DOMAIN queue : DropStaleEntry(i)
  \/ \E m \in Machines : AdvanceLease(m)
  \/ LoseLease \/ LeasesAdvanced \/ Placed \/ TickEnds
  \/ \E i \in DOMAIN queue, m \in Machines :
       Place(i, m) \/ RecordRental(i, m) \/ StartRental(i, m)
  \/ \E i \in DOMAIN queue, m \in Machines, S \in SUBSET Slots :
       PlaceRaises(i, m, S) \/ RentalRaises(i, m, S)
  \/ \E m \in Machines : Launch(m) \/ LaunchRefused(m)

Threads ==
  \/ \E m \in Machines : DrainRaises(m) \/ DrainDone(m)
  \/ \E m \in Machines, r \in Roles : DrainSlot(m, r)
  \/ \E t \in Tags : BuildEnds(t)

Workers ==
  \E t \in Tags, r \in Roles :
    \/ WorkerExits(t, r) \/ StopWorker(t, r) \/ StartWorker(t, r)
    \/ NoteFinished(t, r) \/ NoteFailed(t, r)

World == Crash \/ \E m \in Machines : InstanceLost(m) \/ HandRun(m)

Next == Commands \/ StopStep \/ Tick \/ Threads \/ Workers \/ World

Spec == Init /\ [][Next]_vars
=============================================================================
