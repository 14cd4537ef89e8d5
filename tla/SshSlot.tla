------------------------------- MODULE SshSlot -------------------------------
(***************************************************************************)
(* One ssh slot of a task: the container its worker runs in, the record    *)
(* the dashboard keeps of it, what the dashboard remembers of it, and the  *)
(* three that act on it (dashboard/workers.py): reconcile passes, the      *)
(* operator's commands, and the slot's transfer thread, which moves        *)
(* finished output home (cloud/ssh_transfer.py).                           *)
(*                                                                         *)
(* A pass looks at the container, collects, then enforces; commands and    *)
(* other passes run between those steps, which all share one thread.  A    *)
(* step of several remote commands may fail after any of them.             *)
(***************************************************************************)
EXTENDS Integers, FiniteSets

CONSTANTS
  Roles,        \* the roles the slot may have, of "generator" and "trainer"
  Passes,       \* reconcile passes that may overlap: "timer", and "boot"
  Operator,     \* the commands the operator gives
  MaxOutput,    \* files the worker finishes
  MaxDeploys,   \* bundles the task is pinned to, one after the other
  MaxCommands,  \* commands given
  MaxFaults,    \* failures of the link, the machine and the dashboard
  FailAfter,    \* FAIL_AFTER
  Batch         \* files moved per pull

ASSUME SlotAssumption ==
  /\ Roles \subseteq {"generator", "trainer"}
  /\ {MaxOutput, MaxCommands, MaxFaults} \subseteq Nat
  /\ {MaxDeploys, FailAfter, Batch} \subseteq Nat \ {0}

VARIABLES
  role,      \* the slot's role
  box,       \* the container: state, bundle, fit, exit code, finished output held
  link,      \* "up", "down", or "back": up again, but not yet looked at (_ssh_down)
  made,      \* files finished so far
  ended,     \* whether the worker's terminal condition is reached
  home,      \* the files here
  dropped,   \* the files a Remove discarded
  slot,      \* the slot's record, as the writer holds it
  disk,      \* the same, as last saved
  bundle,    \* the task's pinned bundle
  gated,     \* whether the scheduler gates the slot's role
  probe,     \* the remembered observation (_probes), "unknown" once it is as old as
             \* OBSERVATION_TTL_SECONDS or a command made it so (_expire_probe)
  why,       \* the remembered exit reason (_exits)
  crashes,   \* the remembered crashes (_crashes)
  watched,   \* whether this dashboard has seen the task (_counted_from)
  pull,      \* the slot's collection (_collecting)
  pass,      \* per pass, where it is and the observation it carries
  commands,  \* commands so far
  faults     \* failures so far

outside == <<role, link, made, ended, dropped, bundle, gated, commands>>
memory == <<why, crashes, watched>>
vars == <<outside, box, home, slot, disk, probe, memory, pull, pass, faults>>

Unknown == -1
Files == 1 .. MaxOutput

NoBox == [state |-> "missing", bundle |-> 0, fit |-> FALSE, exit |-> "none", held |-> {}]

\* add_ssh's record.
NewSlot == [desired |-> "paused", finished |-> FALSE, failed |-> FALSE, launched |-> FALSE,
            bundle |-> 0, undelivered |-> Unknown]
NoSlot == [NewSlot EXCEPT !.desired = "none"]

NoPull == [at |-> "none", batch |-> {}, total |-> 0, left |-> Unknown]
Idle == [at |-> "idle", seen |-> "unknown"]

\* run: the periodic callback awaits its own pass, not the one added at boot,
\* which runs once.
Over(p) == [Idle EXCEPT !.at = IF p = "boot" THEN "over" ELSE "idle"]

-----------------------------------------------------------------------------
\* The record.

Intent(s) == IF s.desired # "running" THEN "stop" ELSE IF gated THEN "park" ELSE "run"

\* _replaceable: on another bundle and known to hold nothing.
Replaceable(s) == s.bundle # bundle /\ s.undelivered = 0

\* _forget_empty
ForgetEmpty(s) == IF s.undelivered = 0 THEN [s EXCEPT !.undelivered = Unknown] ELSE s

NoteFinished(s) ==
  IF s.desired = "running" THEN [s EXCEPT !.desired = "paused", !.finished = TRUE] ELSE s

NoteFailed(s) ==
  IF s.desired = "running" THEN [s EXCEPT !.desired = "paused", !.failed = TRUE] ELSE s

\* _is_ssh_crash: not exit 0 nor a SIGTERM; an unreadable reason counts.
IsCrash(code) == code \notin {"zero", "term"}

\* Mutant: a trainer's exit is noted at once.
NeedsNoSweep(s) == FALSE

\* _final_flush_collected sweeps a running trainer first.
NeedsSweep(s) == role = "trainer" /\ s.desired = "running"

-----------------------------------------------------------------------------
\* Observation.

\* classify_probe: a container created and never started is "stopped", and its
\* exit code is 0.
Seen ==
  IF link # "up" THEN "unreachable"
  ELSE IF box.state = "created" THEN "stopped" ELSE box.state

\* What an observation may read: the exit reason may be unreadable, and the sweep
\* of an exited trainer may fail.
Reading == [probe : {Seen}, code : {box.exit, "unread"}, swept : BOOLEAN]
Failures(r) == Cardinality({f \in {"code", "sweep"} :
                              \/ f = "code" /\ r.code # box.exit
                              \/ f = "sweep" /\ ~r.swept})
Readings(s) ==
  {r \in Reading : /\ r.probe # "stopped" => Failures(r) = 0
                   /\ ~r.swept => NeedsSweep(s) /\ r.code = "zero"
                   /\ faults + Failures(r) <= MaxFaults}

\* _observe_container's changes to the record.
Observed(s, r) ==
  LET known == IF r.probe \in {"unreachable", "missing"} THEN s ELSE [s EXCEPT !.launched = TRUE]
  IN CASE r.probe = "stopped" /\ r.code = "zero" /\ r.swept -> NoteFinished(known)
       [] r.probe = "stopped" /\ r.code = "fatal" -> NoteFailed(known)
       [] r.probe = "unreachable" -> ForgetEmpty(known)
       [] OTHER -> known

\* _observe_container: what reading r leaves behind.
Look(s, r) ==
  [slot |-> Observed(s, r),
   probe |-> r.probe,
   why |-> CASE r.probe = "stopped" -> r.code
             [] r.probe \in {"running", "paused"} -> "none"
             [] OTHER -> why,
   home |-> IF r.probe = "stopped" /\ r.code = "zero" /\ r.swept /\ NeedsSweep(s)
            THEN home \cup box.held ELSE home,
   cost |-> Failures(r)]

\* _refresh_probe: the remembered observation, or a new one.
Looks(s) ==
  IF probe # "unknown" THEN {[slot |-> s, probe |-> probe, why |-> why, home |-> home, cost |-> 0]}
  ELSE {Look(s, r) : r \in Readings(s)}

\* _probe_container: with no container known to exist, unreachable is missing.
Probe(o) == IF ~o.slot.launched /\ o.probe = "unreachable" THEN "missing" ELSE o.probe

-----------------------------------------------------------------------------
\* The worker, in its container.

Worker(b) ==
  /\ box' = b
  /\ UNCHANGED <<role, link, dropped, bundle, gated, home, slot, disk, probe, memory, pull,
                 pass, commands>>

\* LocalSink.deliver: a finished file appears in the container whole.
Produce ==
  /\ box.state = "running" /\ box.fit /\ ~ended /\ made < MaxOutput
  /\ made' = made + 1
  /\ Worker([box EXCEPT !.held = @ \cup {made + 1}])
  /\ UNCHANGED <<ended, faults>>

\* The worker reaches its terminal condition and exits 0; a trainer delivers its
\* last generation on the way down.  Started again, a trainer exits at once.
Finishes ==
  /\ box.state = "running" /\ box.fit
  /\ \E last \in {0, 1} :
       /\ last = 1 => role = "trainer" /\ ~ended /\ made < MaxOutput
       /\ made' = made + last
       /\ Worker([box EXCEPT !.state = "stopped", !.exit = "zero",
                             !.held = @ \cup (made + 1 .. made + last)])
  /\ ended' = (role = "trainer")
  /\ UNCHANGED faults

\* It crashes, or finds its state unusable (EXIT_FATAL); without its payload it
\* has nothing to run.
Fails ==
  /\ box.state = "running"
  /\ \E code \in {"crash", "fatal"} :
       /\ box.fit \/ code = "crash"
       /\ faults' = faults + (IF box.fit THEN 1 ELSE 0)
       /\ faults' <= MaxFaults
       /\ Worker([box EXCEPT !.state = "stopped", !.exit = code])
  /\ UNCHANGED <<made, ended>>

\* docker stop: SIGTERM, on which the worker may still flush a finished file.
Stopped(b, flushed) ==
  [b EXCEPT !.state = "stopped", !.exit = "term", !.held = @ \cup flushed]

Flush == IF box.fit /\ ~ended /\ made < MaxOutput THEN {{}, {made + 1}} ELSE {{}}

-----------------------------------------------------------------------------
\* The transfer thread: pull_results.

Pulls ==
  UNCHANGED <<outside, slot, disk, probe, memory, pass>>

\* A container is reached only while it runs; a paused one takes no command.
Reached == link # "down" /\ box.state = "running"

\* list_command: a prefix of the files held, in the order they were finished.
BatchOf(held) == {f \in held : Cardinality({g \in held : g <= f}) <= Batch}

PullLists ==
  /\ pull.at = "list" /\ Reached
  /\ pull' = [pull EXCEPT !.at = "copy", !.batch = BatchOf(box.held),
                          !.total = Cardinality(box.held)]
  /\ Pulls /\ UNCHANGED <<box, home, faults>>

\* Mutant: the deletes do not wait for the copy.
PullCopiesDeleting ==
  /\ pull.at = "copy" /\ Reached
  /\ \E copied \in SUBSET (pull.batch \cap box.held) : home' = home \cup copied
  /\ pull' = [pull EXCEPT !.at = "delete", !.batch = @ \cap box.held]
  /\ Pulls /\ UNCHANGED <<box, faults>>

\* _extract: each file listed and still there appears here whole.
PullCopies ==
  /\ pull.at = "copy" /\ Reached
  /\ home' = home \cup (pull.batch \cap box.held)
  /\ pull' = [pull EXCEPT !.at = "delete", !.batch = @ \cap box.held]
  /\ Pulls /\ UNCHANGED <<box, faults>>

\* What was copied is deleted there, and the rest counted.
PullDeletes ==
  /\ pull.at = "delete" /\ Reached
  /\ box' = [box EXCEPT !.held = @ \ pull.batch]
  /\ pull' = [NoPull EXCEPT !.at = "done", !.left = pull.total - Cardinality(pull.batch)]
  /\ Pulls /\ UNCHANGED <<home, faults>>

\* The machine is not reached, or a command times out: it may have been carried
\* out.  Either way the pull gives no count (_pull_ssh, _record_pull).
PullFails ==
  /\ pull.at \in {"list", "copy", "delete"}
  /\ IF Reached THEN faults < MaxFaults /\ faults' = faults + 1 ELSE UNCHANGED faults
  /\ \/ UNCHANGED box
     \/ Reached /\ pull.at = "delete" /\ box' = [box EXCEPT !.held = @ \ pull.batch]
  /\ pull' = [NoPull EXCEPT !.at = "done"]
  /\ Pulls /\ UNCHANGED home

Pulling == pull.at \in {"list", "copy", "delete"}

-----------------------------------------------------------------------------
\* Commands on the container.

\* A command reaches the container only in the states docker takes it in.
Command(from, b) ==
  box' = IF link # "down" /\ box.state \in from THEN b ELSE box

\* _sweep_ssh: everything a stopped container holds is copied here.
Sweep == home \cup box.held

\* What a container lacks that was not pushed all its inputs, its seed included: a
\* trainer cannot do without, a generator's role may have none.
Lacking == IF role = "trainer" THEN {FALSE} ELSE BOOLEAN

\* _run_ssh_container, up to the remote command that fails: pulling the image,
\* copying the payload, starting, pushing inputs and seed.  When the payload's
\* copy fails the container is removed, unless the link is gone.  A name in use
\* refuses the creation.
RunEnds == {"ok", "refused", "bare", "created", "started"}
Run(b, end) ==
  LET new == [state |-> "running", bundle |-> bundle, fit |-> TRUE, exit |-> "none", held |-> {}]
      free == link # "down" /\ b.state = "missing"
  IN /\ end # "refused" => free
     /\ faults' = IF free /\ end # "ok" THEN faults + 1 ELSE faults
     /\ faults' <= MaxFaults
     /\ \E fit \in Lacking :
          box' = CASE end = "ok" -> new
                   [] end = "refused" -> b
                   [] end = "bare" -> [new EXCEPT !.state = "created", !.fit = FALSE, !.exit = "zero"]
                   [] end = "created" -> [new EXCEPT !.state = "created", !.exit = "zero", !.fit = fit]
                   [] end = "started" -> [new EXCEPT !.fit = fit]
     /\ why' = IF end = "ok" THEN "none" ELSE "error"

\* The record after it: the bundle is noted first, the rest at the end.
Ran(s, end) ==
  IF end = "ok" THEN [s EXCEPT !.bundle = bundle, !.launched = TRUE, !.undelivered = 0]
  ELSE [s EXCEPT !.bundle = bundle]

-----------------------------------------------------------------------------
\* A reconcile pass.

\* The pass's task list, and _forget_stale_counts: a zero from before this
\* dashboard watched says nothing.
Begin(p) ==
  /\ pass[p].at = "idle" /\ slot # NoSlot
  /\ watched' = TRUE
  /\ slot' = IF watched THEN slot ELSE ForgetEmpty(slot)
  /\ disk' = slot'
  /\ pass' = [pass EXCEPT ![p].at = "look"]
  /\ UNCHANGED <<outside, box, home, probe, why, crashes, pull, faults>>

\* worker_status(observe=True)
Observe(p) ==
  /\ pass[p].at = "look" /\ slot # NoSlot
  /\ \E o \in Looks(slot) :
       /\ slot' = o.slot
       /\ probe' = o.probe
       /\ why' = o.why
       /\ home' = o.home
       /\ faults' = faults + o.cost
       /\ pass' = [pass EXCEPT ![p] = [at |-> IF Probe(o) = "running" THEN "collect" ELSE "enforce",
                                       seen |-> Probe(o)]]
  /\ disk' = slot'
  /\ UNCHANGED <<outside, box, crashes, watched, pull>>

\* _record_pull
RecordPull(s) == IF pull.at = "done" THEN [s EXCEPT !.undelivered = pull.left] ELSE s

\* _collect_step: record the last pull, and start the next unless the slot is
\* about to be parked or replaced.
Collect(p) ==
  /\ pass[p].at = "collect" /\ slot # NoSlot
  /\ IF Pulling THEN UNCHANGED <<slot, disk, pull>>
     ELSE /\ slot' = RecordPull(slot)
          /\ disk' = IF pull.at = "done" THEN slot' ELSE disk
          /\ pull' = IF Intent(slot) = "park" \/ Replaceable(slot') THEN NoPull
                     ELSE [NoPull EXCEPT !.at = "list"]
  /\ pass' = [pass EXCEPT ![p].at = "enforce"]
  /\ UNCHANGED <<outside, box, home, probe, memory, faults>>

\* _reconcile_worker's step on the container pass p saw in state `seen`.
Enforces(p, intent, seen) ==
  /\ pass[p].at = "enforce" /\ slot # NoSlot
  /\ Intent(slot) = intent /\ pass[p].seen = seen
  /\ pass' = [pass EXCEPT ![p] = Over(p)]
  /\ UNCHANGED <<role, link, ended, dropped, bundle, gated, watched, pull, commands>>

\* Mutant: a command leaves the remembered observation as it is.
NotExpired == UNCHANGED probe

\* _expire_probe
Expired == probe' = "unknown"

Unpause(p) ==
  /\ Enforces(p, "run", "paused")
  /\ Expired
  /\ Command({"paused"}, [box EXCEPT !.state = "running"])
  /\ UNCHANGED <<made, home, slot, disk, why, crashes, faults>>

Stop(b, flushed) == Command({"running"}, Stopped(b, flushed)) /\ made' =
  IF link # "down" /\ box.state = "running" THEN made + Cardinality(flushed) ELSE made

\* A container on an old bundle that holds nothing is stopped, for the next pass
\* to replace.
StopForBundle(p) ==
  /\ Enforces(p, "run", "running")
  /\ Replaceable(slot) /\ ~Pulling
  /\ Expired
  /\ \E flushed \in Flush : Stop(box, flushed)
  /\ UNCHANGED <<home, slot, disk, why, crashes, faults>>

\* _note_crash: the FailAfter-th crash fails the slot.
NotesCrash(p) == pass[p].seen = "stopped" /\ IsCrash(why)

GivesUp(p) ==
  /\ Enforces(p, "run", "stopped")
  /\ IsCrash(why) /\ crashes + 1 >= FailAfter
  /\ crashes' = FailAfter
  /\ slot' = NoteFailed(slot)
  /\ disk' = slot'
  /\ UNCHANGED <<made, box, home, probe, why, faults>>

Counted(p) ==
  /\ ~(NotesCrash(p) /\ crashes + 1 >= FailAfter)
  /\ crashes' = IF NotesCrash(p) THEN crashes + 1 ELSE crashes

\* _start_or_replace: start again a container that is not replaceable.
Restart(p) ==
  /\ Enforces(p, "run", "stopped")
  /\ ~Replaceable(slot)
  /\ Counted(p) /\ Expired
  /\ Command({"created", "stopped"}, [box EXCEPT !.state = "running"])
  /\ UNCHANGED <<made, home, slot, disk, why, faults>>

\* A replaceable one is swept and removed first; a failure of either, and docker
\* refusing to remove a running container, end the step.
Replace(p) ==
  /\ Enforces(p, "run", "stopped")
  /\ Replaceable(slot)
  /\ Counted(p) /\ Expired
  /\ \/ /\ box.state \in {"created", "stopped"} /\ link # "down"
        /\ home' = Sweep
        /\ \E end \in RunEnds :
             /\ Run(NoBox, end)
             /\ slot' = Ran(slot, end)
             /\ disk' = IF end = "ok" THEN slot' ELSE disk
     \/ /\ faults' = IF link # "down" /\ box.state \in {"created", "stopped"}
                      THEN faults + 1 ELSE faults
        /\ faults' <= MaxFaults
        /\ home' \in {home, IF link # "down" THEN Sweep ELSE home}
        /\ UNCHANGED <<box, slot, disk, why>>
  /\ UNCHANGED made

Create(p) ==
  /\ Enforces(p, "run", "missing")
  /\ Counted(p) /\ Expired
  /\ \E end \in RunEnds :
       /\ Run(box, end)
       /\ slot' = Ran(slot, end)
       /\ disk' = IF end = "ok" THEN slot' ELSE disk
  /\ UNCHANGED <<made, home>>

\* A gated slot's container is frozen, once no pull is in flight.
Park(p) ==
  /\ Enforces(p, "park", "running")
  /\ ~Pulling
  /\ Expired
  /\ Command({"running"}, [box EXCEPT !.state = "paused"])
  /\ UNCHANGED <<made, home, slot, disk, why, crashes, faults>>

\* Mutant: it is not unpaused first.
StopFrozen(p) ==
  /\ Enforces(p, "stop", "paused")
  /\ Expired
  /\ UNCHANGED <<made, box, home, slot, disk, why, crashes, faults>>

\* docker stop cannot signal a frozen process: it is unpaused first.
StopPaused(p) ==
  /\ Enforces(p, "stop", "paused")
  /\ Expired
  /\ \E flushed \in Flush :
       /\ Command({"paused"}, Stopped(box, flushed))
       /\ made' = IF box' = box THEN made ELSE made + Cardinality(flushed)
  /\ UNCHANGED <<home, slot, disk, why, crashes, faults>>

StopRunning(p) ==
  /\ Enforces(p, "stop", "running")
  /\ Expired
  /\ \E flushed \in Flush : Stop(box, flushed)
  /\ UNCHANGED <<home, slot, disk, why, crashes, faults>>

\* Nothing to do, or a restart whose backoff is not over.
Leave(p) ==
  /\ pass[p].at = "enforce" /\ slot # NoSlot
  /\ LET seen == pass[p].seen
     IN CASE Intent(slot) = "run"  -> \/ seen \in {"missing", "stopped", "unreachable"}
                                      \/ seen = "running" /\ ~(Replaceable(slot) /\ ~Pulling)
          [] Intent(slot) = "park" -> seen # "running" \/ Pulling
          [] Intent(slot) = "stop" -> seen \notin {"running", "paused"}
  /\ pass' = [pass EXCEPT ![p] = Over(p)]
  /\ UNCHANGED <<outside, box, home, slot, disk, probe, memory, pull, faults>>

\* The slot was removed between the pass's steps.
Skip(p) ==
  /\ pass[p].at \notin {"idle", "over"} /\ slot = NoSlot
  /\ pass' = [pass EXCEPT ![p] = Over(p)]
  /\ UNCHANGED <<outside, box, home, slot, disk, probe, memory, pull, faults>>

Enforce(p) ==
  Unpause(p) \/ StopForBundle(p) \/ GivesUp(p) \/ Restart(p) \/ Replace(p) \/ Create(p)
  \/ Park(p) \/ StopPaused(p) \/ StopRunning(p) \/ Leave(p)

Pass(p) == Begin(p) \/ Observe(p) \/ Collect(p) \/ Enforce(p) \/ Skip(p)

-----------------------------------------------------------------------------
\* The operator's commands, and the scheduler's.

Commands(c) ==
  /\ c \in Operator
  /\ commands < MaxCommands
  /\ commands' = commands + 1
  /\ UNCHANGED <<role, link, ended, pass>>

\* What an observation made by a command leaves, beside the record, the files and
\* the observation itself.
Remembers(o) == why' = o.why /\ faults' = faults + o.cost

\* add_ssh
Add ==
  /\ Commands("add")
  /\ slot = NoSlot
  /\ slot' = NewSlot /\ disk' = NewSlot
  /\ UNCHANGED <<made, dropped, bundle, gated, box, home, probe, memory, pull, faults>>

\* set_worker_state(run=True): the observation may note the exit of the worker
\* that is about to be started again.
Start ==
  /\ Commands("start")
  /\ slot # NoSlot
  /\ crashes' = 0
  /\ LET wanted == [slot EXCEPT !.desired = "running", !.finished = FALSE, !.failed = FALSE]
     IN \E o \in Looks(wanted) :
          /\ home' = o.home
          /\ IF ~gated /\ Probe(o) = "missing"
             THEN \E end \in RunEnds :
                    /\ Run(box, end)
                    /\ slot' = Ran(o.slot, end)
                    /\ disk' = IF end = "ok" THEN slot' ELSE wanted
             ELSE /\ IF ~gated /\ Probe(o) = "stopped"
                     THEN Command({"created", "stopped"}, [box EXCEPT !.state = "running"])
                     ELSE UNCHANGED box
                  /\ slot' = o.slot
                  /\ disk' = wanted
                  /\ why' = o.why
                  /\ faults' = faults + o.cost
          /\ IF gated \/ Probe(o) \notin {"missing", "stopped"} THEN probe' = o.probe ELSE Expired
  /\ UNCHANGED <<made, dropped, bundle, gated, watched, pull>>

\* set_worker_state(run=False)
Pause ==
  /\ Commands("pause")
  /\ slot # NoSlot
  /\ LET unwanted == [slot EXCEPT !.desired = "paused"]
     IN \E o \in Looks(unwanted) :
          /\ slot' = o.slot
          /\ disk' = unwanted
          /\ home' = o.home
          /\ Remembers(o)
          /\ IF Probe(o) = "running" THEN Expired /\ \E flushed \in Flush : Stop(box, flushed)
             ELSE probe' = o.probe /\ UNCHANGED <<box, made>>
  /\ UNCHANGED <<dropped, bundle, gated, crashes, watched, pull>>

\* remove_worker, past its refusal while the container runs or is unreachable: a
\* trainer's last output is swept, a generator's is discarded; then everything
\* remembered of the slot goes (_forget_slot).  A pull still on its thread finds
\* no container.
Remove ==
  /\ Commands("remove")
  /\ slot # NoSlot
  /\ \E o \in Looks(slot) :
       /\ Probe(o) \in {"stopped", "missing"}
       /\ faults' = faults + o.cost
       /\ IF Probe(o) = "stopped"
          THEN /\ link # "down" /\ box.state \in {"created", "stopped"}
               /\ home' = IF role = "trainer" THEN o.home \cup Sweep ELSE o.home
               /\ dropped' = dropped \cup (box.held \ home')
               /\ box' = NoBox
          ELSE home' = o.home /\ UNCHANGED <<dropped, box>>
  /\ slot' = NoSlot /\ disk' = NoSlot
  /\ probe' = "unknown"
  /\ why' = "none" /\ crashes' = 0
  /\ pull' = NoPull
  /\ UNCHANGED <<made, bundle, gated, watched>>

\* _discard_container, when the tag's data home moves: the stopped container is
\* swept and goes, the slot stays.
Discard ==
  /\ Commands("discard")
  /\ role = "generator" /\ slot # NoSlot
  /\ \E o \in Looks(slot) :
       /\ Probe(o) \in {"stopped", "missing"}
       /\ Remembers(o)
       /\ slot' = [o.slot EXCEPT !.launched = FALSE]
       /\ IF Probe(o) = "stopped"
          THEN /\ link # "down" /\ box.state \in {"created", "stopped"}
               /\ home' = o.home \cup Sweep
               /\ box' = NoBox
               /\ Expired
          ELSE home' = o.home /\ probe' = o.probe /\ UNCHANGED box
  /\ disk' = slot'
  /\ UNCHANGED <<made, dropped, bundle, gated, crashes, watched, pull>>

\* Either one refused (the container runs, or is not reached) or failing midway.
Refused ==
  /\ Commands("remove") \/ Commands("discard")
  /\ slot # NoSlot
  /\ \E o \in Looks(slot) :
       /\ slot' = o.slot
       /\ Remembers(o)
       /\ probe' = o.probe
       /\ IF Probe(o) = "stopped" /\ link # "down" THEN home' \in {o.home, Sweep} ELSE home' = o.home
  /\ UNCHANGED <<made, dropped, bundle, gated, box, disk, crashes, watched, pull>>

\* redeploy's last step (_pin_bundle).
Redeploy ==
  /\ Commands("redeploy")
  /\ bundle < MaxDeploys
  /\ bundle' = bundle + 1
  /\ UNCHANGED <<made, dropped, gated, box, home, slot, disk, probe, memory, pull, faults>>

\* The scheduler gates the role, lifts the gate, or finishes it (_finish_role).
\* The last two only undo a gate or a Start and need no bound of their own.
Scheduler(c) ==
  /\ c \in Operator
  /\ UNCHANGED <<role, link, ended, pass, made, dropped, bundle, box, home, probe, memory, pull, faults>>

Gate ==
  /\ Scheduler("gate")
  /\ ~gated /\ gated' = TRUE
  /\ commands < MaxCommands /\ commands' = commands + 1
  /\ UNCHANGED <<slot, disk>>

Lift ==
  /\ Scheduler("gate")
  /\ gated /\ gated' = FALSE
  /\ UNCHANGED <<slot, disk, commands>>

FinishRole ==
  /\ Scheduler("finish")
  /\ role = "generator" /\ slot # NoSlot
  /\ slot' = NoteFinished(slot)
  /\ disk' = slot'
  /\ gated' = FALSE
  /\ UNCHANGED commands

-----------------------------------------------------------------------------
\* Time, the link, and the dashboard's restarts.

\* The remembered observation outlives OBSERVATION_TTL_SECONDS.
Ages ==
  /\ probe # "unknown"
  /\ Expired
  /\ UNCHANGED <<outside, box, home, slot, disk, memory, pull, pass, faults>>

LinkDrops ==
  /\ link # "down" /\ faults < MaxFaults
  /\ link' = "down" /\ faults' = faults + 1
  /\ UNCHANGED <<role, made, ended, dropped, bundle, gated, box, home, slot, disk, probe,
                 memory, pull, pass, commands>>

\* Within SSH_REPROBE_SECONDS of a failed probe no pass looks at the machine.
LinkReturns ==
  /\ link # "up"
  /\ link' = IF link = "down" THEN "back" ELSE "up"
  /\ UNCHANGED <<role, made, ended, dropped, bundle, gated, box, home, slot, disk, probe,
                 memory, pull, pass, faults, commands>>

\* The dashboard stops and starts again; containers keep running.
Crash ==
  /\ faults < MaxFaults
  /\ faults' = faults + 1
  /\ slot' = disk
  /\ link' = IF link = "down" THEN "down" ELSE "up"
  /\ probe' = "unknown"
  /\ why' = "none" /\ crashes' = 0 /\ watched' = FALSE
  /\ pull' = NoPull
  /\ pass' = [p \in Passes |-> Idle]
  /\ UNCHANGED <<role, made, ended, dropped, bundle, gated, commands, box, home, disk>>

-----------------------------------------------------------------------------
\* A slot just added.
Init ==
  /\ role \in Roles
  /\ box = NoBox /\ link = "up"
  /\ made = 0 /\ ended = FALSE
  /\ home = {} /\ dropped = {}
  /\ slot = NewSlot /\ disk = NewSlot
  /\ bundle = 1 /\ gated = FALSE
  /\ probe = "unknown"
  /\ why = "none" /\ crashes = 0 /\ watched = TRUE
  /\ pull = NoPull
  /\ pass = [p \in Passes |-> Over(p)]
  /\ commands = 0 /\ faults = 0

Transfer == PullLists \/ PullCopies \/ PullDeletes \/ PullFails

Next ==
  \/ Produce \/ Finishes \/ Fails
  \/ Transfer
  \/ \E p \in Passes : Pass(p)
  \/ Add \/ Start \/ Pause \/ Remove \/ Discard \/ Refused \/ Redeploy \/ Gate \/ Lift \/ FinishRole
  \/ Ages \/ LinkDrops \/ LinkReturns \/ Crash

Spec == Init /\ [][Next]_vars
=============================================================================
