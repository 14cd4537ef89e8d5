---------------------------- MODULE SshSlotProps ----------------------------
(***************************************************************************)
(* What makes an ssh slot correct: properties of SshSlot's states and      *)
(* steps.                                                                  *)
(***************************************************************************)
EXTENDS SshSlot

States == {"missing", "created", "running", "paused", "stopped"}
Probes == {"unknown", "unreachable", "missing", "running", "paused", "stopped"}
Exits == {"none", "zero", "term", "crash", "fatal", "unread", "error"}
Bundles == 0 .. MaxDeploys
Slot == [desired : {"none", "paused", "running"}, finished : BOOLEAN, failed : BOOLEAN,
         launched : BOOLEAN, bundle : Bundles, undelivered : -1 .. MaxOutput]

\* The sorts of the variables.
TypeOK ==
  /\ role \in Roles
  /\ box \in [state : States, bundle : Bundles, fit : BOOLEAN, exit : Exits, held : SUBSET Files]
  /\ link \in {"up", "down", "back"}
  /\ made \in 0 .. MaxOutput
  /\ ended \in BOOLEAN
  /\ home \subseteq Files
  /\ dropped \subseteq Files
  /\ slot \in Slot /\ disk \in Slot
  /\ bundle \in Bundles
  /\ gated \in BOOLEAN
  /\ probe \in Probes
  /\ why \in Exits
  /\ crashes \in 0 .. FailAfter
  /\ watched \in BOOLEAN
  /\ pull \in [at : {"none", "list", "copy", "delete", "done"}, batch : SUBSET Files,
               total : 0 .. MaxOutput, left : -1 .. MaxOutput]
  /\ pass \in [Passes -> [at : {"idle", "look", "collect", "enforce", "over"}, seen : Probes]]
  /\ commands \in 0 .. MaxCommands
  /\ faults \in 0 .. MaxFaults

\* No finished file is lost: it is here or still in the container, whatever pulls,
\* replacements and stops failed or overlapped, unless it is a generator's and a
\* Remove discarded it ("The delete runs only after extraction succeeds, so a
\* transfer that dies mid-stream loses nothing").
OutputKept ==
  1 .. made \subseteq home \cup box.held \cup (IF role = "generator" THEN dropped ELSE {})

\* A remembered observation still young enough to act on is true, but for what
\* the dashboard did not do: the worker exited, or the link changed.  Otherwise
\* the next pass would repeat the command given since.
ProbeCurrent ==
  \/ probe = "unknown"
  \/ probe = (IF box.state = "created" THEN "stopped" ELSE box.state)
  \/ probe = "running" /\ box.state = "stopped"
  \/ probe = "unreachable"

\* A trainer noted finished has delivered everything: its last generation, made
\* on the way down, was swept before the exit was noted.
FinishedIsHome == role = "trainer" /\ slot.finished => box.held \subseteq home

-----------------------------------------------------------------------------
\* What OutputKept and FinishedIsHome rest on.

\* What a pull is about to delete in the container is here, and it counted it.
PulledIsHome ==
  /\ pull.at = "delete" => pull.batch \subseteq home
  /\ pull.at \in {"copy", "delete"} => Cardinality(pull.batch) <= pull.total

\* Where there is no container there is no output.
GoneHoldsNothing == box.state = "missing" => box.held = {}

\* A slot noted finished, here or on disk, is not wanted running; and a trainer
\* that exited 0, or is noted finished, makes no more output in this container.
FinishedIsOver ==
  /\ slot.finished => slot.desired # "running"
  /\ disk.finished => disk.desired # "running" /\ slot.finished
  /\ role = "trainer" /\ (box.exit = "zero" \/ slot.finished) => ended \/ ~box.fit

\* The inductive invariant.
SlotInv ==
  /\ TypeOK
  /\ PulledIsHome
  /\ GoneHoldsNothing
  /\ FinishedIsOver
  /\ OutputKept
  /\ ProbeCurrent
  /\ FinishedIsHome

-----------------------------------------------------------------------------
\* Liveness.  Passes keep coming and see through to the end what they began; a
\* restart's backoff, and the time a machine counts as unreachable after it
\* was, end; so do transfers, and outages.

Fairness ==
  /\ WF_vars(Ages)
  /\ WF_vars(Transfer)
  /\ WF_vars(LinkReturns)
  /\ \A p \in Passes : WF_vars(Pass(p))
  /\ SF_vars(\E p \in Passes : GivesUp(p) \/ Restart(p) \/ Replace(p) \/ Create(p))

FairSpec == Spec /\ Fairness

\* The container is as the record and the scheduler want it: down, frozen or
\* gone, or on the task's bundle with everything finished so far here.
AsWanted ==
  CASE slot = NoSlot -> TRUE
    [] Intent(slot) = "stop" -> box.state \notin {"running", "paused"}
    [] Intent(slot) = "park" -> box.state # "running"
    [] Intent(slot) = "run"  -> /\ box.state = "running"
                                /\ slot.bundle = bundle
                                /\ box.held \subseteq home

\* Once the commands and the faults are over, passes bring the container where
\* the last command wanted it, to the bundle last deployed, and its output here.
Converges == <>[]AsWanted
=============================================================================
