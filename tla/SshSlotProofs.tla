---------------------------- MODULE SshSlotProofs ----------------------------
(***************************************************************************)
(* Proofs about one ssh slot, for every number of files, bundles, commands *)
(* and failures, every choice of overlapping passes and every batch size:  *)
(* no finished file is lost, a remembered observation that may still be    *)
(* acted on is true, and a trainer noted finished has delivered everything.*)
(***************************************************************************)
EXTENDS SshSlotProps, FiniteSetTheorems, TLAPS

Box == [state : States, bundle : Bundles, fit : BOOLEAN, exit : Exits, held : SUBSET Files]
Pull == [at : {"none", "list", "copy", "delete", "done"}, batch : SUBSET Files,
         total : 0 .. MaxOutput, left : -1 .. MaxOutput]

-----------------------------------------------------------------------------
\* What the model's operators return.

\* The constants, as the proofs use them.
LEMMA Constants ==
  /\ MaxOutput \in Nat /\ MaxFaults \in Nat /\ MaxCommands \in Nat /\ MaxDeploys \in Nat
  /\ MaxDeploys >= 1 /\ FailAfter \in Nat /\ FailAfter >= 1
  /\ Roles \subseteq {"generator", "trainer"}
BY SlotAssumption DEF SlotAssumption

\* The size of a set of files.
LEMMA FilesCount ==
  ASSUME NEW S \in SUBSET Files
  PROVE  IsFiniteSet(S) /\ Cardinality(S) \in 0 .. MaxOutput
<1>1. IsFiniteSet(Files) /\ Cardinality(Files) = MaxOutput
  <2>1. IsFiniteSet(1 .. MaxOutput)
        /\ Cardinality(1 .. MaxOutput) = IF 1 > MaxOutput THEN 0 ELSE MaxOutput - 1 + 1
    BY Constants, FS_Interval
  <2>2. QED
    BY <2>1, Constants DEF Files
<1>2. IsFiniteSet(S) /\ Cardinality(S) <= MaxOutput
  BY <1>1, FS_Subset
<1>3. Cardinality(S) \in Nat
  BY <1>2, FS_CardinalityType
<1>4. QED
  BY <1>2, <1>3, Constants

\* The constant records.
LEMMA RestTypes ==
  /\ NoBox \in Box /\ NoBox.held = {} /\ NoBox.state = "missing" /\ NoBox.exit = "none"
  /\ NewSlot \in Slot /\ ~NewSlot.finished
  /\ NoSlot \in Slot /\ ~NoSlot.finished /\ NoSlot.desired = "none"
  /\ NoPull \in Pull /\ NoPull.at = "none"
<1>1. NoBox \in Box /\ NoBox.held = {} /\ NoBox.state = "missing" /\ NoBox.exit = "none"
  BY Constants DEF NoBox, Box, States, Bundles, Exits
<1>2. NewSlot \in Slot /\ ~NewSlot.finished
  BY Constants DEF NewSlot, Slot, Bundles, Unknown
<1>3. NoSlot \in Slot /\ ~NoSlot.finished /\ NoSlot.desired = "none"
  BY <1>2 DEF NoSlot, Slot
<1>4. NoPull \in Pull /\ NoPull.at = "none"
  BY Constants DEF NoPull, Pull, Unknown
<1>5. QED
  BY <1>1, <1>2, <1>3, <1>4

\* The record's helpers change one field or two.
LEMMA RecordTypes ==
  ASSUME NEW s \in Slot
  PROVE  /\ ForgetEmpty(s) \in Slot
         /\ ForgetEmpty(s).desired = s.desired /\ ForgetEmpty(s).finished = s.finished
         /\ NoteFailed(s) \in Slot
         /\ NoteFailed(s).desired # "running" /\ NoteFailed(s).finished = s.finished
         /\ NoteFinished(s) \in Slot /\ NoteFinished(s).desired # "running"
         /\ NoteFinished(s).finished => s.finished \/ s.desired = "running"
<1>1. -1 \in -1 .. MaxOutput
  BY Constants
<1>2. ForgetEmpty(s) \in Slot
      /\ ForgetEmpty(s).desired = s.desired /\ ForgetEmpty(s).finished = s.finished
  BY <1>1 DEF ForgetEmpty, Slot, Unknown
<1>3. NoteFailed(s) \in Slot
      /\ NoteFailed(s).desired # "running" /\ NoteFailed(s).finished = s.finished
  BY DEF NoteFailed, Slot
<1>4. NoteFinished(s) \in Slot /\ NoteFinished(s).desired # "running"
      /\ (NoteFinished(s).finished => s.finished \/ s.desired = "running")
  BY DEF NoteFinished, Slot
<1>5. QED
  BY <1>2, <1>3, <1>4

\* At most two things may go wrong in one observation.
LEMMA FailuresCount == \A r : Failures(r) \in Nat
<1> SUFFICES ASSUME NEW r PROVE Failures(r) \in Nat
  OBVIOUS
<1> DEFINE S == {f \in {"code", "sweep"} : \/ f = "code" /\ r.code # box.exit
                                           \/ f = "sweep" /\ ~r.swept}
<1>1. IsFiniteSet({"code"} \cup {"sweep"})
  BY FS_Singleton, FS_Union
<1>2. S \in SUBSET ({"code"} \cup {"sweep"})
  OBVIOUS
<1>3. IsFiniteSet(S)
  BY <1>1, <1>2, FS_Subset
<1>4. Failures(r) = Cardinality(S)
  BY DEF Failures
<1>5. Cardinality(S) \in Nat
  BY <1>3, FS_CardinalityType
<1>6. QED
  BY <1>4, <1>5

\* An observation, remembered or new: where it notes a trainer finished, its exit
\* code was 0 and the container was swept.
LEMMA LooksFacts ==
  ASSUME TypeOK, NEW s \in Slot, NEW o \in Looks(s)
  PROVE  /\ o.slot \in Slot
         /\ o.probe \in Probes /\ (o.probe = probe \/ o.probe = Seen)
         /\ o.why \in Exits
         /\ home \subseteq o.home /\ o.home \subseteq home \cup box.held
         /\ faults + o.cost \in 0 .. MaxFaults
         /\ \/ o.slot.finished = s.finished
            \/ /\ s.desired = "running" /\ o.slot.desired = "paused"
               /\ o.probe = "stopped" /\ box.exit = "zero"
               /\ role = "trainer" => box.held \subseteq o.home
         /\ o.slot.desired = s.desired \/ o.slot.desired = "paused"
<1>0. box \in Box /\ probe \in Probes /\ why \in Exits /\ faults \in 0 .. MaxFaults
      /\ MaxFaults \in Nat
  BY Constants DEF TypeOK, Box
<1>1. CASE probe # "unknown"
  <2>1. o = [slot |-> s, probe |-> probe, why |-> why, home |-> home, cost |-> 0]
    BY <1>1 DEF Looks
  <2>2. QED
    BY <1>0, <2>1
<1>2. CASE probe = "unknown"
  <2>1. PICK r \in Readings(s) : o = Look(s, r)
    BY <1>2 DEF Looks
  <2> DEFINE known == IF r.probe \in {"unreachable", "missing"} THEN s
                      ELSE [s EXCEPT !.launched = TRUE]
  <2>2. r.probe = Seen /\ r.code \in {box.exit, "unread"} /\ r.swept \in BOOLEAN
        /\ faults + Failures(r) <= MaxFaults
    BY <2>1 DEF Readings, Reading
  <2>3. Seen \in Probes
    BY <1>0 DEF Seen, Box, States, Probes
  <2>4. known \in Slot /\ known.desired = s.desired /\ known.finished = s.finished
    BY DEF Slot
  <2>5. o.slot = Observed(s, r) /\ o.probe = r.probe /\ o.cost = Failures(r)
    BY <2>1 DEF Look
  <2>6. o.home = IF r.probe = "stopped" /\ r.code = "zero" /\ r.swept /\ NeedsSweep(s)
                 THEN home \cup box.held ELSE home
    BY <2>1 DEF Look
  <2>7. o.why \in Exits
    <3>1. o.why \in {r.code, "none", why}
      BY <2>1 DEF Look
    <3>2. QED
      BY <3>1, <2>2, <1>0 DEF Box, Exits
  <2>8. faults + o.cost \in 0 .. MaxFaults
    BY <2>2, <2>5, <1>0, FailuresCount
  <2>9. Observed(s, r) =
          CASE r.probe = "stopped" /\ r.code = "zero" /\ r.swept -> NoteFinished(known)
            [] r.probe = "stopped" /\ r.code = "fatal" -> NoteFailed(known)
            [] r.probe = "unreachable" -> ForgetEmpty(known)
            [] OTHER -> known
    BY DEF Observed
  <2> HIDE DEF known
  <2>10. CASE r.probe = "stopped" /\ r.code = "zero" /\ r.swept
    <3>1. o.slot = NoteFinished(known)
      BY <2>5, <2>9, <2>10
    <3>2. o.slot \in Slot
      BY <3>1, <2>4, RecordTypes
    <3>3. IF s.desired = "running" THEN o.slot.desired = "paused" ELSE o.slot = known
      BY <3>1, <2>4 DEF NoteFinished, Slot
    <3>4. s.desired = "running" /\ role = "trainer" => box.held \subseteq o.home
      BY <2>6, <2>10 DEF NeedsSweep
    <3>5. box.exit = "zero"
      BY <2>2, <2>10
    <3>6. QED
      BY <2>2, <2>3, <2>4, <2>5, <2>6, <2>7, <2>8, <2>10, <3>2, <3>3, <3>4, <3>5
  <2>11. CASE ~(r.probe = "stopped" /\ r.code = "zero" /\ r.swept)
    <3>1. o.slot \in {NoteFailed(known), ForgetEmpty(known), known}
      BY <2>5, <2>9, <2>11
    <3>0. NoteFailed(known).desired \in {known.desired, "paused"}
      BY <2>4 DEF NoteFailed, Slot
    <3>2. o.slot \in Slot /\ o.slot.finished = s.finished
          /\ (o.slot.desired = s.desired \/ o.slot.desired = "paused")
      BY <3>0, <3>1, <2>4, RecordTypes
    <3>3. QED
      BY <2>2, <2>3, <2>5, <2>6, <2>7, <2>8, <3>2
  <2>12. QED
    BY <2>10, <2>11
<1>3. QED
  BY <1>1, <1>2

\* A container created anew, wherever its creation ends, holds nothing; a trainer
\* in one that was not started with everything has nothing to run.
LEMMA RunFacts ==
  ASSUME TypeOK, NEW b \in Box, NEW end \in RunEnds, Run(b, end)
  PROVE  /\ box' \in Box /\ why' \in Exits /\ faults' \in 0 .. MaxFaults
         /\ \/ box' = b
            \/ /\ b.state = "missing" /\ box'.state # "missing" /\ box'.held = {}
               /\ role = "trainer" /\ box'.exit = "zero" => ~box'.fit
<1> DEFINE new == [state |-> "running", bundle |-> bundle, fit |-> TRUE, exit |-> "none", held |-> {}]
<1>1. bundle \in Bundles /\ faults \in 0 .. MaxFaults /\ MaxFaults \in Nat
  BY Constants DEF TypeOK
<1>2. new \in Box /\ new.held = {} /\ new.exit = "none" /\ new.state = "running"
  BY <1>1 DEF Box, States, Exits
<1>3. why' \in Exits
  BY DEF Run, Exits
<1>4. faults' \in 0 .. MaxFaults
  <2>1. faults' \in {faults, faults + 1} /\ faults' <= MaxFaults
    BY DEF Run
  <2>2. QED
    BY <2>1, <1>1
<1>5. end # "refused" => b.state = "missing"
  BY DEF Run
<1>0. PICK fit \in Lacking :
        box' = CASE end = "ok" -> new
                 [] end = "refused" -> b
                 [] end = "bare" -> [new EXCEPT !.state = "created", !.fit = FALSE, !.exit = "zero"]
                 [] end = "created" -> [new EXCEPT !.state = "created", !.exit = "zero", !.fit = fit]
                 [] end = "started" -> [new EXCEPT !.fit = fit]
  BY DEF Run
<1>12. fit \in BOOLEAN /\ (role = "trainer" => ~fit)
  BY DEF Lacking
<1>6. CASE end = "ok"
  BY <1>0, <1>2, <1>3, <1>4, <1>5, <1>6
<1>7. CASE end = "refused"
  BY <1>0, <1>3, <1>4, <1>7
<1>8. CASE end = "bare"
  <2>1. box' = [new EXCEPT !.state = "created", !.fit = FALSE, !.exit = "zero"]
    BY <1>0, <1>8
  <2>2. QED
    BY <2>1, <1>2, <1>3, <1>4, <1>5, <1>8 DEF Box, States, Exits
<1>9. CASE end = "created"
  <2>1. box' = [new EXCEPT !.state = "created", !.exit = "zero", !.fit = fit]
    BY <1>0, <1>9
  <2>2. QED
    BY <2>1, <1>12, <1>2, <1>3, <1>4, <1>5, <1>9 DEF Box, States, Exits
<1>10. CASE end = "started"
  <2>1. box' = [new EXCEPT !.fit = fit]
    BY <1>0, <1>10
  <2>2. QED
    BY <2>1, <1>12, <1>2, <1>3, <1>4, <1>5, <1>10 DEF Box, States, Exits
<1>11. QED
  BY <1>6, <1>7, <1>8, <1>9, <1>10 DEF RunEnds

\* A container created and started anew, with the record that says so.
LEMMA RanFacts ==
  ASSUME TypeOK, NEW s \in Slot, NEW end
  PROVE  /\ Ran(s, end) \in Slot
         /\ Ran(s, end).desired = s.desired /\ Ran(s, end).finished = s.finished
<1>1. bundle \in Bundles /\ 0 \in -1 .. MaxOutput
  BY Constants DEF TypeOK
<1>2. QED
  BY <1>1 DEF Ran, Slot

\* What a stopped worker may still flush.
LEMMA FlushFacts ==
  ASSUME TypeOK, NEW flushed \in Flush
  PROVE  /\ flushed \subseteq Files
         /\ made + Cardinality(flushed) \in 0 .. MaxOutput
         /\ 1 .. made + Cardinality(flushed) \subseteq (1 .. made) \cup flushed
         /\ flushed = {} \/ (box.fit /\ ~ended)
<1>1. made \in 0 .. MaxOutput /\ MaxOutput \in Nat
  BY Constants DEF TypeOK
<1>2. CASE flushed = {}
  <2>1. Cardinality(flushed) = 0
    BY <1>2, FS_EmptySet
  <2>2. QED
    BY <1>1, <1>2, <2>1 DEF Files
<1>3. CASE flushed # {}
  <2>1. flushed = {made + 1} /\ box.fit /\ ~ended /\ made < MaxOutput
    BY <1>3 DEF Flush
  <2>2. Cardinality(flushed) = 1
    BY <2>1, FS_Singleton
  <2>3. QED
    BY <1>1, <2>1, <2>2 DEF Files
<1>4. QED
  BY <1>2, <1>3

\* docker stop, whether it takes effect or not.
LEMMA StopFacts ==
  ASSUME TypeOK, NEW flushed \in Flush,
         \/ box' = box /\ made' = made
         \/ box' = Stopped(box, flushed) /\ made' = made + Cardinality(flushed)
  PROVE  /\ box' \in Box /\ made' \in 0 .. MaxOutput
         /\ box.held \subseteq box'.held
         /\ 1 .. made' \subseteq (1 .. made) \cup box'.held
         /\ \/ box' = box
            \/ /\ box'.state = "stopped" /\ box'.exit = "term" /\ box'.fit = box.fit
               /\ box'.held = box.held \/ (box.fit /\ ~ended)
<1>1. box \in Box /\ made \in 0 .. MaxOutput
  BY DEF TypeOK, Box
<1>2. CASE box' = box /\ made' = made
  BY <1>1, <1>2
<1>3. CASE box' = Stopped(box, flushed) /\ made' = made + Cardinality(flushed)
  <2>1. /\ box' \in Box /\ box'.state = "stopped" /\ box'.exit = "term" /\ box'.fit = box.fit
        /\ box'.held = box.held \cup flushed
    BY <1>1, <1>3, FlushFacts DEF Stopped, Box, States, Exits
  <2>2. QED
    BY <1>3, <2>1, FlushFacts
<1>4. QED
  BY <1>2, <1>3

-----------------------------------------------------------------------------
\* Types.

\* A pass at rest.
LEMMA RestingPass ==
  /\ Idle \in [at : {"idle", "look", "collect", "enforce", "over"}, seen : Probes]
  /\ \A p : Over(p) \in [at : {"idle", "look", "collect", "enforce", "over"}, seen : Probes]
BY DEF Idle, Over, Probes

\* The types hold at first,
LEMMA TypeInit == Init => TypeOK
<1> SUFFICES ASSUME Init PROVE TypeOK
  OBVIOUS
<1>1. box \in Box /\ slot \in Slot /\ disk \in Slot /\ pull \in Pull
  BY RestTypes DEF Init
<1>2. pass \in [Passes -> [at : {"idle", "look", "collect", "enforce", "over"}, seen : Probes]]
  BY RestingPass DEF Init
<1>3. /\ role \in Roles /\ link = "up" /\ made = 0 /\ ended = FALSE /\ home = {} /\ dropped = {}
      /\ bundle = 1 /\ gated = FALSE /\ probe = "unknown" /\ why = "none" /\ crashes = 0
      /\ watched = TRUE /\ commands = 0 /\ faults = 0
  BY DEF Init
<1>4. probe \in Probes /\ why \in Exits
  BY <1>3 DEF Probes, Exits
<1>5. /\ made \in 0 .. MaxOutput /\ bundle \in Bundles /\ crashes \in 0 .. FailAfter
      /\ commands \in 0 .. MaxCommands /\ faults \in 0 .. MaxFaults
  BY <1>3, Constants DEF Bundles
<1>6. ended \in BOOLEAN /\ gated \in BOOLEAN /\ watched \in BOOLEAN
  BY <1>3
<1>7. QED
  BY <1>1, <1>2, <1>3, <1>4, <1>5, <1>6 DEF TypeOK, Box, Pull

\* through a pass's steps,
LEMMA TypePass ==
  ASSUME TypeOK, PulledIsHome, NEW p \in Passes, Pass(p)
  PROVE  TypeOK'
<1> DEFINE Where == [at : {"idle", "look", "collect", "enforce", "over"}, seen : Probes]
<1>1. /\ box \in Box /\ pull \in Pull /\ slot \in Slot /\ disk \in Slot
      /\ pass \in [Passes -> Where] /\ Over(p) \in Where
      /\ crashes \in 0 .. FailAfter /\ FailAfter \in Nat /\ FailAfter >= 1
      /\ home \cup box.held \subseteq Files
  BY Constants, RestingPass DEF TypeOK, Box, Pull
<1>2. CASE Begin(p)
  BY <1>1, <1>2, RecordTypes DEF Begin, TypeOK, outside
<1>3. CASE Observe(p)
  <2>1. PICK o \in Looks(slot) :
          /\ slot' = o.slot /\ probe' = o.probe /\ why' = o.why /\ home' = o.home
          /\ faults' = faults + o.cost
          /\ pass' = [pass EXCEPT ![p] = [at |-> IF Probe(o) = "running" THEN "collect" ELSE "enforce",
                                          seen |-> Probe(o)]]
    BY <1>3 DEF Observe
  <2>2. o.slot \in Slot /\ o.probe \in Probes /\ o.why \in Exits /\ o.home \subseteq Files
        /\ faults + o.cost \in 0 .. MaxFaults
    BY <1>1, LooksFacts
  <2>3. Probe(o) \in Probes
    BY <2>2 DEF Probe, Probes
  <2>4. pass' \in [Passes -> Where]
    BY <1>1, <2>1, <2>3
  <2>5. QED
    BY <1>3, <2>1, <2>2, <2>4 DEF Observe, TypeOK, outside
<1>4. CASE Collect(p)
  <2>1. slot' \in Slot
    BY <1>1, <1>4 DEF Collect, RecordPull, Slot, Pull
  <2>2. disk' \in Slot
    BY <1>1, <1>4, <2>1 DEF Collect
  <2>3. pull' \in Pull
    BY <1>1, <1>4, RestTypes DEF Collect, Pull
  <2>4. QED
    BY <1>1, <1>4, <2>1, <2>2, <2>3 DEF Collect, TypeOK, outside, memory, Pull
<1>5. CASE Unpause(p)
  <2>1. box' \in Box
    BY <1>1, <1>5 DEF Unpause, Command, Box, States
  <2>2. QED
    BY <1>1, <1>5, <2>1 DEF Unpause, Enforces, Expired, TypeOK, Box, Probes
<1>6. CASE StopForBundle(p)
  <2>1. box' \in Box /\ made' \in 0 .. MaxOutput
    BY <1>6, StopFacts DEF StopForBundle, Stop, Command
  <2>2. QED
    BY <1>1, <1>6, <2>1 DEF StopForBundle, Enforces, Expired, TypeOK, Box, Probes
<1>7. CASE GivesUp(p)
  BY <1>1, <1>7, RecordTypes DEF GivesUp, Enforces, TypeOK
<1>8. CASE Restart(p)
  <2>1. box' \in Box
    BY <1>1, <1>8 DEF Restart, Command, Box, States
  <2>2. crashes' \in 0 .. FailAfter
    BY <1>1, <1>8 DEF Restart, Counted
  <2>3. QED
    BY <1>1, <1>8, <2>1, <2>2 DEF Restart, Enforces, Expired, TypeOK, Box, Probes
<1>9. CASE Replace(p)
  <2>1. crashes' \in 0 .. FailAfter
    BY <1>1, <1>9 DEF Replace, Counted
  <2>2. CASE /\ home' = Sweep
             /\ \E end \in RunEnds :
                  /\ Run(NoBox, end)
                  /\ slot' = Ran(slot, end)
                  /\ disk' = IF end = "ok" THEN slot' ELSE disk
    <3>1. box' \in Box /\ why' \in Exits /\ faults' \in 0 .. MaxFaults
      BY <2>2, RunFacts, RestTypes
    <3>2. slot' \in Slot /\ disk' \in Slot
      BY <1>1, <2>2, RanFacts
    <3>3. QED
      BY <1>1, <1>9, <2>1, <2>2, <3>1, <3>2 DEF Replace, Enforces, Expired, Sweep, TypeOK, Box, Probes
  <2>3. CASE /\ faults' = IF link # "down" /\ box.state \in {"created", "stopped"}
                           THEN faults + 1 ELSE faults
             /\ faults' <= MaxFaults
             /\ home' \in {home, IF link # "down" THEN Sweep ELSE home}
             /\ UNCHANGED <<box, slot, disk, why>>
    <3>1. faults' \in 0 .. MaxFaults
      BY <2>3, Constants DEF TypeOK
    <3>2. QED
      BY <1>1, <1>9, <2>1, <2>3, <3>1 DEF Replace, Enforces, Expired, Sweep, TypeOK, Box, Probes
  <2>4. QED
    BY <1>9, <2>2, <2>3 DEF Replace
<1>10. CASE Create(p)
  <2>1. PICK end \in RunEnds : /\ Run(box, end)
                               /\ slot' = Ran(slot, end)
                               /\ disk' = IF end = "ok" THEN slot' ELSE disk
    BY <1>10 DEF Create
  <2>2. box' \in Box /\ why' \in Exits /\ faults' \in 0 .. MaxFaults
    BY <1>1, <2>1, RunFacts
  <2>3. slot' \in Slot /\ disk' \in Slot
    BY <1>1, <2>1, RanFacts
  <2>4. crashes' \in 0 .. FailAfter
    BY <1>1, <1>10 DEF Create, Counted
  <2>5. QED
    BY <1>1, <1>10, <2>2, <2>3, <2>4 DEF Create, Enforces, Expired, TypeOK, Box, Probes
<1>11. CASE Park(p)
  <2>1. box' \in Box
    BY <1>1, <1>11 DEF Park, Command, Box, States
  <2>2. QED
    BY <1>1, <1>11, <2>1 DEF Park, Enforces, Expired, TypeOK, Box, Probes
<1>12. CASE StopPaused(p)
  <2>1. box' \in Box /\ made' \in 0 .. MaxOutput
    BY <1>12, StopFacts DEF StopPaused, Command
  <2>2. QED
    BY <1>1, <1>12, <2>1 DEF StopPaused, Enforces, Expired, TypeOK, Box, Probes
<1>13. CASE StopRunning(p)
  <2>1. box' \in Box /\ made' \in 0 .. MaxOutput
    BY <1>13, StopFacts DEF StopRunning, Stop, Command
  <2>2. QED
    BY <1>1, <1>13, <2>1 DEF StopRunning, Enforces, Expired, TypeOK, Box, Probes
<1>14. CASE Leave(p)
  BY <1>1, <1>14 DEF Leave, TypeOK, outside, memory
<1>15. CASE Skip(p)
  BY <1>1, <1>15 DEF Skip, TypeOK, outside, memory
<1>16. QED
  BY <1>2, <1>3, <1>4, <1>5, <1>6, <1>7, <1>8, <1>9, <1>10, <1>11, <1>12, <1>13, <1>14, <1>15
     DEF Pass, Enforce

\* the operator's commands,
LEMMA TypeCommand ==
  ASSUME TypeOK,
         \/ Add \/ Start \/ Pause \/ Remove \/ Discard \/ Refused \/ Redeploy
         \/ Gate \/ Lift \/ FinishRole
  PROVE  TypeOK'
<1>1. /\ box \in Box /\ pull \in Pull /\ slot \in Slot /\ disk \in Slot
      /\ home \cup box.held \subseteq Files /\ commands \in 0 .. MaxCommands /\ MaxCommands \in Nat
      /\ FailAfter \in Nat /\ bundle \in 0 .. MaxDeploys /\ MaxDeploys \in Nat
  BY Constants DEF TypeOK, Box, Pull, Bundles
<1>2. \A c : Commands(c) => commands' \in 0 .. MaxCommands
  BY <1>1 DEF Commands
<1>3. \A o : Expired \/ (probe' = o.probe /\ o.probe \in Probes) => probe' \in Probes
  BY DEF Expired, Probes
<1>4. CASE Add
  BY <1>1, <1>2, <1>4, RestTypes DEF Add, Commands, TypeOK, memory
<1>5. CASE Start
  <2> DEFINE wanted == [slot EXCEPT !.desired = "running", !.finished = FALSE, !.failed = FALSE]
  <2>1. wanted \in Slot
    BY <1>1 DEF Slot
  <2>2. PICK o \in Looks(wanted) :
          /\ home' = o.home
          /\ IF ~gated /\ Probe(o) = "missing"
             THEN \E end \in RunEnds :
                    /\ Run(box, end)
                    /\ slot' = Ran(o.slot, end)
                    /\ disk' = IF end = "ok" THEN slot' ELSE wanted
             ELSE /\ IF ~gated /\ Probe(o) = "stopped"
                     THEN Command({"created", "stopped"}, [box EXCEPT !.state = "running"])
                     ELSE UNCHANGED box
                  /\ slot' = o.slot
                  /\ disk' = wanted
                  /\ why' = o.why
                  /\ faults' = faults + o.cost
          /\ IF gated \/ Probe(o) \notin {"missing", "stopped"} THEN probe' = o.probe ELSE Expired
    BY <1>5 DEF Start
  <2> HIDE DEF wanted
  <2>3. /\ o.slot \in Slot /\ o.probe \in Probes /\ o.why \in Exits /\ o.home \subseteq Files
        /\ faults + o.cost \in 0 .. MaxFaults
    BY <1>1, <2>1, LooksFacts
  <2>4. /\ box' \in Box /\ slot' \in Slot /\ disk' \in Slot /\ why' \in Exits
        /\ faults' \in 0 .. MaxFaults
    <3>1. CASE ~gated /\ Probe(o) = "missing"
      <4>1. PICK end \in RunEnds : /\ Run(box, end)
                                   /\ slot' = Ran(o.slot, end)
                                   /\ disk' = IF end = "ok" THEN slot' ELSE wanted
        BY <2>2, <3>1
      <4>2. slot' \in Slot
        BY <2>3, <4>1, RanFacts
      <4>3. QED
        BY <1>1, <2>1, <4>1, <4>2, RunFacts
    <3>2. CASE ~(~gated /\ Probe(o) = "missing")
      <4>1. box' = box \/ box' = [box EXCEPT !.state = "running"]
        BY <2>2, <3>2 DEF Command
      <4>2. box' \in Box
        BY <1>1, <4>1 DEF Box, States
      <4>3. QED
        BY <2>1, <2>2, <2>3, <3>2, <4>2
    <3>3. QED
      BY <3>1, <3>2
  <2>5. probe' \in Probes
    BY <2>2, <2>3 DEF Expired, Probes
  <2>6. QED
    BY <1>1, <1>2, <1>5, <2>2, <2>3, <2>4, <2>5 DEF Start, Commands, TypeOK, Box
<1>6. CASE Pause
  <2> DEFINE unwanted == [slot EXCEPT !.desired = "paused"]
  <2>1. unwanted \in Slot
    BY <1>1 DEF Slot
  <2>2. PICK o \in Looks(unwanted) :
          /\ slot' = o.slot
          /\ disk' = unwanted
          /\ home' = o.home
          /\ Remembers(o)
          /\ IF Probe(o) = "running" THEN Expired /\ \E flushed \in Flush : Stop(box, flushed)
             ELSE probe' = o.probe /\ UNCHANGED <<box, made>>
    BY <1>6 DEF Pause
  <2> HIDE DEF unwanted
  <2>3. /\ o.slot \in Slot /\ o.probe \in Probes /\ o.why \in Exits /\ o.home \subseteq Files
        /\ faults + o.cost \in 0 .. MaxFaults
    BY <1>1, <2>1, LooksFacts
  <2>4. box' \in Box /\ made' \in 0 .. MaxOutput
    BY <1>1, <2>2, StopFacts DEF Stop, Command, TypeOK
  <2>5. probe' \in Probes
    BY <2>2, <2>3 DEF Expired, Probes
  <2>6. QED
    BY <1>1, <1>2, <1>6, <2>1, <2>2, <2>3, <2>4, <2>5 DEF Pause, Commands, Remembers, TypeOK, Box
<1>7. CASE Remove
  <2>1. PICK o \in Looks(slot) :
          /\ faults' = faults + o.cost
          /\ IF Probe(o) = "stopped"
             THEN /\ home' = IF role = "trainer" THEN o.home \cup Sweep ELSE o.home
                  /\ dropped' = dropped \cup (box.held \ home')
                  /\ box' = NoBox
             ELSE home' = o.home /\ UNCHANGED <<dropped, box>>
    BY <1>7 DEF Remove
  <2>2. o.home \subseteq Files /\ faults + o.cost \in 0 .. MaxFaults
    BY <1>1, LooksFacts
  <2>3. box' \in Box /\ home' \subseteq Files /\ dropped' \subseteq Files
    BY <1>1, <2>1, <2>2, RestTypes DEF Sweep, TypeOK
  <2>4. slot' \in Slot /\ disk' \in Slot /\ pull' \in Pull /\ probe' \in Probes /\ why' \in Exits
    BY <1>7, RestTypes DEF Remove, Probes, Exits
  <2>5. QED
    BY <1>1, <1>2, <1>7, <2>1, <2>2, <2>3, <2>4 DEF Remove, Commands, TypeOK, Box, Pull
<1>8. CASE Discard
  <2>1. PICK o \in Looks(slot) :
          /\ Remembers(o)
          /\ slot' = [o.slot EXCEPT !.launched = FALSE]
          /\ IF Probe(o) = "stopped"
             THEN home' = o.home \cup Sweep /\ box' = NoBox /\ Expired
             ELSE home' = o.home /\ probe' = o.probe /\ UNCHANGED box
    BY <1>8 DEF Discard
  <2>2. /\ o.slot \in Slot /\ o.probe \in Probes /\ o.why \in Exits /\ o.home \subseteq Files
        /\ faults + o.cost \in 0 .. MaxFaults
    BY <1>1, LooksFacts
  <2>3. slot' \in Slot
    BY <2>1, <2>2 DEF Slot
  <2>4. box' \in Box /\ home' \subseteq Files
    BY <1>1, <2>1, <2>2, RestTypes DEF Sweep
  <2>5. probe' \in Probes
    BY <2>1, <2>2 DEF Expired, Probes
  <2>6. QED
    BY <1>1, <1>2, <1>8, <2>1, <2>2, <2>3, <2>4, <2>5 DEF Discard, Commands, Remembers, TypeOK, Box
<1>9. CASE Refused
  <2>1. PICK o \in Looks(slot) :
          /\ slot' = o.slot
          /\ Remembers(o)
          /\ probe' = o.probe
          /\ IF Probe(o) = "stopped" /\ link # "down" THEN home' \in {o.home, Sweep} ELSE home' = o.home
    BY <1>9 DEF Refused
  <2>2. /\ o.slot \in Slot /\ o.probe \in Probes /\ o.why \in Exits /\ o.home \subseteq Files
        /\ faults + o.cost \in 0 .. MaxFaults
    BY <1>1, LooksFacts
  <2>3. home' \subseteq Files
    BY <1>1, <2>1, <2>2 DEF Sweep
  <2>4. QED
    BY <1>1, <1>2, <1>9, <2>1, <2>2, <2>3 DEF Refused, Commands, Remembers, TypeOK, Box
<1>10. CASE Redeploy
  <2>1. bundle' \in Bundles
    BY <1>1, <1>10 DEF Redeploy, Bundles
  <2>2. QED
    BY <1>1, <1>2, <1>10, <2>1 DEF Redeploy, Commands, TypeOK, memory
<1>11. CASE Gate
  <2>1. commands' \in 0 .. MaxCommands
    BY <1>1, <1>11 DEF Gate
  <2>2. QED
    BY <1>1, <1>11, <2>1 DEF Gate, Scheduler, TypeOK, memory
<1>12. CASE Lift
  BY <1>1, <1>12 DEF Lift, Scheduler, TypeOK, memory
<1>13. CASE FinishRole
  BY <1>1, <1>13, RecordTypes DEF FinishRole, Scheduler, TypeOK, memory
<1>14. QED
  BY <1>4, <1>5, <1>6, <1>7, <1>8, <1>9, <1>10, <1>11, <1>12, <1>13

\* and everything else.
LEMMA TypeOther ==
  ASSUME TypeOK, PulledIsHome,
         \/ Produce \/ Finishes \/ Fails \/ Transfer \/ Ages \/ LinkDrops \/ LinkReturns \/ Crash
         \/ UNCHANGED vars
  PROVE  TypeOK'
<1>1. /\ box \in Box /\ pull \in Pull /\ slot \in Slot /\ disk \in Slot
      /\ home \cup box.held \subseteq Files /\ faults \in 0 .. MaxFaults /\ MaxFaults \in Nat
      /\ made \in 0 .. MaxOutput /\ MaxOutput \in Nat
  BY Constants DEF TypeOK, Box, Pull
<1>2. CASE Produce
  <2>1. box' \in Box /\ made' \in 0 .. MaxOutput
    BY <1>1, <1>2 DEF Produce, Worker, Box, Files
  <2>2. QED
    BY <1>2, <2>1 DEF Produce, Worker, TypeOK, memory, Box
<1>3. CASE Finishes
  <2>1. box' \in Box /\ made' \in 0 .. MaxOutput
    <3>1. PICK last \in {0, 1} :
            /\ last = 1 => role = "trainer" /\ ~ended /\ made < MaxOutput
            /\ made' = made + last
            /\ box' = [box EXCEPT !.state = "stopped", !.exit = "zero",
                                  !.held = @ \cup (made + 1 .. made + last)]
      BY <1>3 DEF Finishes, Worker
    <3>2. made' \in 0 .. MaxOutput
      BY <1>1, <3>1
    <3>3. made + 1 .. made + last \subseteq Files
      BY <1>1, <3>1, <3>2 DEF Files
    <3>4. QED
      BY <1>1, <3>1, <3>2, <3>3 DEF Box, States, Exits
  <2>2. ended' \in BOOLEAN
    BY <1>3 DEF Finishes
  <2>3. QED
    BY <1>3, <2>1, <2>2 DEF Finishes, Worker, TypeOK, memory, Box
<1>4. CASE Fails
  <2>1. box' \in Box
    BY <1>1, <1>4 DEF Fails, Worker, Box, States, Exits
  <2>2. faults' \in 0 .. MaxFaults
    BY <1>1, <1>4 DEF Fails
  <2>3. QED
    BY <1>4, <2>1, <2>2 DEF Fails, Worker, TypeOK, memory, Box
<1>5. CASE PullLists
  <2>1. Cardinality(box.held) \in 0 .. MaxOutput
    BY <1>1, FilesCount
  <2>2. BatchOf(box.held) \subseteq Files
    BY <1>1 DEF BatchOf
  <2>3. pull' \in Pull
    BY <1>1, <1>5, <2>1, <2>2 DEF PullLists, Pull
  <2>4. QED
    BY <1>5, <2>3 DEF PullLists, Pulls, TypeOK, Pull, outside, memory
<1>6. CASE PullCopies
  <2>1. pull' \in Pull /\ home' \subseteq Files
    BY <1>1, <1>6 DEF PullCopies, Pull
  <2>2. QED
    BY <1>6, <2>1 DEF PullCopies, Pulls, TypeOK, Pull, outside, memory
<1>7. CASE PullDeletes
  <2>1. pull.total - Cardinality(pull.batch) \in 0 .. MaxOutput
    <3>1. Cardinality(pull.batch) <= pull.total /\ pull.total \in 0 .. MaxOutput
      BY <1>1, <1>7 DEF PullDeletes, PulledIsHome, Pull
    <3>2. Cardinality(pull.batch) \in 0 .. MaxOutput
      BY <1>1, FilesCount DEF Pull
    <3>3. QED
      BY <1>1, <3>1, <3>2
  <2>2. pull' \in Pull
    <3>1. pull.total - Cardinality(pull.batch) \in -1 .. MaxOutput
      BY <1>1, <2>1
    <3>2. QED
      BY <1>7, <3>1, RestTypes DEF PullDeletes, Pull
  <2>3. box' \in Box
    BY <1>1, <1>7 DEF PullDeletes, Box
  <2>4. QED
    BY <1>7, <2>2, <2>3 DEF PullDeletes, Pulls, TypeOK, Pull, Box, outside, memory
<1>8. CASE PullFails
  <2>1. pull' \in Pull
    BY <1>1, <1>8, RestTypes DEF PullFails, Pull
  <2>2. box' \in Box
    BY <1>1, <1>8 DEF PullFails, Box
  <2>3. faults' \in 0 .. MaxFaults
    BY <1>1, <1>8 DEF PullFails
  <2>4. QED
    BY <1>8, <2>1, <2>2, <2>3 DEF PullFails, Pulls, TypeOK, Pull, Box, outside, memory
<1>9. CASE Ages
  BY <1>9 DEF Ages, Expired, TypeOK, Probes, outside, memory
<1>10. CASE LinkDrops
  BY <1>1, <1>10 DEF LinkDrops, TypeOK, memory
<1>11. CASE LinkReturns
  BY <1>11 DEF LinkReturns, TypeOK, memory
<1>12. CASE Crash
  <2>1. faults' \in 0 .. MaxFaults /\ crashes' \in 0 .. FailAfter
    BY <1>1, <1>12, Constants DEF Crash
  <2>2. pull' \in Pull /\ probe' \in Probes /\ why' \in Exits
    BY <1>12, RestTypes DEF Crash, Probes, Exits
  <2>3. pass' \in [Passes -> [at : {"idle", "look", "collect", "enforce", "over"}, seen : Probes]]
    BY <1>12, RestingPass DEF Crash
  <2>4. QED
    BY <1>1, <1>12, <2>1, <2>2, <2>3 DEF Crash, TypeOK, Pull
<1>13. CASE UNCHANGED vars
  BY <1>13 DEF vars, TypeOK, outside, memory
<1>14. QED
  BY <1>2, <1>3, <1>4, <1>5, <1>6, <1>7, <1>8, <1>9, <1>10, <1>11, <1>12, <1>13 DEF Transfer

\* Every step keeps the types; a pull's counts rest on what it has copied.
LEMMA TypeStep == TypeOK /\ PulledIsHome /\ [Next]_vars => TypeOK'
BY TypePass, TypeCommand, TypeOther DEF Next

-----------------------------------------------------------------------------
\* Output.

\* Nothing takes a file away from here, or back out of what was discarded.
LEMMA HomeGrows ==
  ASSUME TypeOK, [Next]_vars
  PROVE  home \subseteq home' /\ dropped \subseteq dropped' /\ role' = role
<1>1. slot \in Slot
  BY DEF TypeOK
<1>2. \A s \in Slot : \A o \in Looks(s) : home \subseteq o.home
  BY LooksFacts
<1>3. CASE \E p \in Passes : Pass(p)
  BY <1>1, <1>2, <1>3
     DEF Pass, Begin, Observe, Collect, Enforce, Enforces, Unpause, StopForBundle, GivesUp,
         Restart, Replace, Sweep, Create, Park, StopPaused, StopRunning, Leave, Skip, outside
<1>4. CASE Start
  <2>1. [slot EXCEPT !.desired = "running", !.finished = FALSE, !.failed = FALSE] \in Slot
    BY <1>1 DEF Slot
  <2>2. QED
    BY <1>2, <1>4, <2>1 DEF Start, Commands
<1>5. CASE Pause
  <2>1. [slot EXCEPT !.desired = "paused"] \in Slot
    BY <1>1 DEF Slot
  <2>2. QED
    BY <1>2, <1>5, <2>1 DEF Pause, Commands
<1>6. CASE Remove \/ Discard \/ Refused
  BY <1>1, <1>2, <1>6 DEF Remove, Discard, Refused, Commands, Sweep
<1>7. CASE Add \/ Redeploy \/ Gate \/ Lift \/ FinishRole
  BY <1>7 DEF Add, Redeploy, Gate, Lift, FinishRole, Commands, Scheduler
<1>8. CASE Transfer
  BY <1>8 DEF Transfer, PullLists, PullCopies, PullDeletes, PullFails, Pulls, outside
<1>9. CASE \/ Produce \/ Finishes \/ Fails \/ Ages \/ LinkDrops \/ LinkReturns \/ Crash
           \/ UNCHANGED vars
  BY <1>9 DEF Produce, Finishes, Fails, Worker, Ages, LinkDrops, LinkReturns, Crash, vars, outside
<1>10. QED
  BY <1>3, <1>4, <1>5, <1>6, <1>7, <1>8, <1>9 DEF Next

\* A pull deletes what it copied, and copies what it listed.
LEMMA PullStep == TypeOK /\ PulledIsHome /\ [Next]_vars => PulledIsHome'
<1> SUFFICES ASSUME TypeOK, PulledIsHome, [Next]_vars PROVE PulledIsHome'
  OBVIOUS
<1>1. pull \in Pull /\ box.held \subseteq Files /\ home \subseteq home'
  BY HomeGrows DEF TypeOK, Pull
<1>2. CASE PullLists
  <2>1. BatchOf(box.held) \subseteq box.held
    BY DEF BatchOf
  <2>2. Cardinality(BatchOf(box.held)) <= Cardinality(box.held)
    BY <1>1, <2>1, FilesCount, FS_Subset
  <2>3. pull'.at = "copy" /\ pull'.batch = BatchOf(box.held) /\ pull'.total = Cardinality(box.held)
    BY <1>1, <1>2 DEF PullLists, Pull
  <2>4. QED
    BY <2>2, <2>3 DEF PulledIsHome
<1>3. CASE PullCopies
  <2>1. /\ pull'.at = "delete" /\ pull'.batch = pull.batch \cap box.held /\ pull'.total = pull.total
        /\ home' = home \cup (pull.batch \cap box.held) /\ pull.at = "copy"
    BY <1>1, <1>3 DEF PullCopies, Pull
  <2>2. pull.batch \subseteq Files
    BY <1>1 DEF Pull
  <2>3. /\ Cardinality(pull.batch \cap box.held) \in 0 .. MaxOutput
        /\ Cardinality(pull.batch) \in 0 .. MaxOutput
        /\ pull.total \in 0 .. MaxOutput
    BY <1>1, <2>2, FilesCount DEF Pull
  <2>4. Cardinality(pull.batch \cap box.held) <= Cardinality(pull.batch)
    BY <2>2, FilesCount, FS_Subset
  <2>5. Cardinality(pull.batch) <= pull.total
    BY <2>1 DEF PulledIsHome
  <2>6. Cardinality(pull'.batch) <= pull'.total
    BY <2>1, <2>3, <2>4, <2>5, Constants
  <2>7. QED
    BY <2>1, <2>6 DEF PulledIsHome
<1>4. CASE pull'.at \notin {"copy", "delete"}
  BY <1>4 DEF PulledIsHome
<1>5. CASE pull' = pull
  BY <1>1, <1>5 DEF PulledIsHome
<1>6. PullLists \/ PullCopies \/ pull'.at \notin {"copy", "delete"} \/ pull' = pull
  <2>1. CASE PullDeletes \/ PullFails
    BY <2>1, RestTypes DEF PullDeletes, PullFails, NoPull
  <2>2. CASE \E p \in Passes : Pass(p)
    BY <2>2, <1>1, RestTypes
       DEF NoPull, Pass, Begin, Observe, Collect, Enforce, Enforces, Unpause, StopForBundle, GivesUp,
           Restart, Replace, Create, Park, StopPaused, StopRunning, Leave, Skip
  <2>3. CASE Add \/ Start \/ Pause \/ Remove \/ Discard \/ Refused \/ Redeploy
    BY <2>3, RestTypes DEF Add, Start, Pause, Remove, Discard, Refused, Redeploy
  <2>4. CASE Gate \/ Lift \/ FinishRole
    BY <2>4 DEF Gate, Lift, FinishRole, Scheduler
  <2>5. CASE \/ Produce \/ Finishes \/ Fails \/ Ages \/ LinkDrops \/ LinkReturns \/ Crash
             \/ UNCHANGED vars
    BY <2>5, RestTypes DEF Produce, Finishes, Fails, Worker, Ages, LinkDrops, LinkReturns, Crash, vars
  <2>6. QED
    BY <2>1, <2>2, <2>3, <2>4, <2>5 DEF Next, Transfer
<1>7. QED
  BY <1>2, <1>3, <1>4, <1>5, <1>6

\* What an old container held is in the new one, here or discarded, and what was
\* finished since is in the container.
BoxKeeps ==
  /\ 1 .. made' \subseteq (1 .. made) \cup box'.held
  /\ box.held \subseteq box'.held \cup home' \cup (IF role = "generator" THEN dropped' ELSE {})
  /\ GoneHoldsNothing'

\* What leaves a container has come here, or was discarded with a generator's.
LEMMA BoxKept ==
  ASSUME TypeOK, PulledIsHome, GoneHoldsNothing, [Next]_vars
  PROVE  BoxKeeps
<1>1. /\ box \in Box /\ pull \in Pull /\ slot \in Slot /\ role \in {"generator", "trainer"}
      /\ made \in 0 .. MaxOutput /\ MaxOutput \in Nat
  BY Constants DEF TypeOK, Box, Pull
<1>2. home \subseteq home' /\ dropped \subseteq dropped'
  BY HomeGrows
<1>3. CASE made' = made /\ box' = box
  BY <1>1, <1>3 DEF BoxKeeps, GoneHoldsNothing
<1>4. ASSUME made' = made, box'.held = box.held, box'.state # "missing" PROVE BoxKeeps
  BY <1>1, <1>4 DEF BoxKeeps, GoneHoldsNothing
<1>5. ASSUME NEW flushed \in Flush,
             \/ box' = box /\ made' = made
             \/ box' = Stopped(box, flushed) /\ made' = made + Cardinality(flushed)
      PROVE  BoxKeeps
  BY <1>1, <1>5, StopFacts DEF BoxKeeps, GoneHoldsNothing
<1>6. ASSUME NEW end \in RunEnds, Run(box, end), made' = made PROVE BoxKeeps
  BY <1>1, <1>6, RunFacts DEF BoxKeeps, GoneHoldsNothing
<1>7. CASE Produce
  <2>1. made' = made + 1 /\ box'.held = box.held \cup {made + 1} /\ box'.state = "running"
    BY <1>1, <1>7 DEF Produce, Worker, Box
  <2>2. 1 .. made' \subseteq (1 .. made) \cup {made + 1}
    BY <1>1, <2>1
  <2>3. QED
    BY <2>1, <2>2 DEF BoxKeeps, GoneHoldsNothing
<1>8. CASE Finishes
  <2>1. PICK last \in {0, 1} :
          /\ made' = made + last /\ box'.state = "stopped"
          /\ box'.held = box.held \cup (made + 1 .. made + last)
    BY <1>1, <1>8 DEF Finishes, Worker, Box
  <2>2. 1 .. made' \subseteq (1 .. made) \cup (made + 1 .. made + last)
    BY <1>1, <2>1
  <2>3. QED
    BY <2>1, <2>2 DEF BoxKeeps, GoneHoldsNothing
<1>9. CASE Fails
  BY <1>1, <1>4, <1>9 DEF Fails, Worker, Box
<1>10. CASE PullDeletes \/ PullFails
  <2>1. made' = made /\ box'.state = box.state
    BY <1>1, <1>10 DEF PullDeletes, PullFails, Pulls, outside, Box
  <2>2. \/ box' = box
        \/ /\ pull.at = "delete" /\ box'.held = box.held \ pull.batch
           /\ pull.batch \subseteq home
    BY <1>1, <1>10 DEF PullDeletes, PullFails, PulledIsHome, Box
  <2>3. QED
    BY <1>1, <1>2, <1>3, <2>1, <2>2 DEF BoxKeeps, GoneHoldsNothing
<1>11. CASE PullLists \/ PullCopies
  BY <1>3, <1>11 DEF PullLists, PullCopies, Pulls, outside
<1>12. CASE \E p \in Passes : Pass(p)
  <2>1. PICK p \in Passes : Pass(p)
    BY <1>12
  <2>2. CASE Begin(p) \/ Observe(p) \/ Collect(p) \/ GivesUp(p) \/ Leave(p) \/ Skip(p)
    BY <1>3, <2>2 DEF Begin, Observe, Collect, GivesUp, Enforces, Leave, Skip, outside
  <2>3. CASE Unpause(p) \/ Restart(p) \/ Park(p)
    <3>1. made' = made
      BY <2>3 DEF Unpause, Restart, Park
    <3>2. \/ box' = box
          \/ box' = [box EXCEPT !.state = "running"] \/ box' = [box EXCEPT !.state = "paused"]
      BY <2>3 DEF Unpause, Restart, Park, Command
    <3>3. QED
      BY <1>1, <1>3, <1>4, <3>1, <3>2 DEF Box
  <2>4. CASE StopForBundle(p) \/ StopRunning(p)
    BY <1>5, <2>4 DEF StopForBundle, StopRunning, Stop, Command
  <2>5. CASE StopPaused(p)
    BY <1>5, <2>5 DEF StopPaused, Command
  <2>6. CASE Create(p)
    BY <1>6, <2>6 DEF Create
  <2>7. CASE Replace(p)
    <3>1. CASE UNCHANGED <<box, slot, disk, why>>
      BY <1>3, <2>7, <3>1 DEF Replace
    <3>2. CASE home' = Sweep /\ \E end \in RunEnds : Run(NoBox, end)
      <4>1. GoneHoldsNothing'
        BY <3>2, RunFacts, RestTypes DEF GoneHoldsNothing
      <4>2. made' = made /\ box.held \subseteq home'
        BY <2>7, <3>2 DEF Replace, Sweep
      <4>3. QED
        BY <4>1, <4>2 DEF BoxKeeps
    <3>3. QED
      BY <2>7, <3>1, <3>2 DEF Replace
  <2>8. QED
    BY <2>1, <2>2, <2>3, <2>4, <2>5, <2>6, <2>7 DEF Pass, Enforce
<1>13. CASE Start
  <2>1. made' = made
    BY <1>13 DEF Start
  <2>2. \/ box' = box \/ box' = [box EXCEPT !.state = "running"]
        \/ \E end \in RunEnds : Run(box, end)
    BY <1>13 DEF Start, Command
  <2>3. QED
    BY <1>1, <1>3, <1>4, <1>6, <2>1, <2>2 DEF Box
<1>14. CASE Pause
  BY <1>3, <1>5, <1>14 DEF Pause, Stop, Command
<1>15. CASE Remove \/ Discard
  <2>1. made' = made
    BY <1>15 DEF Remove, Discard
  <2>2. \/ box' = box
        \/ /\ box' = NoBox
           /\ box.held \subseteq home' \/ (role # "trainer" /\ box.held \subseteq home' \cup dropped')
    BY <1>15 DEF Remove, Discard, Sweep
  <2>3. QED
    BY <1>1, <1>3, <2>1, <2>2, RestTypes DEF BoxKeeps, GoneHoldsNothing
<1>16. CASE Add \/ Refused \/ Redeploy \/ Gate \/ Lift \/ FinishRole
  BY <1>3, <1>16 DEF Add, Refused, Redeploy, Gate, Lift, FinishRole, Scheduler
<1>17. CASE Ages \/ LinkDrops \/ LinkReturns \/ Crash \/ UNCHANGED vars
  BY <1>3, <1>17 DEF Ages, LinkDrops, LinkReturns, Crash, vars, outside
<1>18. QED
  BY <1>7, <1>8, <1>9, <1>10, <1>11, <1>12, <1>13, <1>14, <1>15, <1>16, <1>17 DEF Next, Transfer

\* So no finished file is lost by any step.
LEMMA OutputStep ==
  TypeOK /\ PulledIsHome /\ GoneHoldsNothing /\ OutputKept /\ [Next]_vars
    => GoneHoldsNothing' /\ OutputKept'
<1> SUFFICES ASSUME TypeOK, PulledIsHome, GoneHoldsNothing, OutputKept, [Next]_vars
             PROVE  GoneHoldsNothing' /\ OutputKept'
  OBVIOUS
<1>1. BoxKeeps
  BY BoxKept
<1>2. home \subseteq home' /\ dropped \subseteq dropped' /\ role' = role
  BY HomeGrows
<1>3. QED
  BY <1>1, <1>2 DEF BoxKeeps, OutputKept

-----------------------------------------------------------------------------
\* Observations.

\* An observation is forgotten by the command that makes it untrue.
LEMMA CurrentStep == TypeOK /\ ProbeCurrent /\ [Next]_vars => ProbeCurrent'
<1> SUFFICES ASSUME TypeOK, ProbeCurrent, [Next]_vars PROVE ProbeCurrent'
  OBVIOUS
<1>1. box \in Box /\ slot \in Slot
  BY DEF TypeOK, Box
<1>2. CASE probe' = "unknown"
  BY <1>2 DEF ProbeCurrent
<1>3. CASE box'.state = box.state /\ (probe' = probe \/ probe' = Seen)
  BY <1>3 DEF ProbeCurrent, Seen
<1>4. CASE probe' = probe /\ box.state = "running" /\ box'.state = "stopped"
  BY <1>4 DEF ProbeCurrent
<1>5. ASSUME NEW s \in Slot, NEW o \in Looks(s), probe' = o.probe, box' = box
      PROVE  ProbeCurrent'
  BY <1>1, <1>3, <1>5, LooksFacts
<1>6. CASE Produce \/ Finishes \/ Fails
  BY <1>1, <1>3, <1>4, <1>6 DEF Produce, Finishes, Fails, Worker, Box
<1>7. CASE Transfer
  BY <1>1, <1>3, <1>7
     DEF Transfer, PullLists, PullCopies, PullDeletes, PullFails, Pulls, outside, Box
<1>8. CASE \E p \in Passes : Pass(p)
  <2>1. PICK p \in Passes : Pass(p)
    BY <1>8
  <2>2. CASE Begin(p) \/ Collect(p) \/ GivesUp(p) \/ Leave(p) \/ Skip(p)
    BY <1>3, <2>2 DEF Begin, Collect, GivesUp, Enforces, Leave, Skip, outside
  <2>3. CASE Observe(p)
    BY <1>1, <1>5, <2>3 DEF Observe
  <2>4. CASE Unpause(p) \/ StopForBundle(p) \/ Restart(p) \/ Replace(p) \/ Create(p) \/ Park(p)
             \/ StopPaused(p) \/ StopRunning(p)
    BY <1>2, <2>4 DEF Unpause, StopForBundle, Restart, Replace, Create, Park, StopPaused,
                      StopRunning, Expired
  <2>5. QED
    BY <2>1, <2>2, <2>3, <2>4 DEF Pass, Enforce
<1>9. CASE Start
  <2> DEFINE wanted == [slot EXCEPT !.desired = "running", !.finished = FALSE, !.failed = FALSE]
  <2>1. wanted \in Slot
    BY <1>1 DEF Slot
  <2>2. PICK o \in Looks(wanted) :
          \/ probe' = "unknown"
          \/ probe' = o.probe /\ box' = box
    BY <1>9 DEF Start, Expired
  <2>3. QED
    BY <1>2, <1>5, <2>1, <2>2
<1>10. CASE Pause
  <2> DEFINE unwanted == [slot EXCEPT !.desired = "paused"]
  <2>1. unwanted \in Slot
    BY <1>1 DEF Slot
  <2>2. PICK o \in Looks(unwanted) :
          \/ probe' = "unknown"
          \/ probe' = o.probe /\ box' = box
    BY <1>10 DEF Pause, Expired
  <2>3. QED
    BY <1>2, <1>5, <2>1, <2>2
<1>11. CASE Remove \/ Crash \/ Ages
  BY <1>2, <1>11 DEF Remove, Crash, Ages, Expired
<1>12. CASE Discard \/ Refused
  BY <1>1, <1>2, <1>5, <1>12 DEF Discard, Refused, Expired
<1>13. CASE Add \/ Redeploy \/ Gate \/ Lift \/ FinishRole
  BY <1>3, <1>13 DEF Add, Redeploy, Gate, Lift, FinishRole, Scheduler
<1>14. CASE LinkDrops \/ LinkReturns \/ UNCHANGED vars
  BY <1>3, <1>14 DEF LinkDrops, LinkReturns, vars
<1>15. QED
  BY <1>6, <1>7, <1>8, <1>9, <1>10, <1>11, <1>12, <1>13, <1>14 DEF Next

-----------------------------------------------------------------------------
\* Finished trainers.

\* A record of which no more is finished than was, and not wanted running if so.
LEMMA FinishedSame ==
  ASSUME TypeOK, FinishedIsOver, FinishedIsHome, role' = role, home \subseteq home', ended' = ended,
         slot'.finished => slot.finished /\ slot'.desired # "running",
         disk'.finished => disk'.desired # "running" /\ slot'.finished,
         box'.held \subseteq box.held \/ ~slot.finished \/ (box.fit /\ ~ended),
         \/ box'.fit = box.fit /\ (box'.exit # "zero" \/ box'.exit = box.exit)
         \/ ~slot.finished /\ (role = "trainer" /\ box'.exit = "zero" => ~box'.fit)
  PROVE  FinishedIsOver' /\ FinishedIsHome'
BY DEF FinishedIsOver, FinishedIsHome

\* The same after an observation, which may have found the trainer's exit.
LEMMA FinishedSeen ==
  ASSUME TypeOK, FinishedIsOver, FinishedIsHome, role' = role, ended' = ended,
         NEW s \in Slot, NEW o \in Looks(s),
         s.finished => slot.finished /\ s.desired # "running",
         slot'.finished = o.slot.finished, slot'.desired = o.slot.desired, o.home \subseteq home',
         disk'.finished => disk'.desired # "running" /\ slot'.finished,
         box'.held \subseteq box.held \/ (box.fit /\ ~ended),
         box'.fit = box.fit /\ (box'.exit # "zero" \/ box'.exit = box.exit)
  PROVE  FinishedIsOver' /\ FinishedIsHome'
<1>1. home \subseteq o.home
  BY LooksFacts
<1>2. CASE o.slot.finished = s.finished
  <2>1. slot'.finished => slot.finished /\ slot'.desired # "running"
    BY <1>2, LooksFacts
  <2>2. QED
    BY <1>1, <2>1, FinishedSame
<1>3. CASE /\ s.desired = "running" /\ o.slot.desired = "paused"
           /\ o.probe = "stopped" /\ box.exit = "zero"
           /\ role = "trainer" => box.held \subseteq o.home
  BY <1>1, <1>3 DEF FinishedIsOver, FinishedIsHome
<1>4. QED
  BY <1>2, <1>3, LooksFacts

\* A pass notes a trainer finished only after its sweep, and starts none that is.
LEMMA FinishedPass ==
  ASSUME TypeOK, FinishedIsOver, FinishedIsHome, NEW p \in Passes, Pass(p),
         home \subseteq home', role' = role
  PROVE  FinishedIsOver' /\ FinishedIsHome'
<1>1. box \in Box /\ pull \in Pull /\ slot \in Slot /\ disk \in Slot
  BY DEF TypeOK, Box, Pull
<1>2. slot.finished => slot.desired # "running"
  BY DEF FinishedIsOver
<1>3. disk.finished => disk.desired # "running" /\ slot.finished
  BY DEF FinishedIsOver
<1>4. ended' = ended
  BY DEF Pass, Begin, Observe, Collect, Enforce, Enforces, Unpause, StopForBundle, GivesUp,
         Restart, Replace, Create, Park, StopPaused, StopRunning, Leave, Skip, outside
<1>5. CASE Begin(p)
  <2>1. slot' \in {slot, ForgetEmpty(slot)} /\ disk' = slot' /\ box' = box
    BY <1>5 DEF Begin
  <2>2. slot'.finished = slot.finished /\ slot'.desired = slot.desired
    BY <1>1, <2>1, RecordTypes
  <2>3. QED
    BY <1>2, <1>4, <2>1, <2>2, FinishedSame
<1>6. CASE Observe(p)
  <2>1. PICK o \in Looks(slot) : slot' = o.slot /\ home' = o.home
    BY <1>6 DEF Observe
  <2>2. disk' = slot' /\ box' = box
    BY <1>6 DEF Observe
  <2>3. disk'.finished => disk'.desired # "running" /\ slot'.finished
    BY <1>1, <1>2, <2>1, <2>2, LooksFacts
  <2>4. QED
    BY <1>1, <1>2, <1>4, <2>1, <2>2, <2>3, FinishedSeen
<1>7. CASE Collect(p)
  <2>1. slot'.finished = slot.finished /\ slot'.desired = slot.desired
    BY <1>1, <1>7 DEF Collect, RecordPull, Slot
  <2>2. box' = box /\ disk' \in {slot', disk}
    BY <1>7 DEF Collect
  <2>3. QED
    BY <1>2, <1>3, <1>4, <2>1, <2>2, FinishedSame
<1>8. CASE Leave(p) \/ Skip(p)
  <2>1. box' = box /\ slot' = slot /\ disk' = disk
    BY <1>8 DEF Leave, Skip
  <2>2. QED
    BY <1>2, <1>3, <1>4, <2>1, FinishedSame
<1>9. CASE Unpause(p) \/ Restart(p) \/ Park(p)
  <2>1. \/ box' = box
        \/ box' = [box EXCEPT !.state = "running"] \/ box' = [box EXCEPT !.state = "paused"]
    BY <1>9 DEF Unpause, Restart, Park, Command
  <2>2. box'.held = box.held /\ box'.fit = box.fit /\ box'.exit = box.exit
    BY <1>1, <2>1 DEF Box
  <2>3. slot' = slot /\ disk' = disk
    BY <1>9 DEF Unpause, Restart, Park
  <2>4. QED
    BY <1>2, <1>3, <1>4, <2>2, <2>3, FinishedSame
<1>10. CASE StopForBundle(p) \/ StopPaused(p) \/ StopRunning(p)
  <2>1. PICK flushed \in Flush :
          \/ box' = box /\ made' = made
          \/ box' = Stopped(box, flushed) /\ made' = made + Cardinality(flushed)
    BY <1>10 DEF StopForBundle, StopPaused, StopRunning, Stop, Command
  <2>2. slot' = slot /\ disk' = disk
    BY <1>10 DEF StopForBundle, StopPaused, StopRunning
  <2>3. /\ box'.held = box.held \/ (box.fit /\ ~ended)
        /\ box'.fit = box.fit /\ (box'.exit # "zero" \/ box'.exit = box.exit)
    BY <2>1, StopFacts
  <2>4. QED
    BY <1>2, <1>3, <1>4, <2>2, <2>3, FinishedSame
<1>11. CASE GivesUp(p)
  <2>1. slot' = NoteFailed(slot) /\ disk' = slot' /\ box' = box
    BY <1>11 DEF GivesUp, Enforces
  <2>2. QED
    BY <1>1, <1>4, <2>1, RecordTypes, FinishedSame
<1>12. CASE Replace(p) \/ Create(p)
  <2>1. ~slot.finished /\ ~disk.finished
    BY <1>2, <1>3, <1>12 DEF Replace, Create, Enforces, Intent
  <2>2. CASE UNCHANGED <<box, slot, disk>>
    BY <1>4, <2>1, <2>2, FinishedSame
  <2>3. CASE \E b \in {box, NoBox} : \E end \in RunEnds :
               /\ Run(b, end)
               /\ slot' = Ran(slot, end)
               /\ disk' = IF end = "ok" THEN slot' ELSE disk
    <3>1. PICK b \in {box, NoBox}, end \in RunEnds :
            Run(b, end) /\ slot' = Ran(slot, end) /\ disk' \in {slot', disk}
      BY <2>3
    <3>2. ~slot'.finished /\ ~disk'.finished
      BY <1>1, <2>1, <3>1, RanFacts
    <3>3. box' = b \/ (role = "trainer" /\ box'.exit = "zero" => ~box'.fit)
      BY <1>1, <3>1, RunFacts, RestTypes
    <3>4. QED
      BY <1>4, <2>1, <3>1, <3>2, <3>3, RestTypes, FinishedSame
  <2>4. QED
    BY <1>12, <2>2, <2>3 DEF Replace, Create
<1>13. QED
  BY <1>5, <1>6, <1>7, <1>8, <1>9, <1>10, <1>11, <1>12 DEF Pass, Enforce

\* A command that starts a finished trainer unnotes it.
LEMMA FinishedCommand ==
  ASSUME TypeOK, FinishedIsOver, FinishedIsHome, home \subseteq home', role' = role,
         \/ Add \/ Start \/ Pause \/ Remove \/ Discard \/ Refused \/ Redeploy
         \/ Gate \/ Lift \/ FinishRole
  PROVE  FinishedIsOver' /\ FinishedIsHome'
<1>1. box \in Box /\ slot \in Slot /\ disk \in Slot
  BY DEF TypeOK, Box
<1>2. slot.finished => slot.desired # "running"
  BY DEF FinishedIsOver
<1>3. disk.finished => disk.desired # "running" /\ slot.finished
  BY DEF FinishedIsOver
<1>4. ended' = ended
  BY DEF Add, Start, Pause, Remove, Discard, Refused, Redeploy, Gate, Lift, FinishRole,
         Commands, Scheduler
<1>5. CASE Add
  <2>1. slot' = NewSlot /\ disk' = NewSlot /\ box' = box
    BY <1>5 DEF Add
  <2>2. QED
    BY <1>4, <2>1, RestTypes, FinishedSame
<1>6. CASE Remove
  <2>1. slot' = NoSlot /\ disk' = NoSlot /\ box' \in {box, NoBox}
    BY <1>6 DEF Remove
  <2>2. ~slot'.finished /\ ~disk'.finished
    BY <2>1, RestTypes
  <2>3. CASE box' = box
    BY <1>4, <2>2, <2>3, FinishedSame
  <2>4. CASE box' = NoBox
    BY <2>2, <2>4, RestTypes DEF FinishedIsOver, FinishedIsHome
  <2>5. QED
    BY <2>1, <2>3, <2>4
<1>7. CASE Redeploy \/ Gate \/ Lift
  <2>1. slot' = slot /\ disk' = disk /\ box' = box
    BY <1>7 DEF Redeploy, Gate, Lift, Scheduler
  <2>2. QED
    BY <1>2, <1>3, <1>4, <2>1, FinishedSame
<1>8. CASE FinishRole
  <2>1. slot' = NoteFinished(slot) /\ disk' = slot' /\ role = "generator"
    BY <1>8 DEF FinishRole
  <2>2. slot'.desired # "running"
    BY <1>1, <2>1, RecordTypes
  <2>3. QED
    BY <2>1, <2>2 DEF FinishedIsOver, FinishedIsHome
<1>9. CASE Discard
  <2>1. PICK o \in Looks(slot) : slot' = [o.slot EXCEPT !.launched = FALSE]
    BY <1>9 DEF Discard
  <2>2. slot'.finished = o.slot.finished /\ slot'.desired = o.slot.desired
    BY <1>1, <2>1, LooksFacts DEF Slot
  <2>3. slot'.finished => slot'.desired # "running"
    BY <1>1, <1>2, <2>2, LooksFacts
  <2>4. disk' = slot' /\ role = "generator"
    BY <1>9 DEF Discard
  <2>5. QED
    BY <2>3, <2>4 DEF FinishedIsOver, FinishedIsHome
<1>10. CASE Refused
  <2>1. PICK o \in Looks(slot) :
          slot' = o.slot /\ home' \in {o.home, Sweep}
    BY <1>10 DEF Refused
  <2>2. box' = box /\ disk' = disk
    BY <1>10 DEF Refused
  <2>3. slot'.finished => slot'.desired # "running"
    BY <1>1, <1>2, <2>1, LooksFacts
  <2>4. slot.finished => slot'.finished
    BY <1>1, <1>2, <2>1, LooksFacts
  <2>5. o.home \subseteq home'
    BY <1>1, <2>1, LooksFacts DEF Sweep
  <2>6. QED
    BY <1>1, <1>2, <1>3, <1>4, <2>1, <2>2, <2>4, <2>5, FinishedSeen
<1>11. CASE Pause
  <2> DEFINE unwanted == [slot EXCEPT !.desired = "paused"]
  <2>1. unwanted \in Slot /\ unwanted.desired = "paused" /\ unwanted.finished = slot.finished
    BY <1>1 DEF Slot
  <2>2. PICK o \in Looks(unwanted) :
          /\ slot' = o.slot
          /\ disk' = unwanted
          /\ home' = o.home
          /\ \/ box' = box
             \/ \E flushed \in Flush : Stop(box, flushed)
    BY <1>11 DEF Pause
  <2> HIDE DEF unwanted
  <2>3. o.slot.finished = slot.finished
    BY <2>1, LooksFacts
  <2>4. /\ box'.held = box.held \/ (box.fit /\ ~ended)
        /\ box'.fit = box.fit /\ (box'.exit # "zero" \/ box'.exit = box.exit)
    BY <2>2, StopFacts DEF Stop, Command
  <2>5. QED
    BY <1>4, <2>1, <2>2, <2>3, <2>4, FinishedSeen
<1>12. CASE Start
  <2> DEFINE wanted == [slot EXCEPT !.desired = "running", !.finished = FALSE, !.failed = FALSE]
  <2>1. wanted \in Slot /\ ~wanted.finished
    BY <1>1 DEF Slot
  <2>2. PICK o \in Looks(wanted) :
          /\ home' = o.home
          /\ IF ~gated /\ Probe(o) = "missing"
             THEN \E end \in RunEnds :
                    /\ Run(box, end)
                    /\ slot' = Ran(o.slot, end)
                    /\ disk' = IF end = "ok" THEN slot' ELSE wanted
             ELSE /\ box' = box \/ box' = [box EXCEPT !.state = "running"]
                  /\ slot' = o.slot
                  /\ disk' = wanted
    BY <1>12 DEF Start, Command
  <2> HIDE DEF wanted
  <2>3. CASE ~gated /\ Probe(o) = "missing"
    <3>1. ~o.slot.finished /\ o.slot \in Slot
      BY <2>1, <2>3, LooksFacts DEF Probe
    <3>2. PICK end \in RunEnds :
            Run(box, end) /\ slot' = Ran(o.slot, end) /\ disk' \in {slot', wanted}
      BY <2>2, <2>3
    <3>3. ~slot'.finished /\ ~disk'.finished
      BY <2>1, <3>1, <3>2, RanFacts
    <3>4. box' = box \/ (role = "trainer" /\ box'.exit = "zero" => ~box'.fit)
      BY <1>1, <3>2, RunFacts
    <3>5. QED
      BY <1>4, <3>3, <3>4 DEF FinishedIsOver, FinishedIsHome
  <2>4. CASE ~(~gated /\ Probe(o) = "missing")
    <3>1. box'.held = box.held /\ box'.fit = box.fit /\ box'.exit = box.exit
      BY <1>1, <2>2, <2>4 DEF Box
    <3>2. slot' = o.slot /\ ~disk'.finished
      BY <2>1, <2>2, <2>4
    <3>3. QED
      BY <1>4, <2>1, <2>2, <3>1, <3>2, FinishedSeen
  <2>5. QED
    BY <2>3, <2>4
<1>13. QED
  BY <1>5, <1>6, <1>7, <1>8, <1>9, <1>10, <1>11, <1>12

\* Every step keeps what is known of finished trainers.
LEMMA FinishedStep ==
  TypeOK /\ FinishedIsOver /\ FinishedIsHome /\ [Next]_vars => FinishedIsOver' /\ FinishedIsHome'
<1> SUFFICES ASSUME TypeOK, FinishedIsOver, FinishedIsHome, [Next]_vars
             PROVE  FinishedIsOver' /\ FinishedIsHome'
  OBVIOUS
<1>1. home \subseteq home' /\ role' = role
  BY HomeGrows
<1>2. box \in Box /\ made \in 0 .. MaxOutput /\ MaxOutput \in Nat
  BY Constants DEF TypeOK, Box
<1>3. slot.finished => slot.desired # "running"
  BY DEF FinishedIsOver
<1>4. disk.finished => disk.desired # "running" /\ slot.finished
  BY DEF FinishedIsOver
<1>5. CASE Produce
  <2>1. /\ box'.fit = box.fit /\ box'.exit = box.exit /\ box.fit /\ ~ended
        /\ slot' = slot /\ disk' = disk /\ ended' = ended
    BY <1>2, <1>5 DEF Produce, Worker, Box
  <2>2. QED
    BY <1>1, <1>3, <1>4, <2>1, FinishedSame
<1>6. CASE Finishes
  <2>1. PICK last \in {0, 1} :
          /\ last = 1 => ~ended
          /\ box' = [box EXCEPT !.state = "stopped", !.exit = "zero",
                                !.held = @ \cup (made + 1 .. made + last)]
    BY <1>6 DEF Finishes, Worker
  <2>2. ended' = (role = "trainer") /\ slot' = slot /\ disk' = disk /\ box.fit
    BY <1>6 DEF Finishes, Worker
  <2>3. box'.held = box.held \/ ~ended
    <3>1. CASE last = 0
      <4>1. made + 1 .. made + last = {}
        BY <1>2, <3>1
      <4>2. QED
        BY <1>2, <2>1, <4>1 DEF Box
    <3>2. QED
      BY <2>1, <3>1
  <2>4. QED
    BY <1>1, <2>2, <2>3 DEF FinishedIsOver, FinishedIsHome
<1>7. CASE Fails
  <2>1. /\ box'.held = box.held /\ box'.fit = box.fit /\ box'.exit # "zero"
        /\ slot' = slot /\ disk' = disk /\ ended' = ended
    BY <1>2, <1>7 DEF Fails, Worker, Box
  <2>2. QED
    BY <1>1, <1>3, <1>4, <2>1, FinishedSame
<1>8. CASE Transfer
  <2>1. box' = box \/ box' = [box EXCEPT !.held = @ \ pull.batch]
    BY <1>8 DEF Transfer, PullLists, PullCopies, PullDeletes, PullFails
  <2>2. box'.held \subseteq box.held /\ box'.fit = box.fit /\ box'.exit = box.exit
    BY <1>2, <2>1 DEF Box
  <2>3. slot' = slot /\ disk' = disk /\ ended' = ended
    BY <1>8 DEF Transfer, PullLists, PullCopies, PullDeletes, PullFails, Pulls, outside
  <2>4. QED
    BY <1>1, <1>3, <1>4, <2>2, <2>3, FinishedSame
<1>9. CASE Crash
  <2>1. slot' = disk /\ disk' = disk /\ box' = box /\ ended' = ended
    BY <1>9 DEF Crash
  <2>2. QED
    BY <1>1, <1>3, <1>4, <2>1, FinishedSame
<1>10. CASE Ages \/ LinkDrops \/ LinkReturns \/ UNCHANGED vars
  <2>1. slot' = slot /\ disk' = disk /\ box' = box /\ ended' = ended
    BY <1>10 DEF Ages, LinkDrops, LinkReturns, vars, outside
  <2>2. QED
    BY <1>1, <1>3, <1>4, <2>1, FinishedSame
<1>11. QED
  BY <1>1, <1>5, <1>6, <1>7, <1>8, <1>9, <1>10, FinishedPass, FinishedCommand DEF Next

-----------------------------------------------------------------------------
\* The invariant, and what follows.

\* The invariant holds at first.
LEMMA SlotInit == Init => SlotInv
<1> SUFFICES ASSUME Init PROVE SlotInv
  OBVIOUS
<1>1. TypeOK
  BY TypeInit
<1>2. box = NoBox /\ pull = NoPull /\ slot = NewSlot /\ disk = NewSlot /\ probe = "unknown" /\ made = 0
  BY DEF Init
<1>3. 1 .. made = {}
  BY <1>2
<1>4. QED
  BY <1>1, <1>2, <1>3, RestTypes
     DEF SlotInv, PulledIsHome, GoneHoldsNothing, FinishedIsOver, OutputKept, ProbeCurrent,
         FinishedIsHome

\* Every step keeps the invariant.
LEMMA SlotStep == SlotInv /\ [Next]_vars => SlotInv'
BY TypeStep, PullStep, OutputStep, CurrentStep, FinishedStep DEF SlotInv

\* The invariant that couples container, pull, record, disk and observation is
\* inductive, whatever passes, commands, transfers and faults do to one ssh slot.
THEOREM SlotInvariant == Spec => []SlotInv
BY SlotInit, SlotStep, PTL DEF Spec

\* No finished file is ever lost between a container, the transfer thread's pulls,
\* replacements, restarts and removals (pull_results, _sweep_ssh, _remove_container).
THEOREM OutputNeverLost == Spec => []OutputKept
<1>1. SlotInv => OutputKept
  BY DEF SlotInv
<1>2. QED
  BY <1>1, SlotInvariant, PTL

\* What a pass may still act on is true of the container, although commands and
\* another pass act between its look and its step (_expire_probe).
THEOREM ObservationsCurrent == Spec => []ProbeCurrent
<1>1. SlotInv => ProbeCurrent
  BY DEF SlotInv
<1>2. QED
  BY <1>1, SlotInvariant, PTL

\* A trainer noted finished has its last output here (_final_flush_collected).
THEOREM FinishedDelivered == Spec => []FinishedIsHome
<1>1. SlotInv => FinishedIsHome
  BY DEF SlotInv
<1>2. QED
  BY <1>1, SlotInvariant, PTL
=============================================================================
