---------------------------- MODULE MatchDispatch ----------------------------
(***************************************************************************)
(* Match evaluation: the controller assigns the exported generations that  *)
(* are due a match to the match slot, one at a time, and records what the  *)
(* slot's worker delivers (match_eval/dispatch.py, match_eval/runner.py).  *)
(*                                                                         *)
(* The slot is a container on another machine, reached by lists, puts and  *)
(* removes that may each fail (dashboard/slot_files.py).  Its results come *)
(* home by the slot's collection, which runs on a thread of its own, while *)
(* the worker plays and the pass ticks.                                    *)
(*                                                                         *)
(* The trainer writes each export where a collection of its own takes it,  *)
(* and queues the state pair for its delivery thread.  A trainer on this   *)
(* machine does the same without the way: what it writes is here at once.  *)
(***************************************************************************)
EXTENDS Integers, FiniteSets

CONSTANTS
  MaxGen,     \* generations the training makes
  Every,      \* match_every_generations; 0 disables matches
  Faults,     \* what goes wrong, of the list below
  MaxFaults   \* how many times

\* link: a remote command of the tick, or the collection, fails.
\* worker: the container stops.  replace: it is swept and replaced.
\* lost: it is gone with all it held.  dashboard: the dashboard restarts.
\* bad: the delivered result is one ingest cannot read.
\* trainer: the trainer is interrupted with pairs not delivered.
\* home: its home is lost, and a new one takes up the state here.
FaultKinds == {"link", "worker", "replace", "lost", "dashboard", "bad", "trainer", "home"}

ASSUME MatchAssumption ==
  /\ {MaxGen, Every, MaxFaults} \subseteq Nat
  /\ Faults \subseteq FaultKinds

VARIABLES
  made,        \* generations the trainer has saved: its own generation_index
  sent,        \* those below it have left its queue of deliveries
  outbox,      \* exports at the trainer awaiting collection
  pairs,       \* the cursor of the pair delivered there and not installed here, if any
  exported,    \* generations whose export is in models/ here
  cursor,      \* the controller's copy of generation_index
  trained,     \* whether the trainer's slot is finished
  up,          \* whether the match slot's container runs
  inbox,       \* the models in its inbox the worker has not marked
  marks,       \* those it has marked played
  out,         \* per generation, the result in the container awaiting collection
  worker,      \* the worker: polling, or playing a generation, or about to mark it
  here,        \* per generation, the delivered result here awaiting ingest
  recorded,    \* generations with a row in the database
  quarantined, \* generations with a .bad file
  finished,    \* whether the match slot is finished
  pull,        \* the slot's collection
  tick,        \* the dispatch tick
  faults       \* faults so far

training == <<made, sent, outbox, pairs, exported, cursor, trained>>
box == <<up, inbox, marks, out, worker>>
matching == <<box, here, recorded, quarantined, finished, pull, tick>>
vars == <<training, matching, faults>>

Gens == 0 .. MaxGen - 1
Result == {"none", "good", "bad"}
NoResults == [g \in Gens |-> "none"]
Waiting(results) == {g \in Gens : results[g] # "none"}

\* Files of one generation share a name: an arriving one takes the place of the
\* one that is there.
Over(results, arriving) ==
  [g \in Gens |-> IF arriving[g] # "none" THEN arriving[g] ELSE results[g]]

\* The last, and the first, of a set of generations, if it has any.
Newest(S) == {g \in S : \A h \in S : h <= g}
Oldest(S) == {g \in S : \A h \in S : g <= h}

Polling == [at |-> "poll", gen |-> 0]
NoPull == [at |-> "none", batch |-> {}]
NoTick == [at |-> "none", offered |-> FALSE, files |-> {}, gen |-> 0, spent |-> {}, busy |-> FALSE]

Fault(kind) == kind \in Faults /\ faults < MaxFaults /\ faults' = faults + 1

-----------------------------------------------------------------------------
\* The rules of the tick.

\* pending_generation's candidates.
Pending == {g \in exported : Every > 0 /\ g % Every = 0 /\ g \notin recorded}

\* Mutant: a quarantined generation keeps its mark.
SettledByRow == recorded

\* The generations accounted for.
Settled == recorded \cup quarantined

\* Mutant: every mark is spent.
AllSpent == marks

SpentMarks == marks \cap Settled

\* _outstanding.  The exports are compared with the cursor by their last only.
Outstanding ==
  Every > 0 /\ (Pending # {} \/ (cursor > 0 /\ \A g \in exported : g < cursor - 1))

-----------------------------------------------------------------------------
\* The training, as far as its generations come here.

\* The export is written in place, where the collection finds it; then checkpoint and
\* cursor are saved, and the delivery is queued.
Save ==
  /\ made < MaxGen /\ made' = made + 1
  /\ outbox' = outbox \cup {made}
  /\ UNCHANGED <<sent, pairs, exported, cursor, trained, matching, faults>>

\* The delivery thread, in the order of submission: it finds the export in place and
\* delivers the pair, which takes the place of older ones.
Send ==
  /\ sent < made /\ sent \in outbox
  /\ sent' = sent + 1 /\ pairs' = {sent + 1}
  /\ UNCHANGED <<made, outbox, exported, cursor, trained, matching, faults>>

\* It finds the export gone, collected since: deliver_output's assertion ends the
\* thread, then the runner.  The next runner resumes past what was queued.
SendFails ==
  /\ sent < made /\ sent \notin outbox
  /\ sent' = made
  /\ UNCHANGED <<made, outbox, pairs, exported, cursor, trained, matching, faults>>

\* Collected is moved.  A listing is sorted by path: exports by generation, and before
\* the pairs.
Collect ==
  /\ \E g \in Oldest(outbox) : outbox' = outbox \ {g} /\ exported' = exported \cup {g}
  /\ UNCHANGED <<made, sent, pairs, cursor, trained, matching, faults>>

\* A pair comes with the exports up to its own, and is installed if it is newer.
Install ==
  /\ \E c \in pairs :
       /\ \A g \in outbox : g >= c
       /\ cursor' = IF c > cursor THEN c ELSE cursor
       /\ pairs' = {}
  /\ UNCHANGED <<made, sent, outbox, exported, trained, matching, faults>>

\* Mutant: a trainer's exit is noted without the last sweep.
NotedUnswept ==
  /\ made = MaxGen /\ sent = made /\ ~trained /\ trained' = TRUE
  /\ UNCHANGED <<made, sent, outbox, pairs, exported, cursor, matching, faults>>

\* At max_rows the trainer drains its queue and exits 0; a sweep brings what is left
\* of its output, and with it the slot is finished (_final_flush_collected).
TrainerFinishes ==
  /\ made = MaxGen /\ sent = made /\ ~trained
  /\ trained' = TRUE
  /\ exported' = exported \cup outbox /\ outbox' = {}
  /\ cursor' \in Newest(pairs \cup {cursor}) /\ pairs' = {}
  /\ UNCHANGED <<made, sent, matching, faults>>

\* The trainer is interrupted.  Started again it resumes from its own cursor, past
\* the generations whose pairs it had not delivered.
Interrupt ==
  /\ sent < made /\ Fault("trainer")
  /\ sent' = made
  /\ UNCHANGED <<made, outbox, pairs, exported, cursor, trained, matching>>

\* Its home is lost with what it held.  The next one resumes from the pair here, and
\* makes the later generations again.
LoseHome ==
  /\ ~trained /\ Fault("home")
  /\ made' = cursor /\ sent' = cursor /\ outbox' = {} /\ pairs' = {}
  /\ UNCHANGED <<exported, cursor, trained, matching>>

-----------------------------------------------------------------------------
\* The worker.

Play ==
  /\ up /\ worker.at = "poll"
  /\ \E g \in Newest(inbox) : worker' = [at |-> "play", gen |-> g]
  /\ UNCHANGED <<training, up, inbox, marks, out, here, recorded, quarantined, finished, pull, tick,
                 faults>>

Deliver ==
  /\ up /\ worker.at = "play"
  /\ \/ out' = [out EXCEPT ![worker.gen] = "good"] /\ UNCHANGED faults
     \/ out' = [out EXCEPT ![worker.gen] = "bad"] /\ Fault("bad")
  /\ worker' = [worker EXCEPT !.at = "mark"]
  /\ UNCHANGED <<training, up, inbox, marks, here, recorded, quarantined, finished, pull, tick>>

Mark ==
  /\ up /\ worker.at = "mark"
  /\ inbox' = inbox \ {worker.gen} /\ marks' = marks \cup {worker.gen}
  /\ worker' = Polling
  /\ UNCHANGED <<training, up, out, here, recorded, quarantined, finished, pull, tick, faults>>

-----------------------------------------------------------------------------
\* The slot's collection: copy the results home, then delete them there.

\* Mutant: a failed unpacking goes unnoticed, and the originals are deleted.
CopiesNothing == here

\* What is here once the container's results have been taken.
Taken == Over(here, out)

PullCopies ==
  /\ up /\ pull.at = "copy"
  /\ here' = Taken
  /\ pull' = [at |-> "delete", batch |-> Waiting(out)]
  /\ UNCHANGED <<training, box, recorded, quarantined, finished, tick, faults>>

\* By name: a result delivered since under the same name goes too.
PullDeletes ==
  /\ up /\ pull.at = "delete"
  /\ out' = [g \in Gens |-> IF g \in pull.batch THEN "none" ELSE out[g]]
  /\ pull' = NoPull
  /\ UNCHANGED <<training, up, inbox, marks, worker, here, recorded, quarantined, finished, tick,
                 faults>>

PullFails ==
  /\ pull # NoPull /\ pull' = NoPull
  /\ IF up THEN Fault("link") ELSE UNCHANGED faults
  /\ UNCHANGED <<training, box, here, recorded, quarantined, finished, tick>>

-----------------------------------------------------------------------------
\* The tick.

\* One pass: start the running slot's next collection, then the tick, which has
\* nothing to do with neither a slot nor a result.  Only a running slot is offered.
Begin ==
  /\ tick.at = "none"
  /\ up \/ Waiting(here) # {}
  /\ pull' = IF up /\ pull = NoPull THEN [NoPull EXCEPT !.at = "copy"] ELSE pull
  /\ tick' = [NoTick EXCEPT !.at = "ingest", !.offered = up, !.files = Waiting(here)]
  /\ UNCHANGED <<training, box, here, recorded, quarantined, finished, faults>>

\* _ingest_result: a row, or else the quarantine.
IngestFile(g) ==
  IF here[g] = "bad"
    THEN /\ quarantined' = quarantined \cup {g}
         /\ here' = [here EXCEPT ![g] = "none"]
         /\ tick' = [tick EXCEPT !.files = @ \ {g}]
         /\ UNCHANGED recorded
    ELSE /\ recorded' = recorded \cup {g}
         /\ tick' = [tick EXCEPT !.at = "unlink", !.gen = g]
         /\ UNCHANGED <<quarantined, here>>

\* The oldest file left of those listed.
Ingest ==
  /\ tick.at = "ingest"
  /\ \E g \in Oldest(tick.files) : IngestFile(g)
  /\ UNCHANGED <<training, box, finished, pull, faults>>

Unlink ==
  /\ tick.at = "unlink"
  /\ here' = [here EXCEPT ![tick.gen] = "none"]
  /\ tick' = [tick EXCEPT !.at = "ingest", !.files = @ \ {tick.gen}, !.gen = 0]
  /\ UNCHANGED <<training, box, recorded, quarantined, finished, pull, faults>>

\* _assign, up to the listing: the newest generation due a match.
Choose ==
  /\ tick.at = "ingest" /\ tick.files = {}
  /\ IF tick.offered /\ Pending # {}
       THEN \E g \in Newest(Pending) : tick' = [tick EXCEPT !.at = "list", !.gen = g]
       ELSE tick' = [NoTick EXCEPT !.at = "owe"]
  /\ UNCHANGED <<training, box, here, recorded, quarantined, finished, pull, faults>>

List ==
  /\ up /\ tick.at = "list"
  /\ tick' = [tick EXCEPT !.at = "clear", !.spent = SpentMarks,
                          !.busy = inbox \cup (marks \ SpentMarks) # {}]
  /\ UNCHANGED <<training, box, here, recorded, quarantined, finished, pull, faults>>

Clear ==
  /\ up /\ tick.at = "clear"
  /\ \E g \in Oldest(tick.spent) :
       marks' = marks \ {g} /\ tick' = [tick EXCEPT !.spent = @ \ {g}]
  /\ UNCHANGED <<training, up, inbox, out, worker, here, recorded, quarantined, finished, pull, faults>>

\* The sidecars and a pair's step graph go first; the worker polls for the model.
Put ==
  /\ up /\ tick.at = "clear" /\ tick.spent = {} /\ ~tick.busy
  /\ inbox' = inbox \cup {tick.gen}
  /\ tick' = [NoTick EXCEPT !.at = "owe"]
  /\ UNCHANGED <<training, up, marks, out, worker, here, recorded, quarantined, finished, pull, faults>>

Busy ==
  /\ tick.at = "clear" /\ tick.spent = {} /\ tick.busy
  /\ tick' = [NoTick EXCEPT !.at = "owe"]
  /\ UNCHANGED <<training, box, here, recorded, quarantined, finished, pull, faults>>

\* _dispatch_role, from the tick's answer on: with the trainer finished and nothing
\* outstanding the slot is finished.
Finish ==
  /\ tick.at = "owe"
  /\ finished' = (finished \/ (~Outstanding /\ trained))
  /\ tick' = NoTick
  /\ UNCHANGED <<training, box, here, recorded, quarantined, pull, faults>>

\* A remote command fails, or finds no running container: the rest of this pass's
\* tick is given up.
TickFails ==
  /\ tick.at \in {"list", "clear"}
  /\ IF up THEN Fault("link") ELSE UNCHANGED faults
  /\ tick' = NoTick
  /\ UNCHANGED <<training, box, here, recorded, quarantined, finished, pull>>

-----------------------------------------------------------------------------
\* The container and the dashboard.

\* The worker is interrupted, or the finished slot is stopped.
Stop ==
  /\ up /\ up' = FALSE
  /\ IF finished THEN UNCHANGED faults ELSE Fault("worker")
  /\ worker' = Polling
  /\ UNCHANGED <<training, inbox, marks, out, here, recorded, quarantined, finished, pull, tick>>

\* Enforcement starts an unfinished slot's stopped container, in a pass's step
\* before the tick.
Start ==
  /\ ~up /\ ~finished /\ tick.at = "none"
  /\ up' = TRUE
  /\ UNCHANGED <<training, inbox, marks, out, worker, here, recorded, quarantined, finished, pull,
                 tick, faults>>

Fresh == inbox' = {} /\ marks' = {} /\ out' = NoResults

\* _start_or_replace: swept, removed, and created anew.
Replace ==
  /\ ~up /\ ~finished /\ tick.at = "none" /\ pull = NoPull
  /\ Fault("replace")
  /\ here' = Taken
  /\ Fresh
  /\ up' = TRUE
  /\ UNCHANGED <<training, worker, recorded, quarantined, finished, pull, tick>>

\* The container is gone; its slot starts a new one.
Lose ==
  /\ Fault("lost")
  /\ Fresh
  /\ up' = FALSE /\ worker' = Polling
  /\ UNCHANGED <<training, here, recorded, quarantined, finished, pull, tick>>

\* The dashboard restarts; the container runs on.
Crash ==
  /\ Fault("dashboard")
  /\ tick' = NoTick /\ pull' = NoPull
  /\ UNCHANGED <<training, box, here, recorded, quarantined, finished>>

-----------------------------------------------------------------------------
Init ==
  /\ made = 0 /\ sent = 0 /\ outbox = {} /\ pairs = {}
  /\ exported = {} /\ cursor = 0 /\ trained = FALSE
  /\ up = TRUE /\ inbox = {} /\ marks = {} /\ out = NoResults /\ worker = Polling
  /\ here = NoResults /\ recorded = {} /\ quarantined = {}
  /\ finished = FALSE
  /\ pull = NoPull /\ tick = NoTick
  /\ faults = 0

Tick == Begin \/ Ingest \/ Unlink \/ Choose \/ List \/ Clear \/ Put \/ Busy \/ Finish \/ TickFails
Transfer == PullCopies \/ PullDeletes \/ PullFails
Train == Save \/ Send \/ SendFails \/ Collect \/ Install \/ TrainerFinishes
Work == Play \/ Deliver \/ Mark

Next ==
  \/ Tick \/ Transfer \/ Train \/ Interrupt \/ LoseHome
  \/ Work \/ Stop \/ Start \/ Replace \/ Lose \/ Crash

Spec == Init /\ [][Next]_vars

\* The dashboard keeps passing, the slot's worker and its collection keep working,
\* the trainer trains and delivers, and what it delivered is collected.
FairSpec ==
  /\ Spec
  /\ WF_vars(Tick) /\ WF_vars(Transfer) /\ WF_vars(Start)
  /\ WF_vars(Train) /\ WF_vars(Work)
=============================================================================
