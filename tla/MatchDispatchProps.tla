-------------------------- MODULE MatchDispatchProps --------------------------
(* What match evaluation promises.                                           *)
EXTENDS MatchDispatch

\* The types of the state.
TypeOK ==
  /\ made \in 0 .. MaxGen /\ sent \in 0 .. MaxGen /\ cursor \in 0 .. MaxGen
  /\ outbox \subseteq Gens /\ pairs \subseteq 1 .. MaxGen /\ exported \subseteq Gens
  /\ trained \in BOOLEAN /\ up \in BOOLEAN /\ finished \in BOOLEAN
  /\ inbox \subseteq Gens /\ marks \subseteq Gens
  /\ recorded \subseteq Gens /\ quarantined \subseteq Gens
  /\ out \in [Gens -> Result] /\ here \in [Gens -> Result]
  /\ worker \in [at : {"poll", "play", "mark"}, gen : Nat]
  /\ worker.at # "poll" => worker.gen \in Gens
  /\ pull \in [at : {"none", "copy", "delete"}, batch : SUBSET Gens]
  /\ tick \in [at : {"none", "ingest", "unlink", "list", "clear", "owe"}, offered : BOOLEAN,
              files : SUBSET Gens, gen : Nat, spent : SUBSET Gens, busy : BOOLEAN]
  /\ tick.at \in {"unlink", "list", "clear"} => tick.gen \in Gens
  /\ faults \in 0 .. MaxFaults

\* Results on their way: delivered, and neither recorded nor quarantined.
InTransit == Waiting(out) \cup Waiting(here)

\* A played model whose match is not accounted for has its result somewhere: in
\* the container or here.  Without it the mark would hold the slot busy for good
\* (dispatch.py's _spent_marks; a result is pulled, deleted, ingested and unlinked
\* by steps that may each fail).
MarkHasResult == \A g \in marks \ Settled : g \in InTransit

\* A generation is never assigned while its result is in transit: the inbox is the
\* ledger of assignments, and a collection may lag for many passes (dispatch.py's
\* header; test_a_played_generation_holds_the_slot_until_its_result_is_recorded).
\* A generation once quarantined is out of its reach: its old .bad file makes every
\* later mark spent.
NoReplayInTransit ==
  [][\A g \in inbox' \ inbox : g \notin quarantined => g \notin InTransit]_vars

\* The generations whose match the training owes.
Due == {g \in Gens : Every > 0 /\ g % Every = 0}

\* The match slot is finished only once every due generation of the whole training
\* has its row (_outstanding, _dispatch_role): the last exports included, which the
\* trainer's final sweep brings, though its cursor here may stay short.
FinishedMeansAllMatched == finished => Due \subseteq recorded

\* Every due generation is matched in the end, whatever is interrupted, and the slot
\* that played them is finished, so that an idle worker does not hold its machine.
AllMatched == <>[](finished /\ FinishedMeansAllMatched)
=============================================================================
