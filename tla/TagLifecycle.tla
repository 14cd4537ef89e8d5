---------------------------- MODULE TagLifecycle ----------------------------
(***************************************************************************)
(* What the tag queue promises about each tag, leaving out how: a tag is   *)
(* idle, waits in the queue, or is on exactly one machine, where it runs,  *)
(* is held after a failure, or is being taken off.  It leaves the queue's  *)
(* hands only when it is done or failed, or by the operator's Dequeue or   *)
(* Delete; a tag that is to run again always ends up queued.               *)
(***************************************************************************)
CONSTANTS Tags, Machines, NoMachine

VARIABLES created,   \* the tags that have a task record
          life,      \* the state of each tag
          on         \* the machine it is on

vars == <<created, life, on>>

Idle == {"idle", "queued"}
OnMachine == {"placed", "held", "ending", "returning"}

TypeOK ==
  /\ created \subseteq Tags
  /\ life \in [Tags -> Idle \cup OnMachine]
  /\ on \in [Tags -> Machines \cup {NoMachine}]

Init ==
  /\ created = Tags
  /\ life = [t \in Tags |-> "idle"]
  /\ on = [t \in Tags |-> NoMachine]

Become(t, state) == life' = [life EXCEPT ![t] = state] /\ UNCHANGED created

Create(t) == created' = created \cup {t} /\ UNCHANGED <<life, on>>

Delete(t) == created' = created \ {t} /\ UNCHANGED <<life, on>>

Enqueue(t) ==
  /\ t \in created
  /\ life[t] = "idle"
  /\ Become(t, "queued")
  /\ UNCHANGED on

\* Dequeued, or dropped with its deleted task.
Leave(t) ==
  /\ life[t] = "queued"
  /\ Become(t, "idle")
  /\ UNCHANGED on

\* Placed on a machine no other tag is on.
Place(t, m) ==
  /\ life[t] = "queued"
  /\ \A u \in Tags : on[u] # m
  /\ Become(t, "placed")
  /\ on' = [on EXCEPT ![t] = m]

Hold(t) ==
  /\ life[t] = "placed"
  /\ Become(t, "held")
  /\ UNCHANGED on

\* Taken off its machine for good, or to run again.
End(t) ==
  /\ life[t] \in {"placed", "held"}
  /\ Become(t, "ending")
  /\ UNCHANGED on

Return(t) ==
  /\ life[t] \in {"placed", "held"}
  /\ Become(t, "returning")
  /\ UNCHANGED on

\* Off its machine: drained, or the machine is lost.
Off(t) ==
  /\ life[t] \in OnMachine
  /\ Become(t, IF life[t] \in {"placed", "returning"} THEN "queued" ELSE "idle")
  /\ on' = [on EXCEPT ![t] = NoMachine]

\* Its task is gone: nothing is left to run.
Abandon(t) ==
  /\ t \notin created
  /\ life[t] \in OnMachine
  /\ Become(t, "idle")
  /\ on' = [on EXCEPT ![t] = NoMachine]

Next ==
  \E t \in Tags :
    \/ Create(t) \/ Delete(t) \/ Enqueue(t) \/ Leave(t) \/ Hold(t)
    \/ End(t) \/ Return(t) \/ Off(t) \/ Abandon(t)
    \/ \E m \in Machines : Place(t, m)

Spec == Init /\ [][Next]_vars
=============================================================================
