--------------------------- MODULE GenerationFlow ---------------------------
(***************************************************************************)
(* What the data plane promises, leaving out files, ledger, threads and    *)
(* restarts: generations open one at a time and in order, at most          *)
(* OpenAhead ahead of the trainer; a chunk is used once, for one           *)
(* generation or the held-out set, or is dropped; a generation closes when *)
(* it is full; the trainer trains each once, in order; and what it evicts  *)
(* is behind the window.                                                   *)
(***************************************************************************)
EXTENDS Integers, FiniteSets

CONSTANTS Chunks, Target, OpenAhead, Window, Last

Held == -1
Gens == 0 .. Last + OpenAhead
Dirs == Gens \cup {Held}

VARIABLES used,      \* the chunks used or dropped
          content,   \* the chunks of each generation and of the held-out set
          phase,     \* none, open, complete or evicted
          cursor     \* the generation the trainer trains next

vars == <<used, content, phase, cursor>>

Init ==
  /\ used = {}
  /\ content = [d \in Dirs |-> {}]
  /\ phase = [g \in Gens |-> "none"]
  /\ cursor = 0

Open(g) ==
  /\ cursor <= g /\ g <= cursor + OpenAhead
  /\ \A h \in Gens : phase[h] # "open" /\ (h >= g => phase[h] = "none")
  /\ phase' = [phase EXCEPT ![g] = "open"]
  /\ UNCHANGED <<used, content, cursor>>

Use(c, d) ==
  /\ c \notin used
  /\ d \in Gens => phase[d] = "open" /\ Cardinality(content[d]) < Target
  /\ used' = used \cup {c}
  /\ content' = [content EXCEPT ![d] = @ \cup {c}]
  /\ UNCHANGED <<phase, cursor>>

Drop(c) ==
  /\ c \notin used
  /\ used' = used \cup {c}
  /\ UNCHANGED <<content, phase, cursor>>

Complete(g) ==
  /\ phase[g] = "open"
  /\ Cardinality(content[g]) = Target
  /\ phase' = [phase EXCEPT ![g] = "complete"]
  /\ UNCHANGED <<used, content, cursor>>

Train ==
  /\ cursor \in Gens
  /\ phase[cursor] = "complete"
  /\ cursor' = cursor + 1
  /\ UNCHANGED <<used, content, phase>>

Evict(g) ==
  /\ phase[g] = "complete"
  /\ Window > 0
  /\ Cardinality({h \in g + 1 .. cursor - 1 : phase[h] = "complete"}) >= Window
  /\ phase' = [phase EXCEPT ![g] = "evicted"]
  /\ content' = [content EXCEPT ![g] = {}]
  /\ UNCHANGED <<used, cursor>>

Next ==
  \/ \E g \in Gens : Open(g) \/ Complete(g) \/ Evict(g)
  \/ \E c \in Chunks : Drop(c) \/ \E d \in Dirs : Use(c, d)
  \/ Train

Spec == Init /\ [][Next]_vars
=============================================================================
