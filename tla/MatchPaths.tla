----------------------------- MODULE MatchPaths -----------------------------
(***************************************************************************)
(* placement.match: the queue's entries, in order, each claim a machine by *)
(* an augmenting path.  The recursion of its helper `assign` is a stack of *)
(* calls, and a step is one turn of the loop in the innermost call or its  *)
(* return.  Every eligibility relation between the entries and the         *)
(* machines is an initial state, so a run decides the search for all of    *)
(* them.                                                                   *)
(***************************************************************************)
EXTENDS Placement, FiniteSets

CONSTANTS NumEntries,   \* the queue is the entries 1 .. NumEntries
          NumMachines   \* the free machines, in the order they are tried

ASSUME SizesAssumption == NumEntries \in Nat /\ NumMachines \in Nat

VARIABLES elig,     \* the pairs <<entry, machine>> that fit
          holder,   \* machine -> the entry holding it, 0 when none does
          next,     \* the entry assigned next
          calls,    \* the calls of assign in progress, the outermost first
          seen,     \* the machines they have tried, `seen`
          found     \* whether the condition for claiming a machine came true

vars == <<elig, holder, next, calls, seen, found>>

Entries == 1 .. NumEntries
FreeMachines == 1 .. NumMachines

\* The pairs of the `holder` dictionary, as match returns them.
Pairs(h) == {<<h[m], m>> : m \in {k \in FreeMachines : h[k] # 0}}

\* assign(i, seen), about to look at its first machine.
Call(i) == [entry |-> i, machine |-> 1]

Top == calls[Len(calls)]

\* The calls left when the innermost returns.
Return == [k \in 1 .. Len(calls) - 1 |-> calls[k]]

Init ==
  /\ elig \in SUBSET (Entries \X FreeMachines)
  /\ holder = [m \in FreeMachines |-> 0]
  /\ next = 1
  /\ calls = <<>>
  /\ seen = {}
  /\ found = FALSE

\* The final `for`: the next entry of the queue, with nothing seen.
AssignNext ==
  /\ calls = <<>>
  /\ next \in Entries
  /\ calls' = <<Call(next)>>
  /\ next' = next + 1
  /\ seen' = {}
  /\ found' = FALSE
  /\ UNCHANGED <<elig, holder>>

Looking == calls # <<>> /\ ~found /\ Top.machine \in FreeMachines

\* Mutant: no augmenting, only a machine nobody holds will do.
SkipsHeld(i, m) == m \in seen \/ <<i, m>> \notin elig \/ holder[m] # 0

\* The `continue`: seen before, by this call or any other, or not eligible.
Skips(i, m) == m \in seen \/ <<i, m>> \notin elig

\* On to the next machine.  A call whose inner call failed goes on this way
\* too: the machine it tried is in `seen`.
Skip ==
  /\ Looking
  /\ Skips(Top.entry, Top.machine)
  /\ calls' = [calls EXCEPT ![Len(calls)].machine = @ + 1]
  /\ UNCHANGED <<elig, holder, next, seen, found>>

\* A machine nobody holds: `j is None`.
FindFree ==
  /\ Looking
  /\ ~Skips(Top.entry, Top.machine)
  /\ holder[Top.machine] = 0
  /\ seen' = seen \cup {Top.machine}
  /\ found' = TRUE
  /\ UNCHANGED <<elig, holder, next, calls>>

\* Mutant: takes a held machine without finding its holder another one.
DescendEvicts ==
  /\ Looking
  /\ ~Skips(Top.entry, Top.machine)
  /\ holder[Top.machine] # 0
  /\ seen' = seen \cup {Top.machine}
  /\ found' = TRUE
  /\ UNCHANGED <<elig, holder, next, calls>>

\* A held machine: assign(j, seen), to find its holder another one.
Descend ==
  /\ Looking
  /\ ~Skips(Top.entry, Top.machine)
  /\ holder[Top.machine] # 0
  /\ seen' = seen \cup {Top.machine}
  /\ calls' = Append(calls, Call(holder[Top.machine]))
  /\ UNCHANGED <<elig, holder, next, found>>

\* `holder[m.name] = i; return True`, which the call below takes as its cue
\* to do the same.
Claim ==
  /\ calls # <<>>
  /\ found
  /\ holder' = [holder EXCEPT ![Top.machine] = Top.entry]
  /\ calls' = Return
  /\ UNCHANGED <<elig, next, seen, found>>

\* `return False`: no machine is left to try.
GiveUp ==
  /\ calls # <<>>
  /\ ~found
  /\ Top.machine \notin FreeMachines
  /\ calls' = Return
  /\ UNCHANGED <<elig, holder, next, seen, found>>

Next ==
  \/ AssignNext
  \/ Skip
  \/ FindFree
  \/ Descend
  \/ Claim
  \/ GiveUp

Spec == Init /\ [][Next]_vars

-----------------------------------------------------------------------------

\* After any prefix of the queue the placement is one that Placement allows,
\* and TagQueue places by: a matching of eligible pairs whose entries are
\* exactly those that queue order entitles to a machine.
ServesInQueueOrder ==
  calls = <<>> => Pairs(holder) \in Matchings([i \in 1 .. next - 1 |-> i], elig)

\* "No free machine idles while an entry eligible for it waits behind a
\* greedy choice" (the docstring of placement.match).
NoMachineIdles ==
  calls = <<>> /\ next > NumEntries =>
    \A e \in Entries, m \in FreeMachines :
      /\ e \notin Matched(Pairs(holder))
      /\ holder[m] = 0
      => <<e, m>> \notin elig

\* An earlier entry may move to another machine but "never loses its
\* placement" (the docstring of placement.match), not even while the search
\* is rewriting the path.
NeverLosesPlacement ==
  [][Matched(Pairs(holder)) \subseteq Matched(Pairs(holder'))]_vars
=============================================================================
