----------------------------- MODULE Placement -----------------------------
(***************************************************************************)
(* What dashboard/placement.py promises of a placement, apart from how it  *)
(* finds one: a matching of queued tags to free machines in which queue    *)
(* order decides who is served.  MatchPaths models the augmenting-path     *)
(* search that finds such a matching; TagQueue places by any of them.      *)
(*                                                                         *)
(* A matching is a set of pairs <<entry, machine>>; `elig` is the set of   *)
(* the pairs for which placement.refusal gives no reason.                  *)
(***************************************************************************)
EXTENDS Naturals, Sequences

Matched(P) == {p[1] : p \in P}

Held(P) == {p[2] : p \in P}

\* At most one machine per entry and at most one entry per machine.
IsMatching(P) == \A p, q \in P : p[1] = q[1] <=> p[2] = q[2]

\* Whether all the entries of S can be served at once.
Matchable(S, elig) ==
  \E P \in SUBSET elig : IsMatching(P) /\ Matched(P) = S

\* The entries of the queue `order` that are served: each entry, in queue
\* order, is served exactly when it can be without an earlier one losing out.
Served(order, elig) ==
  LET served[i \in 0 .. Len(order)] ==
        IF i = 0 THEN {}
        ELSE LET with == served[i - 1] \cup {order[i]}
             IN IF Matchable(with, elig) THEN with ELSE served[i - 1]
  IN served[Len(order)]

\* The matchings placement.match may return for the queue `order`.
Matchings(order, elig) ==
  {P \in SUBSET elig : IsMatching(P) /\ Matched(P) = Served(order, elig)}
=============================================================================
