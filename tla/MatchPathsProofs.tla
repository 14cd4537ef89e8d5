-------------------------- MODULE MatchPathsProofs --------------------------
(***************************************************************************)
(* That the search of placement.match finds what Placement promises, for   *)
(* every queue, every number of machines and every eligibility relation.   *)
(*                                                                         *)
(* The inductive invariant SearchInv says what holds in the middle of a    *)
(* search.  The calls in progress follow a path of machines (Path,         *)
(* FromNext).  While a claim is rewriting that path, holders stay a        *)
(* matching but for the machine about to be claimed (Matching), so no      *)
(* entry loses its placement.  Until something is found, the entries of    *)
(* the machines tried have had all their machines tried or are still       *)
(* trying them (Explored): when the first call fails, those entries and    *)
(* the new one are one more than the machines that fit any of them, so     *)
(* queue order entitles the new one to nothing (TooManyEntries).           *)
(* QueueOrdered carries that verdict for every entry decided, which is     *)
(* what the recursion of Served computes (ServedIs).                       *)
(***************************************************************************)
EXTENDS MatchPaths, FiniteSetTheorems, SequenceTheorems, WellFoundedInduction,
        TLAPS

Frames == [entry : Entries, machine : 1 .. NumMachines + 1]

TypeOK ==
  /\ elig \subseteq Entries \X FreeMachines
  /\ holder \in [FreeMachines -> 0 .. NumEntries]
  /\ next \in 1 .. NumEntries + 1
  /\ calls \in Seq(Frames)
  /\ seen \subseteq FreeMachines
  /\ found \in BOOLEAN

\* The entries that hold a machine.
Placed == {holder[m] : m \in FreeMachines} \ {0}

\* The last entry whose search is over.
Decided == IF calls = <<>> THEN next - 1 ELSE next - 2

\* The calls that have tried their machine and wait to learn whether it is
\* theirs.
Waiting == 1 .. (IF found THEN Len(calls) ELSE Len(calls) - 1)

\* The machine about to be claimed.
Claimed == IF found /\ calls # <<>> THEN {Top.machine} ELSE {}

\* The calls follow a path: each waits on a machine of its own that fits it,
\* and the call above it is for the entry that holds that machine.
Path ==
  /\ \A k \in Waiting :
       /\ calls[k].machine \in seen
       /\ <<calls[k].entry, calls[k].machine>> \in elig
  /\ \A j, k \in Waiting : calls[j].machine = calls[k].machine => j = k
  /\ \A k \in 1 .. Len(calls) - 1 : holder[calls[k].machine] = calls[k + 1].entry

\* The path begins at the entry being placed, which holds nothing, and only
\* entries before it do.
FromNext ==
  /\ calls # <<>> => calls[1].entry = next - 1
  /\ \A m \in FreeMachines : holder[m] <= Decided

\* Every holder fits its machine and holds no other, but for the machine
\* about to be claimed: whoever holds that one holds another as well.
Matching ==
  /\ \A m \in FreeMachines : holder[m] # 0 => <<holder[m], m>> \in elig
  /\ \A m, n \in FreeMachines \ Claimed : holder[m] = holder[n] /\ holder[m] # 0 => m = n
  /\ \A m \in Claimed :
       holder[m] = 0 \/ \E n \in FreeMachines \ Claimed : holder[n] = holder[m]

\* Every machine that fits entry e has been tried.
Exhausted(e) == \A m \in FreeMachines : <<e, m>> \in elig => m \in seen

\* While nothing is found, every machine tried is held, by an entry whose
\* call is still in progress or has tried all its machines; and a call has
\* tried all before the one it is at.
Explored ==
  calls # <<>> /\ ~found =>
    /\ \A s \in seen :
         /\ holder[s] # 0
         /\ (\E k \in DOMAIN calls : calls[k].entry = holder[s]) \/ Exhausted(holder[s])
    /\ \A k \in DOMAIN calls : \A m \in 1 .. calls[k].machine - 1 :
         <<calls[k].entry, m>> \in elig => m \in seen

\* An entry is placed exactly when it can be, given those placed before it.
QueueOrdered ==
  \A k \in 1 .. Decided :
    k \in Placed <=> Matchable((Placed \cap 1 .. k - 1) \cup {k}, elig)

SearchInv ==
  /\ TypeOK
  /\ Path
  /\ FromNext
  /\ Matching
  /\ Explored
  /\ QueueOrdered

-----------------------------------------------------------------------------
(* What queue order entitles, about any eligibility relation.              *)

\* Part of a placement is a placement of the entries it serves.
LEMMA PartMatchable ==
  ASSUME NEW E, NEW S, NEW T, Matchable(S, E), T \subseteq S
  PROVE  Matchable(T, E)
<1>1. PICK P \in SUBSET E : IsMatching(P) /\ Matched(P) = S
  BY DEF Matchable
<1> DEFINE Q == {p \in P : p[1] \in T}
<1>2. Q \in SUBSET E /\ IsMatching(Q)
  BY <1>1 DEF IsMatching
<1>3. Matched(Q) = T
  BY <1>1 DEF Matched
<1> QED
  BY <1>2, <1>3 DEF Matchable

\* More entries than machines that fit any of them: if each machine of a
\* set M is held by an entry of S of its own and not by e in S, and no entry
\* of S fits a machine outside M, the entries of S cannot all be served.
LEMMA TooManyEntries ==
  ASSUME NEW E, NEW S, NEW e \in S, NEW M, IsFiniteSet(S),
         NEW h \in [M -> S \ {e}],
         \A m, n \in M : h[m] = h[n] => m = n,
         \A p \in E : p[1] \in S => p[2] \in M
  PROVE  ~ Matchable(S, E)
<1> SUFFICES ASSUME NEW P \in SUBSET E, IsMatching(P), Matched(P) = S
             PROVE  FALSE
  BY DEF Matchable
<1>1. IsFiniteSet(S \ {e}) /\ Cardinality(S \ {e}) = Cardinality(S) - 1
  BY FS_RemoveElement
<1>2. h \in Injection(M, S \ {e})
  BY DEF Injection, IsInjective
<1>3. IsFiniteSet(M) /\ Cardinality(M) <= Cardinality(S \ {e})
  BY <1>1, <1>2, FS_Injection
<1> DEFINE g == [s \in S |-> (CHOOSE p \in P : p[1] = s)[2]]
<1>4. ASSUME NEW s \in S
      PROVE  \E p \in P : p[1] = s /\ g[s] = p[2]
  <2>1. \E p \in P : p[1] = s
    BY DEF Matched
  <2> QED
    BY <2>1
<1>5. g \in [S -> M]
  BY <1>4
<1>6. Cardinality(M) < Cardinality(S)
  BY <1>1, <1>3, FS_CardinalityType
<1>7. PICK x, y \in S : x # y /\ g[x] = g[y]
  <2> HIDE DEF g
  <2> QED BY <1>3, <1>5, <1>6, FS_PigeonHole
<1> QED
  BY <1>4, <1>7 DEF IsMatching

\* The recursion of Served has the solution its equation describes: if T is
\* made of the entries that can be served given those of T before them, it
\* is what the queue 1 .. n is served.
LEMMA ServedIs ==
  ASSUME NEW E, NEW n \in Nat, NEW T \in SUBSET (1 .. n),
         \A k \in 1 .. n : k \in T <=> Matchable((T \cap 1 .. k - 1) \cup {k}, E)
  PROVE  Served([i \in 1 .. n |-> i], E) = T
<1> DEFINE order == [i \in 1 .. n |-> i]
           Turn(f, i) == IF i = 0 THEN {}
             ELSE LET with == f[i - 1] \cup {order[i]}
                  IN IF Matchable(with, E) THEN with ELSE f[i - 1]
           Step(f) == [i \in 0 .. n |-> Turn(f, i)]
           served == CHOOSE f : f = Step(f)
           prefix == [i \in 0 .. n |-> T \cap 1 .. i]
<1>1. Len(order) = n
  OBVIOUS
<1>2. ASSUME NEW i \in 0 .. n, NEW f,
             i # 0 => f[i - 1] = T \cap 1 .. i - 1
      PROVE  Turn(f, i) = T \cap 1 .. i
  <2>1. CASE i = 0
    BY <2>1
  <2>2. CASE i # 0
    <3>1. order[i] = i
      BY <2>2
    <3>2. T \cap 1 .. i = IF i \in T THEN (T \cap 1 .. i - 1) \cup {i} ELSE T \cap 1 .. i - 1
      BY <2>2
    <3>3. i \in T <=> Matchable((T \cap 1 .. i - 1) \cup {i}, E)
      BY <2>2
    <3> HIDE DEF order
    <3> QED
      BY <1>2, <2>2, <3>1, <3>2, <3>3
  <2> QED
    BY <2>1, <2>2
<1>3. prefix = Step(prefix)
  <2>1. ASSUME NEW i \in 0 .. n
        PROVE  Turn(prefix, i) = T \cap 1 .. i
    <3> i # 0 => prefix[i - 1] = T \cap 1 .. i - 1
      OBVIOUS
    <3> HIDE DEF prefix, Turn
    <3> QED
      BY <1>2
  <2> HIDE DEF Turn
  <2> QED
    BY <2>1
<1>4. served = Step(served)
  <2> HIDE DEF Step, prefix
  <2> QED
    BY <1>3
<1>5. ASSUME NEW i \in 0 .. n
      PROVE  served[i] = Turn(served, i)
  <2> HIDE DEF Turn, served
  <2> QED
    BY <1>4
<1>6. \A i \in 0 .. n : served[i] = T \cap 1 .. i
  <2> DEFINE Bad == {i \in 0 .. n : served[i] # T \cap 1 .. i}
             R == {p \in Nat \X Nat : p[1] < p[2]}
  <2> SUFFICES ASSUME Bad # {}
               PROVE  FALSE
    OBVIOUS
  <2>1. IsWellFoundedOn(R, Nat)
    BY NatLessThanWellFounded DEF OpToRel
  <2>2. PICK i \in Bad : \A j \in Bad : <<j, i>> \notin R
    <3> Bad \subseteq Nat
      OBVIOUS
    <3> HIDE DEF Bad, R
    <3> QED
      BY <2>1, WFMin
  <2>3. i # 0 => served[i - 1] = T \cap 1 .. i - 1
    <3> SUFFICES ASSUME i # 0, i - 1 \in Bad
                 PROVE  FALSE
      <4> HIDE DEF served
      <4> QED
        OBVIOUS
    <3> i \in Nat /\ i - 1 \in Nat /\ i - 1 < i
      OBVIOUS
    <3> HIDE DEF Bad
    <3> QED
      BY <2>2
  <2> HIDE DEF Turn, served
  <2> QED
    BY <1>2, <1>5, <2>2, <2>3
<1>7. served[n] = T
  <2>1. n \in 0 .. n
    OBVIOUS
  <2>2. T = T \cap 1 .. n
    OBVIOUS
  <2> HIDE DEF served
  <2> QED
    BY <1>6, <2>1, <2>2
<1>8. Served(order, E) = served[Len(order)]
  BY <1>1 DEF Served
<1> QED
  BY <1>1, <1>7, <1>8

-----------------------------------------------------------------------------
(* The stack of calls.                                                     *)

\* The innermost call.
LEMMA TopIs ==
  ASSUME TypeOK, calls # <<>>
  PROVE  /\ Len(calls) \in Nat \ {0}
         /\ DOMAIN calls = 1 .. Len(calls)
         /\ \A k \in 1 .. Len(calls) : calls[k] \in Frames
         /\ Top = calls[Len(calls)]
         /\ Top.entry \in Entries
         /\ Top.machine \in 1 .. NumMachines + 1
<1>1. Len(calls) \in Nat \ {0} /\ DOMAIN calls = 1 .. Len(calls)
  BY DEF TypeOK
<1>2. \A k \in 1 .. Len(calls) : calls[k] \in Frames
  BY <1>1 DEF TypeOK
<1> QED
  BY <1>1, <1>2 DEF Top, Frames

\* What is left of the stack when it returns.
LEMMA ReturnIs ==
  ASSUME TypeOK, calls # <<>>
  PROVE  /\ Return \in Seq(Frames)
         /\ Len(Return) = Len(calls) - 1
         /\ \A k \in 1 .. Len(calls) - 1 : Return[k] = calls[k]
         /\ Return = <<>> <=> Len(calls) = 1
<1>1. Len(calls) - 1 \in Nat /\ \A k \in 1 .. Len(calls) - 1 : calls[k] \in Frames
  BY TopIs
<1>2. Return \in Seq(Frames) /\ Len(Return) = Len(calls) - 1
  BY <1>1 DEF Return
<1>3. \A k \in 1 .. Len(calls) - 1 : Return[k] = calls[k]
  BY DEF Return
<1>4. Return = <<>> <=> Len(Return) = 0
  <2> HIDE DEF Return
  <2> QED
    BY <1>2, EmptySeq
<1> QED
  BY <1>2, <1>3, <1>4, TopIs

\* The entries match returns are those that hold a machine.
LEMMA PlacedIs ==
  ASSUME NEW h
  PROVE  Matched(Pairs(h)) = {h[m] : m \in FreeMachines} \ {0}
<1>1. ASSUME NEW e, NEW m \in FreeMachines, h[m] = e, e # 0
      PROVE  e \in Matched(Pairs(h))
  <2>1. <<e, m>> \in Pairs(h)
    BY <1>1 DEF Pairs
  <2> QED
    BY <2>1 DEF Matched
<1>2. ASSUME NEW e \in Matched(Pairs(h))
      PROVE  e \in {h[m] : m \in FreeMachines} \ {0}
  BY DEF Matched, Pairs
<1> QED
  BY <1>1, <1>2

\* The same of this state and the next.
LEMMA PlacedAre ==
  /\ Matched(Pairs(holder)) = Placed
  /\ Matched(Pairs(holder')) = Placed'
BY PlacedIs DEF Placed, FreeMachines

\* Holders that fit their machines and hold no other make a matching.
LEMMA PairsMatch ==
  ASSUME NEW h, NEW E,
         \A m \in FreeMachines : h[m] # 0 => <<h[m], m>> \in E,
         \A m, n \in FreeMachines : h[m] = h[n] /\ h[m] # 0 => m = n
  PROVE  Pairs(h) \in SUBSET E /\ IsMatching(Pairs(h))
BY DEF Pairs, IsMatching

\* The entries that hold a machine were all placed before.
LEMMA PlacedRange ==
  ASSUME TypeOK, FromNext
  PROVE  Decided \in Int /\ Placed \subseteq 1 .. Decided
BY SizesAssumption DEF TypeOK, FromNext, Placed, Decided

\* What comes before the entry placed last.
LEMMA LastAdded ==
  ASSUME NEW n \in Nat \ {0}, NEW A, A \subseteq 1 .. n - 1
  PROVE  /\ ((A \cup {n}) \cap 1 .. n - 1) \cup {n} = A \cup {n}
         /\ \A k \in 1 .. n - 1 : (A \cup {n}) \cap 1 .. k - 1 = A \cap 1 .. k - 1
<1>1. ((A \cup {n}) \cap 1 .. n - 1) \cup {n} = A \cup {n}
  OBVIOUS
<1>2. ASSUME NEW k \in 1 .. n - 1
      PROVE  (A \cup {n}) \cap 1 .. k - 1 = A \cap 1 .. k - 1
  OBVIOUS
<1> QED
  BY <1>1, <1>2

\* What neither the stack nor a claim touches is decided as before.
LEMMA QueueStays ==
  ASSUME QueueOrdered, UNCHANGED elig, Placed' = Placed, Decided' = Decided
  PROVE  QueueOrdered'
BY DEF QueueOrdered

-----------------------------------------------------------------------------
(* Each step of the search.                                                *)

\* A search begins: no call waits and nothing has been seen.
LEMMA AssignNextStep ==
  ASSUME SearchInv, AssignNext
  PROVE  SearchInv'
<1> USE DEF SearchInv, AssignNext
<1>1. /\ calls' = <<Call(next)>> /\ calls' # <<>>
      /\ Len(calls') = 1 /\ DOMAIN calls' = {1} /\ calls'[1] = Call(next)
      /\ Call(next) \in Frames
      /\ Call(next).entry = next /\ Call(next).machine = 1
      /\ next \in Nat
  BY SizesAssumption DEF Call, Frames, Entries, TypeOK
<1>2. TypeOK'
  <2>1. calls' \in Seq(Frames)'
    BY <1>1 DEF Frames, Entries
  <2>2. next' \in 1 .. NumEntries + 1
    BY <1>1, SizesAssumption DEF Entries
  <2> QED
    BY <2>1, <2>2 DEF TypeOK
<1>3. Decided' = Decided /\ Placed' = Placed
  BY <1>1 DEF Decided, Placed
<1>4. Path'
  BY <1>1 DEF Path, Waiting
<1>5. FromNext'
  BY <1>1, <1>3 DEF FromNext
<1>6. Matching'
  BY <1>1 DEF Matching, Claimed
<1>7. Explored'
  BY <1>1 DEF Explored
<1>8. QueueOrdered'
  BY <1>3, QueueStays
<1> QED
  BY <1>2, <1>4, <1>5, <1>6, <1>7, <1>8

\* One machine further, past one that was seen or does not fit.
LEMMA SkipStep ==
  ASSUME SearchInv, Skip
  PROVE  SearchInv'
<1> USE DEF SearchInv, Skip, Looking
<1> DEFINE L == Len(calls)
<1>1. /\ L \in Nat \ {0} /\ Top = calls[L] /\ calls # <<>> /\ ~ found
      /\ Top.machine \in 1 .. NumMachines /\ DOMAIN calls = 1 .. L
  BY TopIs DEF FreeMachines
<1>2. /\ calls' \in Seq(Frames) /\ Len(calls') = L /\ calls' # <<>>
      /\ DOMAIN calls' = 1 .. L
      /\ \A k \in 1 .. L - 1 : calls'[k] = calls[k]
      /\ \A k \in 1 .. L : calls'[k].entry = calls[k].entry
      /\ calls'[L].machine = calls[L].machine + 1
  <2>1. \A k \in 1 .. L : calls[k] \in Frames
    BY TopIs
  <2>2. [calls[L] EXCEPT !.machine = @ + 1] \in Frames
    BY <1>1, <2>1, SizesAssumption DEF Frames
  <2>3. calls' = [calls EXCEPT ![L] = [calls[L] EXCEPT !.machine = @ + 1]]
    BY <1>1
  <2> HIDE DEF L
  <2>4. calls' \in Seq(Frames) /\ Len(calls') = L
    BY <1>1, <2>2, <2>3 DEF TypeOK, L
  <2> QED
    BY <1>1, <2>1, <2>2, <2>3, <2>4 DEF Frames
<1> HIDE DEF L
<1>3. TypeOK'
  BY <1>2 DEF TypeOK, Frames, Entries, FreeMachines
<1>4. Waiting' = Waiting /\ Waiting = 1 .. L - 1 /\ Claimed = {} /\ Claimed' = {}
  BY <1>1, <1>2 DEF Waiting, Claimed, L
<1>5. Decided' = Decided /\ Placed' = Placed
  BY <1>1, <1>2 DEF Decided, Placed
<1>6. Path'
  BY <1>1, <1>2, <1>4 DEF Path, L
<1>7. FromNext'
  BY <1>1, <1>2, <1>5 DEF FromNext
<1>8. Matching'
  BY <1>4 DEF Matching
<1>9. Explored'
  <2>1. ASSUME NEW k \in 1 .. L, NEW m \in 1 .. calls'[k].machine - 1,
               <<calls[k].entry, m>> \in elig
        PROVE  m \in seen
    <3>1. \A j \in 1 .. calls[k].machine - 1 : <<calls[k].entry, j>> \in elig => j \in seen
      BY <1>1 DEF Explored
    <3>2. k = L => calls[k].machine \in seen \/ <<calls[k].entry, calls[k].machine>> \notin elig
      BY <1>1 DEF Skips
    <3>3. calls[k].machine \in Nat
      BY TopIs DEF Frames, L
    <3>4. CASE k = L
      <4>1. m \in 1 .. calls[k].machine
        BY <1>2, <3>3, <3>4
      <4>2. m \in 1 .. calls[k].machine - 1 \/ m = calls[k].machine
        BY <3>3, <4>1
      <4> QED
        BY <2>1, <3>1, <3>2, <3>4, <4>2
    <3>5. CASE k # L
      BY <1>1, <1>2, <2>1, <3>1, <3>5
    <3> QED
      BY <3>4, <3>5
  <2>2. ASSUME NEW s \in seen
        PROVE  /\ holder[s] # 0
               /\ (\E k \in 1 .. L : calls[k].entry = holder[s]) \/ Exhausted(holder[s])
    BY <1>1 DEF Explored
  <2>3. \A e : Exhausted(e)' <=> Exhausted(e)
    BY DEF Exhausted
  <2> QED
    BY <1>1, <1>2, <2>1, <2>2, <2>3 DEF Explored, Exhausted
<1>10. QueueOrdered'
  BY <1>5, QueueStays
<1> QED
  BY <1>3, <1>6, <1>7, <1>8, <1>9, <1>10

\* The path ends at a machine nobody holds, which is to be claimed.
LEMMA FindFreeStep ==
  ASSUME SearchInv, FindFree
  PROVE  SearchInv'
<1> USE DEF SearchInv, FindFree, Looking
<1> DEFINE L == Len(calls)
           here == Top.machine
<1>1. /\ L \in Nat \ {0} /\ Top = calls[L] /\ calls # <<>> /\ ~ found
      /\ here \in FreeMachines /\ DOMAIN calls = 1 .. L
      /\ here \notin seen /\ <<Top.entry, here>> \in elig
  BY TopIs DEF Skips
<1>2. TypeOK'
  BY <1>1 DEF TypeOK, Frames, Entries, FreeMachines
<1>3. /\ Waiting = 1 .. L - 1 /\ Waiting' = 1 .. L
      /\ Claimed = {} /\ Claimed' = {here}
  BY <1>1 DEF Waiting, Claimed, Top
<1> HIDE DEF L
<1>4. Decided' = Decided /\ Placed' = Placed
  BY DEF Decided, Placed
<1>5. Path'
  <2>1. \A k \in 1 .. L - 1 : calls[k].machine # here
    BY <1>1, <1>3 DEF Path
  <2>2. \A k \in 1 .. L : k = L \/ k \in 1 .. L - 1
    BY <1>1
  <2>3. \A k \in 1 .. L : calls[k].machine \in seen' /\ <<calls[k].entry, calls[k].machine>> \in elig
    BY <1>1, <1>3, <2>2 DEF Path
  <2>4. \A j, k \in 1 .. L : calls[j].machine = calls[k].machine => j = k
    BY <1>1, <1>3, <2>1, <2>2 DEF Path
  <2> QED
    BY <1>3, <2>3, <2>4 DEF Path
<1>6. FromNext'
  BY <1>4 DEF FromNext
<1>7. Matching'
  BY <1>1, <1>3 DEF Matching
<1>8. Explored'
  BY DEF Explored
<1>9. QueueOrdered'
  BY <1>4, QueueStays
<1> QED
  BY <1>2, <1>5, <1>6, <1>7, <1>8, <1>9

\* The path grows by a machine not on it, to the entry that holds it.
LEMMA DescendStep ==
  ASSUME SearchInv, Descend
  PROVE  SearchInv'
<1> USE DEF SearchInv, Descend, Looking
<1> DEFINE L == Len(calls)
           here == Top.machine
<1>1. /\ L \in Nat \ {0} /\ Top = calls[L] /\ calls # <<>> /\ ~ found
      /\ here \in FreeMachines /\ DOMAIN calls = 1 .. L
      /\ here \notin seen /\ <<Top.entry, here>> \in elig
  BY TopIs DEF Skips
<1>2. /\ Call(holder[here]) \in Frames
      /\ Call(holder[here]).entry = holder[here] /\ Call(holder[here]).machine = 1
  BY <1>1, SizesAssumption DEF TypeOK, Call, Frames, Entries
<1>3. /\ calls' \in Seq(Frames) /\ Len(calls') = L + 1 /\ calls' # <<>>
      /\ DOMAIN calls' = 1 .. L + 1
      /\ \A k \in 1 .. L : calls'[k] = calls[k]
      /\ calls'[L + 1] = Call(holder[here])
  BY <1>1, <1>2 DEF TypeOK
<1> HIDE DEF L
<1>4. TypeOK'
  BY <1>1, <1>3 DEF TypeOK, Frames, Entries, FreeMachines
<1>5. /\ Waiting = 1 .. L - 1 /\ Waiting' = 1 .. L
      /\ Claimed = {} /\ Claimed' = {}
  BY <1>1, <1>3 DEF Waiting, Claimed, L
<1>6. Decided' = Decided /\ Placed' = Placed
  BY <1>1, <1>3 DEF Decided, Placed
<1>7. Path'
  <2>1. \A k \in 1 .. L - 1 : calls[k].machine # here
    BY <1>1, <1>5 DEF Path
  <2>2. \A k \in 1 .. L : k = L \/ k \in 1 .. L - 1
    BY <1>1
  <2>3. \A k \in 1 .. L : calls'[k].machine \in seen' /\ <<calls'[k].entry, calls'[k].machine>> \in elig
    BY <1>1, <1>3, <1>5, <2>2 DEF Path
  <2>4. \A j, k \in 1 .. L : calls'[j].machine = calls'[k].machine => j = k
    BY <1>1, <1>3, <1>5, <2>1, <2>2 DEF Path
  <2>5. \A k \in 1 .. L : holder[calls'[k].machine] = calls'[k + 1].entry
    <3>1. \A k \in 1 .. L - 1 : holder[calls[k].machine] = calls[k + 1].entry /\ k + 1 \in 1 .. L
      BY <1>1 DEF Path, L
    <3> QED
      BY <1>1, <1>2, <1>3, <2>2, <3>1
  <2> QED
    BY <1>1, <1>3, <1>5, <2>3, <2>4, <2>5 DEF Path
<1>8. FromNext'
  BY <1>1, <1>3, <1>6 DEF FromNext
<1>9. Matching'
  BY <1>5 DEF Matching
<1>10. Explored'
  <2>1. \A e : Exhausted(e) => Exhausted(e)'
    BY DEF Exhausted
  <2>2. ASSUME NEW s \in seen'
        PROVE  /\ holder[s] # 0
               /\ (\E k \in 1 .. L + 1 : calls'[k].entry = holder[s]) \/ Exhausted(holder[s])'
    <3>1. CASE s = here
      BY <1>1, <1>2, <1>3, <3>1
    <3>2. CASE s \in seen
      <4>1. /\ holder[s] # 0
            /\ (\E k \in 1 .. L : calls[k].entry = holder[s]) \/ Exhausted(holder[s])
        BY <1>1, <3>2 DEF Explored
      <4> QED
        BY <1>1, <1>3, <2>1, <4>1
    <3> QED
      BY <3>1, <3>2
  <2>3. ASSUME NEW k \in 1 .. L + 1, NEW m \in 1 .. calls'[k].machine - 1,
               <<calls'[k].entry, m>> \in elig
        PROVE  m \in seen'
    <3>1. k # L + 1
      BY <1>2, <1>3
    <3> QED
      BY <1>1, <1>3, <2>3, <3>1 DEF Explored
  <2> QED
    BY <1>1, <1>3, <2>2, <2>3 DEF Explored, Exhausted
<1>11. QueueOrdered'
  BY <1>6, QueueStays
<1> QED
  BY <1>4, <1>7, <1>8, <1>9, <1>10, <1>11

\* Where a claim is made: the machine is the last of the path, and the entry
\* that gets it either waited for its first one or holds the machine below.
LEMMA ClaimAt ==
  ASSUME SearchInv, calls # <<>>, found
  PROVE  /\ Top.machine \in FreeMachines
         /\ <<Top.entry, Top.machine>> \in elig
         /\ Claimed = {Top.machine}
         /\ Len(calls) = 1 => Top.entry = next - 1
         /\ Len(calls) # 1 =>
              LET below == calls[Len(calls) - 1].machine
              IN below \in FreeMachines /\ below # Top.machine /\ holder[below] = Top.entry
<1> USE DEF SearchInv
<1> DEFINE L == Len(calls)
<1>1. L \in Nat \ {0} /\ Top = calls[L] /\ Waiting = 1 .. L
  BY TopIs DEF Waiting
<1>2. Claimed = {Top.machine}
  BY DEF Claimed
<1> HIDE DEF L
<1>3. L \in Waiting /\ Top.machine \in seen /\ <<Top.entry, Top.machine>> \in elig
  BY <1>1 DEF Path
<1>4. Top.machine \in FreeMachines
  BY <1>3 DEF TypeOK
<1>5. ASSUME L # 1
      PROVE  LET below == calls[L - 1].machine
             IN below \in FreeMachines /\ below # Top.machine /\ holder[below] = Top.entry
  <2>1. L - 1 \in 1 .. L - 1 /\ L - 1 \in Waiting /\ L - 1 # L /\ (L - 1) + 1 = L
    BY <1>1, <1>5
  <2>2. calls[L - 1].machine \in seen
    BY <2>1 DEF Path
  <2>3. calls[L - 1].machine # calls[L].machine
    BY <1>3, <2>1 DEF Path
  <2>4. holder[calls[L - 1].machine] = calls[(L - 1) + 1].entry
    BY <2>1 DEF Path, L
  <2> QED
    BY <1>1, <2>1, <2>2, <2>3, <2>4 DEF TypeOK
<1>6. L = 1 => Top.entry = next - 1
  BY <1>1 DEF FromNext
<1> QED
  BY <1>2, <1>3, <1>4, <1>5, <1>6 DEF L

\* A claim places nobody anew but the entry the search is for, and unplaces
\* nobody.
LEMMA ClaimPlaces ==
  ASSUME SearchInv, Claim
  PROVE  Placed' = IF Len(calls) = 1 THEN Placed \cup {next - 1} ELSE Placed
<1> USE DEF SearchInv, Claim
<1> DEFINE here == Top.machine
<1>1. /\ here \in FreeMachines /\ Claimed = {here}
      /\ holder \in [FreeMachines -> 0 .. NumEntries]
      /\ Top.entry \in Entries /\ Top.entry # 0
  BY ClaimAt, TopIs DEF TypeOK, Entries
<1>2. \A m \in FreeMachines : holder'[m] = IF m = here THEN Top.entry ELSE holder[m]
  BY <1>1
<1>3. holder[here] = 0 \/ \E n \in FreeMachines \ {here} : holder[n] = holder[here]
  BY <1>1 DEF Matching
<1> HIDE DEF here
<1>4. Placed' = Placed \cup {Top.entry}
  <2>1. ASSUME NEW x \in Placed
        PROVE  x \in Placed'
    <3>1. PICK m \in FreeMachines \ {here} : holder[m] = x /\ x # 0
      BY <1>3 DEF Placed
    <3> QED
      BY <1>2, <3>1 DEF Placed
  <2>2. Top.entry \in Placed'
    BY <1>1, <1>2 DEF Placed
  <2>3. Placed' \subseteq Placed \cup {Top.entry}
    BY <1>2 DEF Placed
  <2> QED
    BY <2>1, <2>2, <2>3
<1>5. CASE Len(calls) = 1
  BY <1>4, <1>5, ClaimAt
<1>6. CASE Len(calls) # 1
  <2>1. PICK below \in FreeMachines : holder[below] = Top.entry
    BY <1>6, ClaimAt
  <2>2. Top.entry \in Placed
    BY <1>1, <2>1 DEF Placed
  <2> QED
    BY <1>4, <1>6, <2>2
<1> QED
  BY <1>5, <1>6

\* The innermost call claims its machine, and the next below it is to claim
\* the one its holder has left.
LEMMA ClaimStep ==
  ASSUME SearchInv, Claim
  PROVE  SearchInv'
<1> USE DEF SearchInv, Claim
<1> DEFINE L == Len(calls)
           here == Top.machine
<1>1. /\ L \in Nat \ {0} /\ Top = calls[L] /\ calls # <<>> /\ found
      /\ here \in FreeMachines /\ Claimed = {here} /\ Waiting = 1 .. L
      /\ Top.entry \in Entries
  BY ClaimAt, TopIs DEF Waiting
<1>2. /\ calls' \in Seq(Frames) /\ Len(calls') = L - 1
      /\ \A k \in 1 .. L - 1 : calls'[k] = calls[k]
      /\ calls' = <<>> <=> L = 1
  BY ReturnIs
<1>3. \A m \in FreeMachines : holder'[m] = IF m = here THEN Top.entry ELSE holder[m]
  BY <1>1 DEF TypeOK
<1>4. TypeOK'
  BY <1>1, <1>2 DEF TypeOK, Frames, Entries, FreeMachines
<1> HIDE DEF here
<1>5. Waiting' = 1 .. L - 1
  BY <1>2 DEF Waiting
<1>6. L # 1 => /\ calls'[L - 1] = calls[L - 1]
               /\ Claimed' = {calls[L - 1].machine}
               /\ calls[L - 1].machine \in FreeMachines
               /\ calls[L - 1].machine # here
               /\ holder[calls[L - 1].machine] = Top.entry
  BY <1>1, <1>2, ClaimAt DEF Claimed, Top, here
<1>7. Path'
  <2>1. \A k \in 1 .. L - 1 : k \in Waiting /\ k # L /\ L \in Waiting
    BY <1>1
  <2>2. \A k \in 1 .. L - 1 : calls[k].machine \in FreeMachines /\ calls[k].machine # here
    BY <1>1, <2>1 DEF Path, TypeOK, here
  <2>3. \A k \in 1 .. L - 2 : k \in 1 .. L - 1 /\ k + 1 \in 1 .. L - 1
    BY <1>1
  <2>4. \A k \in 1 .. L - 2 : holder'[calls'[k].machine] = calls'[k + 1].entry
    <3>1. \A k \in 1 .. L - 1 : holder[calls[k].machine] = calls[k + 1].entry
      BY DEF Path
    <3> HIDE DEF L
    <3> QED
      BY <1>2, <1>3, <2>2, <2>3, <3>1
  <2>5. \A k \in 1 .. L - 1 : calls'[k].machine \in seen' /\ <<calls'[k].entry, calls'[k].machine>> \in elig'
    BY <1>2, <2>1 DEF Path
  <2>6. \A j, k \in 1 .. L - 1 : calls'[j].machine = calls'[k].machine => j = k
    <3>1. \A j, k \in Waiting : calls[j].machine = calls[k].machine => j = k
      BY DEF Path
    <3> HIDE DEF L
    <3> QED
      BY <1>2, <2>1, <3>1
  <2>7. Len(calls') - 1 = L - 2
    BY <1>1, <1>2
  <2> HIDE DEF L
  <2> QED
    BY <1>5, <2>4, <2>5, <2>6, <2>7 DEF Path
<1>8. FromNext'
  <2>1. \A m \in FreeMachines : holder[m] \in Nat /\ holder[m] <= Decided
    BY DEF FromNext, TypeOK
  <2>2. CASE L = 1
    <3>1. Decided = next - 2 /\ Decided' = next - 1 /\ Top.entry = next - 1 /\ next \in Nat
      BY <1>1, <1>2, <2>2, ClaimAt DEF Decided, TypeOK
    <3> HIDE DEF L
    <3> QED
      BY <1>2, <1>3, <2>1, <2>2, <3>1 DEF FromNext
  <2>3. CASE L # 1
    <3>1. Decided' = Decided
      BY <1>1, <1>2, <2>3 DEF Decided
    <3>2. Top.entry <= Decided
      BY <1>6, <2>1, <2>3
    <3>3. calls'[1] = calls[1]
      BY <1>1, <1>2, <2>3
    <3> HIDE DEF L
    <3> QED
      BY <1>1, <1>3, <2>1, <3>1, <3>2, <3>3 DEF FromNext
  <2> QED
    BY <2>2, <2>3
<1>9. Matching'
  <2>1. \A m \in FreeMachines : holder'[m] # 0 => <<holder'[m], m>> \in elig'
    BY <1>3, ClaimAt DEF Matching, here
  <2>2. ASSUME NEW n \in FreeMachines \ Claimed', n # here, holder[n] = Top.entry
        PROVE  FALSE
    <3>1. CASE L = 1
      BY <1>1, <2>2, <3>1, ClaimAt DEF FromNext, Decided, TypeOK
    <3>2. CASE L # 1
      BY <1>1, <1>6, <2>2, <3>2 DEF Matching, Entries
    <3> QED
      BY <3>1, <3>2
  <2>3. \A m, n \in FreeMachines \ Claimed' : holder'[m] = holder'[n] /\ holder'[m] # 0 => m = n
    BY <1>1, <1>3, <2>2 DEF Matching
  <2>4. \A m \in Claimed' :
          holder'[m] = 0 \/ \E n \in FreeMachines \ Claimed' : holder'[n] = holder'[m]
    <3>1. CASE L = 1
      BY <1>2, <3>1 DEF Claimed
    <3>2. CASE L # 1
      BY <1>1, <1>3, <1>6, <3>2
    <3> QED
      BY <3>1, <3>2
  <2> QED
    BY <2>1, <2>3, <2>4 DEF Matching
<1>10. Explored'
  BY DEF Explored
<1>11. QueueOrdered'
  <2>1. CASE L # 1
    <3>1. Placed' = Placed /\ Decided' = Decided
      BY <1>1, <1>2, <2>1, ClaimPlaces DEF Decided
    <3> QED
      BY <3>1, QueueStays
  <2>2. CASE L = 1
    <3>1. /\ Placed' = Placed \cup {next - 1} /\ Decided = next - 2 /\ Decided' = next - 1
          /\ next \in Nat /\ next - 1 \in Nat \ {0} /\ Placed \subseteq 1 .. (next - 1) - 1
      BY <1>1, <1>2, <2>2, ClaimPlaces, ClaimAt, PlacedRange DEF Decided, TypeOK, Entries
    <3>2. Matchable(Placed', elig)
      <4>1. Claimed' = {}
        BY <1>2, <2>2 DEF Claimed
      <4>2. Pairs(holder') \in SUBSET elig /\ IsMatching(Pairs(holder'))
        <5>1. /\ \A m \in FreeMachines : holder'[m] # 0 => <<holder'[m], m>> \in elig
              /\ \A m, n \in FreeMachines : holder'[m] = holder'[n] /\ holder'[m] # 0 => m = n
          BY <1>9, <4>1 DEF Matching, FreeMachines
        <5> QED
          BY <5>1, PairsMatch
      <4>3. Matched(Pairs(holder')) = Placed'
        BY PlacedAre
      <4> QED
        BY <4>2, <4>3 DEF Matchable
    <3>3. ASSUME NEW k \in 1 .. next - 1
          PROVE  k \in Placed' <=> Matchable((Placed' \cap 1 .. k - 1) \cup {k}, elig)
      <4>1. CASE k = next - 1
        <5>1. (Placed' \cap 1 .. k - 1) \cup {k} = Placed'
          BY <3>1, <4>1, LastAdded
        <5> QED
          BY <3>1, <3>2, <4>1, <5>1
      <4>2. CASE k # next - 1
        <5>1. k \in 1 .. next - 2
          BY <3>1, <4>2
        <5>2. k \in Placed' <=> k \in Placed
          BY <3>1, <4>2
        <5>3. Placed' \cap 1 .. k - 1 = Placed \cap 1 .. k - 1
          BY <3>1, <5>1, LastAdded
        <5> QED
          BY <3>1, <5>1, <5>2, <5>3 DEF QueueOrdered
      <4> QED
        BY <4>1, <4>2
    <3> QED
      BY <3>1, <3>3 DEF QueueOrdered
  <2> QED
    BY <2>1, <2>2
<1> QED
  BY <1>4, <1>7, <1>8, <1>9, <1>10, <1>11

\* A search that fails at the first call: its entry and the holders of the
\* machines tried are more entries than the machines that fit any of them.
LEMMA SearchFails ==
  ASSUME SearchInv, GiveUp, Len(calls) = 1
  PROVE  ~ Matchable((Placed \cap 1 .. next - 2) \cup {next - 1}, elig)
<1> USE DEF SearchInv, GiveUp
<1> DEFINE e == next - 1
           X == {holder[s] : s \in seen} \cup {e}
<1>1. /\ DOMAIN calls = {1} /\ calls # <<>> /\ Top = calls[1] /\ calls[1].entry = e
      /\ calls[1].machine = NumMachines + 1
      /\ e \in Entries /\ next \in Nat
  <2>1. Top = calls[1] /\ calls # <<>> /\ Top.machine = NumMachines + 1 /\ Top.entry \in Entries
    BY TopIs, SizesAssumption DEF FreeMachines
  <2> QED
    BY <2>1, TopIs DEF FromNext, TypeOK
<1>2. \A m \in FreeMachines : holder[m] # e /\ holder[m] \in 0 .. next - 2
  BY <1>1 DEF FromNext, Decided, TypeOK
<1>3. \A s \in seen : s \in FreeMachines /\ holder[s] # 0
  BY <1>1 DEF Explored, TypeOK
<1>4. Exhausted(e)
  <2>1. \A m \in 1 .. calls[1].machine - 1 : <<e, m>> \in elig => m \in seen
    BY <1>1 DEF Explored
  <2> QED
    BY <1>1, <2>1, SizesAssumption DEF Exhausted, FreeMachines
<1>5. \A s \in seen : Exhausted(holder[s])
  BY <1>1, <1>2, <1>3 DEF Explored
<1>6. X \subseteq Entries /\ IsFiniteSet(X)
  <2>1. X \subseteq Entries
    BY <1>1, <1>3 DEF TypeOK, Entries
  <2>2. IsFiniteSet(Entries)
    BY SizesAssumption, FS_Interval DEF Entries
  <2> HIDE DEF X
  <2> QED
    BY <2>1, <2>2, FS_Subset
<1> DEFINE h == [s \in seen |-> holder[s]]
<1>7. h \in [seen -> X \ {e}]
  BY <1>2, <1>3
<1>8. \A m, n \in seen : h[m] = h[n] => m = n
  BY <1>3 DEF Matching, Claimed
<1>9. \A p \in elig : p[1] \in X => p[2] \in seen
  BY <1>4, <1>5 DEF Exhausted, TypeOK
<1>10. ~ Matchable(X, elig)
  <2>1. e \in X
    OBVIOUS
  <2> HIDE DEF X, h
  <2> QED
    BY <1>6, <1>7, <1>8, <1>9, <2>1, TooManyEntries
<1>11. X \subseteq (Placed \cap 1 .. next - 2) \cup {next - 1}
  BY <1>1, <1>2, <1>3 DEF Placed
<1> QED
  BY <1>10, <1>11, PartMatchable

\* The innermost call has tried all its machines.
LEMMA GiveUpStep ==
  ASSUME SearchInv, GiveUp
  PROVE  SearchInv'
<1> USE DEF SearchInv, GiveUp
<1> DEFINE L == Len(calls)
<1>1. /\ L \in Nat \ {0} /\ Top = calls[L] /\ calls # <<>> /\ ~ found
      /\ DOMAIN calls = 1 .. L
      /\ calls[L].machine = NumMachines + 1
  BY TopIs, SizesAssumption DEF FreeMachines
<1>2. /\ calls' \in Seq(Frames) /\ Len(calls') = L - 1
      /\ \A k \in 1 .. L - 1 : calls'[k] = calls[k]
      /\ calls' = <<>> <=> L = 1
  BY ReturnIs
<1>3. TypeOK'
  BY <1>1, <1>2 DEF TypeOK, Frames, Entries, FreeMachines
<1>4. /\ Waiting = 1 .. L - 1 /\ Waiting' = 1 .. L - 2
      /\ Claimed = {} /\ Claimed' = {}
  BY <1>1, <1>2 DEF Waiting, Claimed
<1>5. Placed' = Placed
  BY DEF Placed
<1>6. Path'
  <2>1. \A k \in 1 .. L - 2 : k \in 1 .. L - 1 /\ k + 1 \in 1 .. L - 1
    BY <1>1
  <2>2. \A k \in 1 .. L - 1 : holder[calls[k].machine] = calls[k + 1].entry
    BY DEF Path
  <2>3. \A k \in 1 .. L - 1 : calls[k].machine \in seen /\ <<calls[k].entry, calls[k].machine>> \in elig
    BY <1>4 DEF Path
  <2>4. \A j, k \in 1 .. L - 1 : calls[j].machine = calls[k].machine => j = k
    BY <1>4 DEF Path
  <2>5. Len(calls') - 1 = L - 2
    BY <1>1, <1>2
  <2> HIDE DEF L
  <2>6. \A k \in Waiting' : calls'[k].machine \in seen' /\ <<calls'[k].entry, calls'[k].machine>> \in elig'
    BY <1>2, <1>4, <2>1, <2>3
  <2>7. \A j, k \in Waiting' : calls'[j].machine = calls'[k].machine => j = k
    BY <1>2, <1>4, <2>1, <2>4
  <2>8. \A k \in 1 .. L - 2 : holder'[calls'[k].machine] = calls'[k + 1].entry
    BY <1>2, <2>1, <2>2
  <2> QED
    BY <2>5, <2>6, <2>7, <2>8 DEF Path
<1>7. FromNext'
  <2>1. \A m \in FreeMachines : holder[m] \in Nat /\ holder[m] <= next - 2
    BY <1>1 DEF FromNext, TypeOK, Decided
  <2>2. next \in Nat /\ Decided' \in {next - 1, next - 2}
    BY <1>1 DEF Decided, TypeOK
  <2>3. L # 1 => calls'[1] = calls[1]
    BY <1>1, <1>2
  <2> HIDE DEF L
  <2> QED
    BY <1>1, <1>2, <2>1, <2>2, <2>3 DEF FromNext
<1>8. Matching'
  BY <1>4 DEF Matching
<1>9. Explored'
  <2>1. \A e : Exhausted(e)' <=> Exhausted(e)
    BY DEF Exhausted
  <2>2. Exhausted(calls[L].entry)
    <3>1. \A m \in 1 .. calls[L].machine - 1 : <<calls[L].entry, m>> \in elig => m \in seen
      BY <1>1 DEF Explored
    <3> QED
      BY <1>1, <3>1, SizesAssumption DEF Exhausted, FreeMachines
  <2>3. ASSUME NEW s \in seen
        PROVE  /\ holder[s] # 0
               /\ (\E k \in 1 .. L - 1 : calls'[k].entry = holder[s]) \/ Exhausted(holder[s])
    <3>1. /\ holder[s] # 0
          /\ (\E k \in 1 .. L : calls[k].entry = holder[s]) \/ Exhausted(holder[s])
      BY <1>1 DEF Explored
    <3> HIDE DEF L
    <3>2. \A k \in 1 .. L : k = L \/ k \in 1 .. L - 1
      BY <1>1
    <3> QED
      BY <1>2, <2>2, <3>1, <3>2
  <2>4. \A k \in 1 .. L - 1 : \A m \in 1 .. calls'[k].machine - 1 :
          <<calls'[k].entry, m>> \in elig => m \in seen
    <3>1. \A k \in 1 .. L - 1 : k \in 1 .. L
      BY <1>1
    <3> QED
      BY <1>1, <1>2, <3>1 DEF Explored
  <2>5. DOMAIN calls' = 1 .. L - 1
    BY <1>2
  <2> HIDE DEF L
  <2> QED
    BY <1>1, <2>1, <2>3, <2>4, <2>5 DEF Explored, Exhausted
<1>10. QueueOrdered'
  <2>1. CASE L # 1
    <3>1. Decided' = Decided
      BY <1>1, <1>2, <2>1 DEF Decided
    <3> QED
      BY <1>5, <3>1, QueueStays
  <2>2. CASE L = 1
    <3>1. /\ Decided = next - 2 /\ Decided' = next - 1 /\ next \in Nat
          /\ Placed \subseteq 1 .. next - 2
      BY <1>1, <1>2, <2>2, PlacedRange DEF Decided, TypeOK
    <3>2. ASSUME NEW k \in 1 .. next - 1
          PROVE  k \in Placed <=> Matchable((Placed \cap 1 .. k - 1) \cup {k}, elig)
      <4>1. CASE k = next - 1
        <5>1. k - 1 = next - 2 /\ k \notin Placed
          BY <3>1, <4>1
        <5> QED
          BY <2>2, <4>1, <5>1, SearchFails
      <4>2. CASE k # next - 1
        <5>1. k \in 1 .. next - 2
          BY <3>1, <4>2
        <5> QED
          BY <3>1, <5>1 DEF QueueOrdered
      <4> QED
        BY <4>1, <4>2
    <3> QED
      BY <1>5, <3>1, <3>2 DEF QueueOrdered
  <2> QED
    BY <2>1, <2>2
<1> QED
  BY <1>3, <1>6, <1>7, <1>8, <1>9, <1>10

\* Nothing placed, nothing decided.
LEMMA SearchInit ==
  ASSUME Init
  PROVE  SearchInv
<1> USE DEF Init
<1>1. TypeOK
  <2>1. <<>> \in Seq(Frames)
    OBVIOUS
  <2>2. 1 \in 1 .. NumEntries + 1 /\ 0 \in 0 .. NumEntries
    BY SizesAssumption
  <2> QED
    BY <2>1, <2>2 DEF TypeOK
<1>2. /\ Len(calls) = 0 /\ Waiting = {} /\ Claimed = {} /\ Decided = 0
      /\ \A m \in FreeMachines : holder[m] = 0
  BY DEF Waiting, Claimed, Decided
<1>3. Path
  BY <1>2 DEF Path
<1>4. FromNext /\ Matching /\ Explored /\ QueueOrdered
  BY <1>2 DEF FromNext, Matching, Explored, QueueOrdered
<1> QED
  BY <1>1, <1>3, <1>4 DEF SearchInv

\* The invariant is inductive.
LEMMA SearchStep ==
  ASSUME SearchInv, [Next]_vars
  PROVE  SearchInv'
<1>1. CASE AssignNext
  BY <1>1, AssignNextStep
<1>2. CASE Skip
  BY <1>2, SkipStep
<1>3. CASE FindFree
  BY <1>3, FindFreeStep
<1>4. CASE Descend
  BY <1>4, DescendStep
<1>5. CASE Claim
  BY <1>5, ClaimStep
<1>6. CASE GiveUp
  BY <1>6, GiveUpStep
<1>7. CASE UNCHANGED vars
  <2> USE <1>7 DEF vars, SearchInv
  <2>1. /\ Waiting' = Waiting /\ Claimed' = Claimed /\ Placed' = Placed /\ Decided' = Decided
        /\ \A e : Exhausted(e)' <=> Exhausted(e)
    BY DEF Waiting, Claimed, Placed, Decided, Exhausted, Top
  <2>2. TypeOK'
    BY DEF TypeOK
  <2>3. Path'
    BY <2>1 DEF Path
  <2>4. FromNext'
    BY <2>1 DEF FromNext
  <2>5. Matching'
    BY <2>1 DEF Matching
  <2>6. Explored'
    BY DEF Explored, Exhausted
  <2>7. QueueOrdered'
    BY <2>1, QueueStays
  <2> QED
    BY <2>2, <2>3, <2>4, <2>5, <2>6, <2>7
<1> QED
  BY <1>1, <1>2, <1>3, <1>4, <1>5, <1>6, <1>7 DEF Next

\* The search keeps to its path and its matching at every step.
THEOREM SearchInvariant == Spec => []SearchInv
<1>1. Init => SearchInv
  BY SearchInit
<1>2. SearchInv /\ [Next]_vars => SearchInv'
  BY SearchStep
<1> QED
  BY <1>1, <1>2, PTL DEF Spec

\* After any prefix of the queue, the placement is a matching of eligible
\* pairs that serves exactly the entries queue order entitles: what TagQueue
\* takes from placement.match.
THEOREM QueueOrderServed == Spec => []ServesInQueueOrder
<1>1. SearchInv => ServesInQueueOrder
  <2> SUFFICES ASSUME SearchInv, calls = <<>>
               PROVE  Pairs(holder) \in Matchings([i \in 1 .. next - 1 |-> i], elig)
    BY DEF ServesInQueueOrder
  <2>1. Claimed = {} /\ Decided = next - 1 /\ next - 1 \in Nat
    BY DEF Claimed, Decided, SearchInv, TypeOK
  <2>2. Pairs(holder) \in SUBSET elig /\ IsMatching(Pairs(holder))
    BY <2>1, PairsMatch DEF SearchInv, Matching
  <2>3. Matched(Pairs(holder)) = Placed
    BY PlacedAre
  <2>4. Placed \in SUBSET (1 .. next - 1)
    BY <2>1, PlacedRange DEF SearchInv
  <2>5. Served([i \in 1 .. next - 1 |-> i], elig) = Placed
    BY <2>1, <2>4, ServedIs DEF SearchInv, QueueOrdered
  <2> QED
    BY <2>2, <2>3, <2>5 DEF Matchings
<1> QED
  BY <1>1, SearchInvariant, PTL

\* Once match returns, no machine is free that fits an entry left waiting.
THEOREM NoneIdles == Spec => []NoMachineIdles
<1>1. SearchInv => NoMachineIdles
  <2> SUFFICES ASSUME SearchInv, calls = <<>>, next > NumEntries,
                      NEW e \in Entries, NEW m \in FreeMachines,
                      e \notin Matched(Pairs(holder)), holder[m] = 0, <<e, m>> \in elig
               PROVE  FALSE
    BY DEF NoMachineIdles
  <2>1. e \notin Placed /\ e \in 1 .. Decided /\ e # 0
    BY PlacedAre, SizesAssumption DEF Decided, SearchInv, TypeOK, Entries
  <2> DEFINE h == [holder EXCEPT ![m] = e]
  <2>2. \A k \in FreeMachines : h[k] = IF k = m THEN e ELSE holder[k]
    BY DEF SearchInv, TypeOK
  <2>3. \A k \in FreeMachines : holder[k] # e
    BY <2>1 DEF Placed
  <2>4. Pairs(h) \in SUBSET elig /\ IsMatching(Pairs(h))
    <3>1. Claimed = {}
      BY DEF Claimed
    <3> HIDE DEF h
    <3>2. \A k \in FreeMachines : h[k] # 0 => <<h[k], k>> \in elig
      BY <2>2 DEF SearchInv, Matching
    <3>3. \A j, k \in FreeMachines : h[j] = h[k] /\ h[j] # 0 => j = k
      BY <2>2, <2>3, <3>1 DEF SearchInv, Matching
    <3> QED
      BY <3>2, <3>3, PairsMatch
  <2>5. Matched(Pairs(h)) = Placed \cup {e}
    <3>1. {h[k] : k \in FreeMachines} \ {0} = Placed \cup {e}
      <4> HIDE DEF h
      <4> QED
        BY <2>1, <2>2 DEF Placed
    <3> QED
      BY <3>1, PlacedIs
  <2>6. Matchable(Placed \cup {e}, elig)
    BY <2>4, <2>5 DEF Matchable
  <2>7. Matchable((Placed \cap 1 .. e - 1) \cup {e}, elig)
    BY <2>6, PartMatchable
  <2> QED
    BY <2>1, <2>7 DEF SearchInv, QueueOrdered
<1> QED
  BY <1>1, SearchInvariant, PTL

\* No step of the search, not even halfway along a path being rewritten,
\* leaves an entry that held a machine without one.
THEOREM PlacementNeverLost == Spec => NeverLosesPlacement
<1>1. SearchInv /\ [Next]_vars => Matched(Pairs(holder)) \subseteq Matched(Pairs(holder'))
  <2> SUFFICES ASSUME SearchInv, [Next]_vars
               PROVE  Matched(Pairs(holder)) \subseteq Matched(Pairs(holder'))
    OBVIOUS
  <2>1. CASE Claim
    <3>1. Placed \subseteq Placed'
      BY <2>1, ClaimPlaces
    <3> QED
      BY <3>1, PlacedAre
  <2>2. CASE ~ Claim
    <3>1. holder' = holder
      BY <2>2 DEF Next, vars, AssignNext, Skip, FindFree, Descend, GiveUp
    <3> QED
      BY <3>1
  <2> QED
    BY <2>1, <2>2
<1>2. SearchInv /\ [Next]_vars => [Matched(Pairs(holder)) \subseteq Matched(Pairs(holder'))]_vars
  BY <1>1
<1> QED
  BY <1>2, SearchInvariant, PTL DEF Spec, NeverLosesPlacement
=============================================================================
