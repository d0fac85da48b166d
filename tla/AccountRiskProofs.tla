-------------------------- MODULE AccountRiskProofs --------------------------
(***************************************************************************)
(* Proofs about AccountRisk: its types, and that concurrent executions     *)
(* exceed each limit by at most Workers - 1, for any executions, symbols,  *)
(* limits, length of the day and number of workers.                        *)
(*                                                                         *)
(* Each bound has the same shape: what the limit counts plus the           *)
(* executions that have read too early to be turned away is at most the    *)
(* limit plus Workers - 1.                                                 *)
(***************************************************************************)
EXTENDS AccountRisk, FiniteSetTheorems, WellFoundedInduction, TLAPS

-----------------------------------------------------------------------------
(* Sums over finite sets.  The library's induction theorems take an        *)
(* operator; an argument about the least counterexample does without.      *)

NatLess == {ss \in Nat \X Nat : ss[1] < ss[2]}

LEMMA NatLeast ==
    ASSUME NEW T \in SUBSET Nat, T # {}
    PROVE  \E n \in T : \A m \in T : n <= m
  <1>1. IsWellFoundedOn(NatLess, Nat)
    BY NatLessThanWellFounded DEF OpToRel, NatLess
  <1>2. PICK n \in T : \A m \in T : ~ (<<m, n>> \in NatLess)
    BY <1>1, WFMin
  <1>3. ASSUME NEW m \in T
        PROVE  n <= m
    <2>1. ~ (m < n)
      BY <1>2 DEF NatLess
    <2>. QED  BY <2>1
  <1>. QED  BY <1>3

Chosen(s) == CHOOSE x \in s : TRUE

\* What the fold over the subsets of S computes at s, from the fold g.
Unfolded(g, f, s) == IF s = {} THEN 0 ELSE f[Chosen(s)] + g[s \ {Chosen(s)}]

IsFold(g, f, S) == g = [s \in SUBSET S |-> Unfolded(g, f, s)]

\* Removing the chosen element leaves a smaller set.
LEMMA RemoveChosen ==
    ASSUME NEW S, IsFiniteSet(S), S # {}
    PROVE  /\ Chosen(S) \in S
           /\ IsFiniteSet(S \ {Chosen(S)})
           /\ Cardinality(S) \in Nat \ {0}
           /\ Cardinality(S \ {Chosen(S)}) = Cardinality(S) - 1
  <1>1. Chosen(S) \in S
    BY DEF Chosen
  <1>. QED
    BY <1>1, FS_RemoveElement, FS_CardinalityType, FS_EmptySet

\* The recursion of the fold has a solution: the sets with up to n elements
\* have one for every n, as a first n without one would extend the last.
LEMMA FoldExists ==
    ASSUME NEW S, IsFiniteSet(S), NEW f
    PROVE  \E g : IsFold(g, f, S)
  <1>. DEFINE UpTo(g, n) == \A s \in SUBSET S : Cardinality(s) <= n => g[s] = Unfolded(g, f, s)
              Bad == {n \in Nat : ~ \E g : UpTo(g, n)}
  <1>1. \A s \in SUBSET S : IsFiniteSet(s) /\ Cardinality(s) \in Nat
    BY FS_Subset, FS_CardinalityType
  <1>2. ASSUME Bad # {}
        PROVE  FALSE
    <2>1. PICK n \in Bad : \A m \in Bad : n <= m
      BY <1>2, NatLeast
    <2>2. n \in Nat
      BY <2>1
    <2>3. \E g : \A s \in SUBSET S : Cardinality(s) < n => g[s] = Unfolded(g, f, s)
      <3>1. CASE n = 0
        BY <1>1, <3>1
      <3>2. CASE n # 0
        <4>1. n - 1 \in Nat /\ n - 1 \notin Bad
          BY <2>1, <2>2, <3>2
        <4>2. PICK g : UpTo(g, n - 1)
          BY <4>1
        <4>3. \A s \in SUBSET S : Cardinality(s) < n => Cardinality(s) <= n - 1
          BY <1>1, <2>2
        <4>. QED  BY <4>2, <4>3
      <3>. QED  BY <3>1, <3>2
    <2>4. PICK g : \A s \in SUBSET S : Cardinality(s) < n => g[s] = Unfolded(g, f, s)
      BY <2>3
    <2>. DEFINE h == [s \in SUBSET S |-> IF Cardinality(s) < n THEN g[s] ELSE Unfolded(g, f, s)]
    <2>5. ASSUME NEW s \in SUBSET S, Cardinality(s) <= n
          PROVE  h[s] = Unfolded(h, f, s)
      <3>1. h[s] = Unfolded(g, f, s)
        BY <2>4
      <3>2. CASE s = {}
        BY <3>1, <3>2 DEF Unfolded
      <3>3. CASE s # {}
        <4>1. /\ s \ {Chosen(s)} \in SUBSET S
              /\ Cardinality(s \ {Chosen(s)}) < n
          BY <1>1, <2>2, <2>5, <3>3, RemoveChosen
        <4>2. h[s \ {Chosen(s)}] = g[s \ {Chosen(s)}]
          BY <4>1
        <4>. QED  BY <3>1, <4>2 DEF Unfolded
      <3>. QED  BY <3>2, <3>3
    <2>6. UpTo(h, n)
      BY <2>5
    <2>. QED  BY <2>1, <2>6
  <1>3. Cardinality(S) \in Nat
    BY <1>1
  <1>4. PICK g : UpTo(g, Cardinality(S))
    BY <1>2, <1>3
  <1>5. \A s \in SUBSET S : Cardinality(s) <= Cardinality(S)
    BY FS_Subset
  <1>. DEFINE h == [s \in SUBSET S |-> g[s]]
  <1>6. ASSUME NEW s \in SUBSET S
        PROVE  h[s] = Unfolded(h, f, s)
    <2>1. h[s] = Unfolded(g, f, s)
      BY <1>4, <1>5
    <2>2. s \ {Chosen(s)} \in SUBSET S
      OBVIOUS
    <2>3. h[s \ {Chosen(s)}] = g[s \ {Chosen(s)}]
      BY <2>2
    <2>. QED  BY <2>1, <2>3 DEF Unfolded
  <1>7. IsFold(h, f, S)
    BY <1>6 DEF IsFold
  <1>. QED  BY <1>7

LEMMA SumIsFold ==
    ASSUME NEW S, IsFiniteSet(S), NEW f
    PROVE  \E g : /\ IsFold(g, f, S)
                  /\ SumFunctionOnSet(f, S) = g[S]
  <1>. DEFINE G == CHOOSE g : IsFold(g, f, S)
  <1>1. IsFold(G, f, S)
    BY FoldExists
  <1>2. SumFunctionOnSet(f, S) = G[S]
    BY DEF SumFunctionOnSet, FoldFunctionOnSet, MapThenFoldSet, IsFold, Unfolded, Chosen
  <1>. QED  BY <1>1, <1>2

\* Two folds agree where both are defined.
LEMMA FoldsAgree ==
    ASSUME NEW S, IsFiniteSet(S), NEW f, NEW T \in SUBSET S, NEW g, NEW h,
           IsFold(g, f, S),
           IsFold(h, f, T)
    PROVE  g[T] = h[T]
  <1>. DEFINE Bad == {n \in Nat : \E s \in SUBSET T : Cardinality(s) = n /\ g[s] # h[s]}
  <1>1. \A s \in SUBSET T : IsFiniteSet(s) /\ Cardinality(s) \in Nat
    BY FS_Subset, FS_CardinalityType
  <1>2. ASSUME Bad # {}
        PROVE  FALSE
    <2>1. PICK n \in Bad : \A m \in Bad : n <= m
      BY <1>2, NatLeast
    <2>2. PICK s \in SUBSET T : Cardinality(s) = n /\ g[s] # h[s]
      BY <2>1
    <2>3. g[s] = Unfolded(g, f, s) /\ h[s] = Unfolded(h, f, s)
      <3>1. s \in SUBSET S
        OBVIOUS
      <3>. QED  BY <3>1 DEF IsFold
    <2>4. CASE s = {}
      BY <2>2, <2>3, <2>4 DEF Unfolded
    <2>5. CASE s # {}
      <3>. DEFINE r == s \ {Chosen(s)}
      <3>1. r \in SUBSET T /\ Cardinality(r) \in Nat /\ Cardinality(r) < n
        BY <1>1, <2>2, <2>5, RemoveChosen
      <3>2. Cardinality(r) \notin Bad
        <4>1. n \in Nat /\ ~ (n <= Cardinality(r))
          BY <3>1
        <4>2. \A m \in Bad : n <= m
          BY <2>1
        <4>. HIDE DEF Bad, r
        <4>. QED  BY <4>1, <4>2
      <3>3. g[r] = h[r]
        BY <3>1, <3>2
      <3>. QED  BY <2>2, <2>3, <3>3 DEF Unfolded
    <2>. QED  BY <2>4, <2>5
  <1>. QED  BY <1>1, <1>2

LEMMA SumEmpty == ASSUME NEW f PROVE SumFunctionOnSet(f, {}) = 0
  <1>1. PICK g : /\ IsFold(g, f, {})
                 /\ SumFunctionOnSet(f, {}) = g[{}]
    BY SumIsFold, FS_EmptySet
  <1>2. {} \in SUBSET {}
    OBVIOUS
  <1>. QED  BY <1>1, <1>2 DEF IsFold, Unfolded

LEMMA SumChosen ==
    ASSUME NEW S, IsFiniteSet(S), S # {}, NEW f
    PROVE  SumFunctionOnSet(f, S) = f[Chosen(S)] + SumFunctionOnSet(f, S \ {Chosen(S)})
  <1>. DEFINE T == S \ {Chosen(S)}
  <1>1. IsFiniteSet(T) /\ T \in SUBSET S
    BY RemoveChosen
  <1>2. PICK g : /\ IsFold(g, f, S)
                 /\ SumFunctionOnSet(f, S) = g[S]
    BY SumIsFold
  <1>3. PICK h : /\ IsFold(h, f, T)
                 /\ SumFunctionOnSet(f, T) = h[T]
    BY <1>1, SumIsFold
  <1>4. g[T] = h[T]
    <2>. HIDE DEF T
    <2>. QED  BY <1>1, <1>2, <1>3, FoldsAgree
  <1>5. g[S] = Unfolded(g, f, S)
    BY <1>2 DEF IsFold
  <1>. QED  BY <1>2, <1>3, <1>4, <1>5 DEF Unfolded

LEMMA SumType ==
    ASSUME NEW S, IsFiniteSet(S), NEW f, \A x \in S : f[x] \in Nat
    PROVE  SumFunctionOnSet(f, S) \in Nat
  <1>. DEFINE Bad == {n \in Nat : \E s \in SUBSET S : /\ Cardinality(s) = n
                                                   /\ SumFunctionOnSet(f, s) \notin Nat}
  <1>1. \A s \in SUBSET S : IsFiniteSet(s) /\ Cardinality(s) \in Nat
    BY FS_Subset, FS_CardinalityType
  <1>2. ASSUME Bad # {}
        PROVE  FALSE
    <2>1. PICK n \in Bad : \A m \in Bad : n <= m
      BY <1>2, NatLeast
    <2>2. PICK s \in SUBSET S : Cardinality(s) = n /\ SumFunctionOnSet(f, s) \notin Nat
      BY <2>1
    <2>3. s # {}
      BY <2>2, SumEmpty
    <2>. DEFINE r == s \ {Chosen(s)}
    <2>4. /\ Chosen(s) \in S
          /\ r \in SUBSET S /\ Cardinality(r) \in Nat
          /\ n \in Nat /\ ~ (n <= Cardinality(r))
      BY <1>1, <2>2, <2>3, RemoveChosen
    <2>5. SumFunctionOnSet(f, s) = f[Chosen(s)] + SumFunctionOnSet(f, r)
      BY <1>1, <2>3, SumChosen
    <2>6. Cardinality(r) \notin Bad
      <3>. HIDE DEF Bad, r
      <3>. QED  BY <2>1, <2>4
    <2>7. SumFunctionOnSet(f, r) \in Nat
      BY <2>4, <2>6
    <2>. QED  BY <2>2, <2>4, <2>5, <2>7
  <1>. QED  BY <1>1, <1>2

\* The sum does not depend on the order: any element may be taken first.
LEMMA SumElement ==
    ASSUME NEW S, IsFiniteSet(S), NEW f, \A x \in S : f[x] \in Nat, NEW x \in S
    PROVE  SumFunctionOnSet(f, S) = f[x] + SumFunctionOnSet(f, S \ {x})
  <1>. DEFINE Wrong(s) == \E y \in s : 
                  SumFunctionOnSet(f, s) # f[y] + SumFunctionOnSet(f, s \ {y})
              Bad == {n \in Nat : \E s \in SUBSET S : Cardinality(s) = n /\ Wrong(s)}
  <1>1. \A s \in SUBSET S : IsFiniteSet(s) /\ Cardinality(s) \in Nat
    BY FS_Subset, FS_CardinalityType
  <1>2. ASSUME Bad # {}
        PROVE  FALSE
    <2>1. PICK n \in Bad : \A m \in Bad : n <= m
      BY <1>2, NatLeast
    <2>2. PICK s \in SUBSET S : Cardinality(s) = n /\ Wrong(s)
      BY <2>1
    <2>3. PICK y \in s : SumFunctionOnSet(f, s) # f[y] + SumFunctionOnSet(f, s \ {y})
      BY <2>2
    <2>. DEFINE c == Chosen(s)
    <2>4. c \in s /\ SumFunctionOnSet(f, s) = f[c] + SumFunctionOnSet(f, s \ {c})
      BY <1>1, SumChosen, RemoveChosen
    <2>5. y # c
      BY <2>3, <2>4
    <2>6. ASSUME NEW e \in s
          PROVE  ~ Wrong(s \ {e})
      <3>1. /\ Cardinality(s \ {e}) \in Nat /\ n \in Nat
            /\ ~ (n <= Cardinality(s \ {e}))
        BY <1>1, <2>2, FS_RemoveElement
      <3>2. Cardinality(s \ {e}) \notin Bad
        <4>. HIDE DEF Bad
        <4>. QED  BY <2>1, <3>1
      <3>3. s \ {e} \in SUBSET S
        OBVIOUS
      <3>. QED  BY <3>1, <3>2, <3>3
    <2>7. SumFunctionOnSet(f, s \ {c}) = f[y] + SumFunctionOnSet(f, (s \ {c}) \ {y})
      BY <2>4, <2>5, <2>6
    <2>8. SumFunctionOnSet(f, s \ {y}) = f[c] + SumFunctionOnSet(f, (s \ {y}) \ {c})
      BY <2>4, <2>5, <2>6
    <2>9. (s \ {c}) \ {y} = (s \ {y}) \ {c}
      OBVIOUS
    <2>10. SumFunctionOnSet(f, (s \ {y}) \ {c}) \in Nat /\ f[c] \in Nat /\ f[y] \in Nat
      <3>1. IsFiniteSet((s \ {y}) \ {c}) /\ (s \ {y}) \ {c} \in SUBSET S
        BY <1>1
      <3>. QED  BY <2>4, <3>1, SumType
    <2>. HIDE DEF c
    <2>. QED  BY <2>3, <2>4, <2>7, <2>8, <2>9, <2>10
  <1>3. IsFiniteSet(S) /\ Cardinality(S) \in Nat /\ S \in SUBSET S
    BY <1>1
  <1>4. ~ Wrong(S)
    BY <1>2, <1>3
  <1>. QED  BY <1>4

\* More in every place is more in sum.
LEMMA SumMonotone ==
    ASSUME NEW S, IsFiniteSet(S), NEW f, NEW g,
           \A x \in S : f[x] \in Nat /\ g[x] \in Nat /\ f[x] <= g[x]
    PROVE  SumFunctionOnSet(f, S) <= SumFunctionOnSet(g, S)
  <1>. DEFINE Bad == {n \in Nat : \E s \in SUBSET S : 
                  /\ Cardinality(s) = n
                  /\ ~ (SumFunctionOnSet(f, s) <= SumFunctionOnSet(g, s))}
  <1>1. \A s \in SUBSET S : IsFiniteSet(s) /\ Cardinality(s) \in Nat
    BY FS_Subset, FS_CardinalityType
  <1>2. ASSUME Bad # {}
        PROVE  FALSE
    <2>1. PICK n \in Bad : \A m \in Bad : n <= m
      BY <1>2, NatLeast
    <2>2. PICK s \in SUBSET S :
             /\ Cardinality(s) = n
             /\ ~ (SumFunctionOnSet(f, s) <= SumFunctionOnSet(g, s))
      BY <2>1
    <2>3. s # {}
      BY <2>2, SumEmpty
    <2>. DEFINE r == s \ {Chosen(s)}
    <2>4. /\ Chosen(s) \in S
          /\ r \in SUBSET S /\ Cardinality(r) \in Nat
          /\ n \in Nat /\ ~ (n <= Cardinality(r))
      BY <1>1, <2>2, <2>3, RemoveChosen
    <2>5. /\ SumFunctionOnSet(f, s) = f[Chosen(s)] + SumFunctionOnSet(f, r)
          /\ SumFunctionOnSet(g, s) = g[Chosen(s)] + SumFunctionOnSet(g, r)
      BY <1>1, <2>3, SumChosen
    <2>6. Cardinality(r) \notin Bad
      <3>. HIDE DEF Bad, r
      <3>. QED  BY <2>1, <2>4
    <2>7. SumFunctionOnSet(f, r) <= SumFunctionOnSet(g, r)
      BY <2>4, <2>6
    <2>8. SumFunctionOnSet(f, r) \in Nat /\ SumFunctionOnSet(g, r) \in Nat
      <3>1. IsFiniteSet(r)
        BY <1>1, <2>4
      <3>. QED  BY <2>4, <3>1, SumType
    <2>. HIDE DEF r
    <2>. QED  BY <2>2, <2>4, <2>5, <2>7, <2>8
  <1>. QED  BY <1>1, <1>2
-----------------------------------------------------------------------------
(* Types, finiteness and the clock.                                        *)

BusyLabels == Checking \union {"enter", "record"}

\* What the counting needs beside the types: finite sets, a pool that is
\* never overfull, and times that are not in the future.
TypeInv ==
    /\ TypeOK
    /\ IsFiniteSet(opens)
    /\ IsFiniteSet(Busy) /\ Cardinality(Busy) <= Workers
    /\ IsFiniteSet(OpenSymbols(units))
    /\ \A t \in Tasks : IsFiniteSet(OpenSymbols(stats[t].units))
    /\ \A o \in opens : o.at <= now
    /\ \A t \in Tasks : stats[t].now <= now

LEMMA DayType == \A n \in Nat : DayOf(n) \in Nat /\ DayOf(n) * DayLength \in Nat
  BY TimeAssumption DEF DayOf

LEMMA DayMonotone == \A m, n \in Nat : m <= n => DayOf(m) <= DayOf(n)
  BY TimeAssumption DEF DayOf

\* Everything of a day or of a later one is counted since its start.
LEMMA DaySince == \A m, n \in Nat : DayOf(m) >= DayOf(n) => m >= DayOf(n) * DayLength
  BY TimeAssumption DEF DayOf

LEMMA NoStatsType == NoStats \in Stats /\ OpenSymbols(NoStats.units) = {} /\ NoStats.now = 0
  BY DEF NoStats, Stats, Instant, OpenSymbols

LEMMA LimitTypes ==
    ASSUME TypeOK
    PROVE  /\ limits.loss \in Nat /\ limits.trades \in Nat /\ limits.open \in Nat
           /\ limits.cooldown \in Nat /\ limits.risk \in Nat /\ limits.penalty \in Nat
  BY LimitAssumption DEF TypeOK, Limits

\* The pool stays within its size when an execution moves.
LEMMA PoolMoves ==
    ASSUME TypeInv, NEW t \in Tasks, NEW label \in Labels, Goto(t, label),
           t \in Busy \/ Cardinality(Busy) < Workers
    PROVE  /\ pc' \in [Tasks -> Labels]
           /\ IsFiniteSet(Busy') /\ Cardinality(Busy') <= Workers
  <1>1. pc' \in [Tasks -> Labels]
    BY DEF Goto, TypeInv, TypeOK
  <1>2. Busy' \in SUBSET (Busy \union {t})
    BY DEF Goto, Busy, TypeInv, TypeOK
  <1>3. /\ IsFiniteSet(Busy \union {t})
        /\ Cardinality(Busy \union {t}) <= Workers
    <2>1. /\ IsFiniteSet(Busy) /\ Cardinality(Busy) \in Nat
          /\ Cardinality(Busy) <= Workers
      BY FS_CardinalityType DEF TypeInv
    <2>2. /\ IsFiniteSet(Busy \union {t})
          /\ Cardinality(Busy \union {t}) =
                IF t \in Busy THEN Cardinality(Busy) ELSE Cardinality(Busy) + 1
      BY <2>1, FS_AddElement
    <2>. HIDE DEF Busy
    <2>. QED  BY <2>1, <2>2, WorkerAssumption
  <1>4. /\ IsFiniteSet(Busy') /\ Cardinality(Busy') <= Cardinality(Busy \union {t})
    BY <1>2, <1>3, FS_Subset
  <1>5. Cardinality(Busy') \in Nat /\ Cardinality(Busy \union {t}) \in Nat
    BY <1>3, <1>4, FS_CardinalityType
  <1>. QED  BY <1>1, <1>3, <1>4, <1>5, WorkerAssumption

\* The risk that is estimated is a number.
LEMMA EstimateType ==
    ASSUME TypeInv, NEW t \in Tasks, NEW visible
    PROVE  EstimatedRisk(stats[t].units, visible) \in Nat
  <1>. DEFINE u == stats[t].units
              f == [s \in Symbols |-> IF s \in visible THEN u[s] ELSE u[s] * limits.penalty]
  <1>1. u \in [Symbols -> Nat]
    BY DEF TypeInv, TypeOK, Stats
  <1>2. IsFiniteSet(OpenSymbols(u))
    BY DEF TypeInv
  <1>3. limits.penalty \in Nat
    BY LimitTypes DEF TypeInv
  <1>4. \A s \in OpenSymbols(u) : f[s] \in Nat
    <2>1. ASSUME NEW s \in OpenSymbols(u)
          PROVE  u[s] \in Nat /\ s \in Symbols
      BY <1>1 DEF OpenSymbols
    <2>2. ASSUME NEW m \in Nat, NEW n \in Nat
          PROVE  m * n \in Nat
      OBVIOUS
    <2>. HIDE DEF u
    <2>. QED  BY <1>3, <2>1, <2>2
  <1>5. SumFunctionOnSet(f, OpenSymbols(u)) \in Nat
    <2>. HIDE DEF f, u
    <2>. QED  BY <1>2, <1>4, SumType
  <1>. QED  BY <1>5 DEF EstimatedRisk

\* The last of the recorded opens of a symbol.
LEMMA LastOpen ==
    ASSUME TypeInv, NEW s \in Symbols
    PROVE  /\ LastOpenAt(s) \in Instant
           /\ \A o \in opens : o.symbol = s => LastOpenAt(s) \in Nat /\ o.at <= LastOpenAt(s)
  <1>. DEFINE times == {o.at : o \in {p \in opens : p.symbol = s}}
  <1>1. \A n \in times : n \in Nat /\ n <= now
    BY DEF TypeInv, TypeOK, Open
  <1>2. now \in Nat
    BY DEF TypeInv, TypeOK
  <1>3. CASE times = {}
    <2>1. LastOpenAt(s) = Never
      BY <1>3 DEF LastOpenAt
    <2>2. \A o \in opens : o.symbol # s
      BY <1>3
    <2>. QED  BY <2>1, <2>2 DEF Instant
  <1>4. CASE times # {}
    <2>. DEFINE ages == {d \in Nat : now - d \in times}
    <2>1. ages # {}
      <3>1. PICK n \in times : TRUE
        BY <1>4
      <3>2. now - n \in Nat /\ now - (now - n) = n
        BY <1>1, <1>2, <3>1
      <3>. HIDE DEF times
      <3>. QED  BY <3>1, <3>2
    <2>2. PICK d \in ages : \A e \in ages : d <= e
      <3>1. ages \in SUBSET Nat
        OBVIOUS
      <3>. HIDE DEF ages
      <3>. QED  BY <2>1, <3>1, NatLeast
    <2>3. ASSUME NEW n \in times
          PROVE  now - d >= n
      <3>1. now - n \in Nat /\ now - (now - n) = n
        BY <1>1, <1>2
      <3>2. d <= now - n
        <4>. HIDE DEF times
        <4>. QED  BY <2>2, <3>1
      <3>3. d \in Nat /\ n \in Nat
        BY <1>1
      <3>. HIDE DEF times, ages
      <3>. QED  BY <1>2, <3>2, <3>3
    <2>4. \E m \in times : \A n \in times : m >= n
      <3>. HIDE DEF times
      <3>. QED  BY <2>2, <2>3
    <2>5. LastOpenAt(s) = Max(times)
      BY <1>4 DEF LastOpenAt
    <2>6. Max(times) \in times /\ \A n \in times : Max(times) >= n
      <3>. HIDE DEF times
      <3>. QED  BY <2>4 DEF Max
    <2>7. LastOpenAt(s) \in Nat
      BY <1>1, <2>5, <2>6
    <2>8. ASSUME NEW o \in opens, o.symbol = s
          PROVE  o.at <= LastOpenAt(s)
      <3>1. o.at \in times
        BY <2>8
      <3>. HIDE DEF times
      <3>. QED  BY <1>1, <2>5, <2>6, <2>7, <3>1
    <2>. QED  BY <2>7, <2>8 DEF Instant
  <1>. QED  BY <1>3, <1>4

LEMMA InitType == Init => TypeInv
  <1>. SUFFICES ASSUME Init
                PROVE  TypeInv
    OBVIOUS
  <1>1. TypeOK
    BY NoStatsType, StoplessAssumption DEF Init, TypeOK, Labels
  <1>2. Busy = {} /\ OpenSymbols(units) = {}
    BY DEF Init, Busy, OpenSymbols, Checking
  <1>. QED  BY <1>1, <1>2, NoStatsType, FS_EmptySet, WorkerAssumption DEF Init, TypeInv

\* The steps of the check, each of which fills one field of stats.
LEMMA CheckType ==
    ASSUME TypeInv, NEW t \in Tasks,
           \/ Begin(t) \/ ReadLoss(t) \/ ReadCount(t) \/ ReadPositions(t)
           \/ ReadLastOpen(t) \/ ReadAlgoOrders(t) \/ Judge(t)
    PROVE  TypeInv'
  <1>1. /\ UNCHANGED <<limits, plan, stopless, opens, units, stops, loss, now>>
        /\ faults' \in Nat
    BY DEF Begin, ReadLoss, ReadCount, ReadPositions, ReadLastOpen, ReadAlgoOrders,
           Judge, config, Fails, TypeInv, TypeOK
  <1>2. \E label \in Labels : Goto(t, label)
    BY DEF Begin, ReadLoss, ReadCount, ReadPositions, ReadLastOpen, ReadAlgoOrders,
           Judge, Labels, Checking
  <1>3. t \in Busy \/ Cardinality(Busy) < Workers
    BY DEF Begin, ReadLoss, ReadCount, ReadPositions, ReadLastOpen, ReadAlgoOrders,
           Judge, Busy, Checking
  <1>4. /\ pc' \in [Tasks -> Labels]
        /\ IsFiniteSet(Busy') /\ Cardinality(Busy') <= Workers
    BY <1>2, <1>3, PoolMoves
  <1>5. \E x \in Stats : /\ stats' = [stats EXCEPT ![t] = x]
                         /\ IsFiniteSet(OpenSymbols(x.units))
                         /\ x.now <= now
    <2>. DEFINE y == stats[t]
    <2>1. /\ y \in Stats
          /\ y.now \in Nat /\ y.loss \in Nat /\ y.trades \in Nat
          /\ y.units \in [Symbols -> Nat] /\ y.last \in Instant /\ y.risk \in Nat
          /\ IsFiniteSet(OpenSymbols(y.units)) /\ y.now <= now
          /\ stats \in [Tasks -> Stats]
          /\ now \in Nat /\ loss \in Nat /\ units \in [Symbols -> Nat]
          /\ IsFiniteSet(OpenSymbols(units))
      BY DEF TypeInv, TypeOK, Stats
    <2>2. CASE Begin(t)
      <3>1. /\ [y EXCEPT !.now = now] \in Stats
            /\ stats' = [stats EXCEPT ![t] = [y EXCEPT !.now = now]]
        BY <2>1, <2>2 DEF Begin, Stats
      <3>2. /\ [y EXCEPT !.now = now].units = y.units
            /\ [y EXCEPT !.now = now].now <= now
        BY <2>1 DEF Stats
      <3>. QED  BY <2>1, <3>1, <3>2
    <2>3. CASE UNCHANGED stats
      BY <2>1, <2>3
    <2>4. CASE stats' = [stats EXCEPT ![t].loss = loss]
      <3>1. /\ [y EXCEPT !.loss = loss] \in Stats
            /\ stats' = [stats EXCEPT ![t] = [y EXCEPT !.loss = loss]]
        BY <2>1, <2>4 DEF Stats
      <3>. QED  BY <2>1, <3>1 DEF Stats
    <2>5. CASE ReadCount(t)
      <3>. DEFINE n == CountOpensSince(DayOf(y.now) * DayLength)
      <3>1. n \in Nat
        <4>1. {o \in opens : o.at >= DayOf(y.now) * DayLength} \in SUBSET opens
          OBVIOUS
        <4>. QED  BY <4>1, FS_Subset, FS_CardinalityType DEF TypeInv, CountOpensSince
      <3>2. stats' = [stats EXCEPT ![t].trades = n]
        BY <2>5 DEF ReadCount
      <3>. HIDE DEF n
      <3>3. /\ [y EXCEPT !.trades = n] \in Stats
            /\ stats' = [stats EXCEPT ![t] = [y EXCEPT !.trades = n]]
        BY <2>1, <3>1, <3>2 DEF Stats
      <3>. QED  BY <2>1, <3>3 DEF Stats
    <2>6. CASE stats' = [stats EXCEPT ![t].units = units]
      <3>1. /\ [y EXCEPT !.units = units] \in Stats
            /\ stats' = [stats EXCEPT ![t] = [y EXCEPT !.units = units]]
        BY <2>1, <2>6 DEF Stats
      <3>. QED  BY <2>1, <3>1 DEF Stats
    <2>7. CASE ReadLastOpen(t)
      <3>. DEFINE n == LastOpenAt(plan[t])
      <3>1. n \in Instant
        BY LastOpen DEF TypeInv, TypeOK
      <3>2. stats' = [stats EXCEPT ![t].last = n]
        BY <2>7 DEF ReadLastOpen
      <3>. HIDE DEF n
      <3>3. /\ [y EXCEPT !.last = n] \in Stats
            /\ stats' = [stats EXCEPT ![t] = [y EXCEPT !.last = n]]
        BY <2>1, <3>1, <3>2 DEF Stats
      <3>. QED  BY <2>1, <3>3 DEF Stats
    <2>8. CASE ReadAlgoOrders(t)
      <3>1. PICK visible : stats' = [stats EXCEPT ![t].risk = EstimatedRisk(y.units, visible)]
        BY <2>8 DEF ReadAlgoOrders
      <3>. DEFINE n == EstimatedRisk(y.units, visible)
      <3>2. n \in Nat
        BY EstimateType
      <3>3. stats' = [stats EXCEPT ![t].risk = n]
        BY <3>1
      <3>. HIDE DEF n
      <3>4. /\ [y EXCEPT !.risk = n] \in Stats
            /\ stats' = [stats EXCEPT ![t] = [y EXCEPT !.risk = n]]
        BY <2>1, <3>2, <3>3 DEF Stats
      <3>. QED  BY <2>1, <3>4 DEF Stats
    <2>9. CASE Judge(t)
      <3>1. /\ NoStats \in Stats
            /\ IsFiniteSet(OpenSymbols(NoStats.units))
            /\ NoStats.now <= now
        BY <2>1, NoStatsType, FS_EmptySet
      <3>2. stats' = [stats EXCEPT ![t] = NoStats]
        BY <2>9 DEF Judge
      <3>. QED  BY <3>1, <3>2
    <2>. QED
      BY <2>2, <2>3, <2>4, <2>5, <2>6, <2>7, <2>8, <2>9 DEF ReadLoss, ReadPositions
  <1>6. PICK x \in Stats : /\ stats' = [stats EXCEPT ![t] = x]
                           /\ IsFiniteSet(OpenSymbols(x.units))
                           /\ x.now <= now
    BY <1>5
  <1>7. stats' \in [Tasks -> Stats]
    BY <1>6 DEF TypeInv, TypeOK
  <1>8. \A u \in Tasks : /\ IsFiniteSet(OpenSymbols(stats'[u].units))
                         /\ stats'[u].now <= now
    BY <1>6 DEF TypeInv, TypeOK
  <1>9. OpenSymbols(units)' = OpenSymbols(units)
    BY <1>1 DEF OpenSymbols
  <1>10. \A u \in Tasks : OpenSymbols(stats[u].units)' = OpenSymbols(stats'[u].units)
    BY DEF OpenSymbols
  <1>. QED  BY <1>1, <1>4, <1>7, <1>8, <1>9, <1>10 DEF TypeInv, TypeOK

\* The rest of an execution, and the market.
LEMMA EffectType ==
    ASSUME TypeInv,
           \/ \E t \in Tasks : Enter(t) \/ NoEntry(t) \/ Record(t)
           \/ \E s \in Symbols : CloseOut(s)
    PROVE  TypeInv'
  <1>1. /\ UNCHANGED <<limits, plan, stopless, now, stats>>
        /\ loss' \in Nat /\ faults' \in Nat /\ stops' \subseteq Symbols
    BY DEF Enter, NoEntry, Record, CloseOut, config, Fails, TypeInv, TypeOK
  <1>2. /\ pc' \in [Tasks -> Labels]
        /\ IsFiniteSet(Busy') /\ Cardinality(Busy') <= Workers
    <2>1. CASE UNCHANGED pc
      BY <2>1 DEF TypeInv, TypeOK, Busy
    <2>2. CASE \E t \in Tasks : Enter(t) \/ NoEntry(t) \/ Record(t)
      <3>1. PICK t \in Tasks, label \in Labels : t \in Busy /\ Goto(t, label)
        BY <2>2 DEF Enter, NoEntry, Record, Busy, Labels
      <3>. QED  BY <3>1, PoolMoves
    <2>. QED  BY <2>1, <2>2 DEF CloseOut
  <1>3. units' \in [Symbols -> Nat] /\ IsFiniteSet(OpenSymbols(units'))
    <2>1. \/ UNCHANGED units
          \/ \E s \in Symbols, n \in Nat : units' = [units EXCEPT ![s] = n]
      BY DEF Enter, NoEntry, Record, CloseOut, TypeInv, TypeOK
    <2>2. CASE UNCHANGED units
      BY <2>2 DEF TypeInv, TypeOK
    <2>3. CASE \E s \in Symbols, n \in Nat : units' = [units EXCEPT ![s] = n]
      <3>1. PICK s \in Symbols, n \in Nat : units' = [units EXCEPT ![s] = n]
        BY <2>3
      <3>2. OpenSymbols(units') \in SUBSET (OpenSymbols(units) \union {s})
        BY <3>1 DEF OpenSymbols, TypeInv, TypeOK
      <3>3. IsFiniteSet(OpenSymbols(units) \union {s})
        BY FS_AddElement DEF TypeInv
      <3>4. IsFiniteSet(OpenSymbols(units'))
        BY <3>2, <3>3, FS_Subset
      <3>. QED  BY <3>1, <3>4 DEF TypeInv, TypeOK
    <2>. QED  BY <2>1, <2>2, <2>3
  <1>4. opens' \subseteq Open /\ IsFiniteSet(opens') /\ \A o \in opens' : o.at <= now
    <2>1. \/ UNCHANGED opens
          \/ \E t \in Tasks :
                opens' = opens \union {[by |-> t, symbol |-> plan[t], at |-> now]}
      BY DEF Enter, NoEntry, Record, CloseOut, RecordSuccessfulOpen
    <2>2. CASE UNCHANGED opens
      BY <2>2 DEF TypeInv, TypeOK
    <2>3. ASSUME NEW t \in Tasks,
                 opens' = opens \union {[by |-> t, symbol |-> plan[t], at |-> now]}
          PROVE  <1>4
      <3>1. IsFiniteSet(opens')
        BY <2>3, FS_AddElement DEF TypeInv
      <3>. QED  BY <2>3, <3>1 DEF TypeInv, TypeOK, Open
    <2>. QED  BY <2>1, <2>2, <2>3
  <1>5. OpenSymbols(units)' = OpenSymbols(units')
    BY DEF OpenSymbols
  <1>6. \A u \in Tasks : OpenSymbols(stats[u].units)' = OpenSymbols(stats[u].units)
    BY <1>1 DEF OpenSymbols
  <1>. QED  BY <1>1, <1>2, <1>3, <1>4, <1>5, <1>6 DEF TypeInv, TypeOK

LEMMA TickType == ASSUME TypeInv, Tick PROVE TypeInv'
  <1>1. /\ UNCHANGED <<limits, plan, stopless, opens, units, stops, pc, stats, faults>>
        /\ now' = now + 1 /\ loss' \in Nat
    BY DEF Tick, config, TypeInv, TypeOK
  <1>2. TypeOK'
    BY <1>1 DEF TypeInv, TypeOK
  <1>3. Busy' = Busy /\ OpenSymbols(units)' = OpenSymbols(units)
    BY <1>1 DEF Busy, OpenSymbols
  <1>4. \A u \in Tasks : OpenSymbols(stats[u].units)' = OpenSymbols(stats[u].units)
    BY <1>1 DEF OpenSymbols
  <1>5. \A n \in Nat : n <= now => n <= now'
    BY <1>1 DEF TypeInv, TypeOK
  <1>6. /\ \A o \in opens : o.at \in Nat
        /\ \A t \in Tasks : stats[t].now \in Nat
    BY DEF TypeInv, TypeOK, Open, Stats
  <1>. QED  BY <1>1, <1>2, <1>3, <1>4, <1>5, <1>6 DEF TypeInv

LEMMA NextType == TypeInv /\ [Next]_vars => TypeInv'
  <1>. SUFFICES ASSUME TypeInv, [Next]_vars
                PROVE  TypeInv'
    OBVIOUS
  <1>1. CASE UNCHANGED vars
    <2>1. UNCHANGED <<limits, plan, stopless, opens, units, stops, loss, now, pc, stats, faults>>
      BY <1>1 DEF vars, config
    <2>2. /\ Busy' = Busy /\ OpenSymbols(units)' = OpenSymbols(units)
          /\ \A u \in Tasks : OpenSymbols(stats[u].units)' = OpenSymbols(stats[u].units)
      BY <2>1 DEF Busy, OpenSymbols
    <2>. QED  BY <2>1, <2>2 DEF TypeInv, TypeOK
  <1>2. CASE Next
    BY <1>2, CheckType, EffectType, TickType DEF Next, TaskStep
  <1>. QED  BY <1>1, <1>2

\* Every reachable state has the types: what a check has read is complete,
\* and every recorded open names an execution, its symbol and a time.
\* (storage.py, AccountRiskStore; account_risk.py, AccountRiskStats)
THEOREM TypeCorrect == Spec => []TypeOK
  <1>1. TypeInv => TypeOK
    BY DEF TypeInv
  <1>. QED  BY InitType, NextType, <1>1, PTL DEF Spec

-----------------------------------------------------------------------------
(* The bounds.  For each limit: the executions that have read and will not *)
(* be turned away by it, and what they and the exchange add up to.         *)

OpensOn(day) == {o \in opens : DayOf(o.at) = day}

TradesPassed == {t \in Tasks :
    \/ pc[t] \in {"enter", "record"}
    \/ pc[t] \in {"positions", "last_open", "algo", "judge"} /\ ~TradesExceeded(stats[t])}

\* The day that is over is within the bound; to the current one those that
\* have counted may still be added.
TradesInv ==
    limits.trades > 0 =>
        /\ \A day \in Nat : Cardinality(OpensOn(day)) <= limits.trades + Overshoot
        /\ Cardinality(OpensOn(DayOf(now))) + Cardinality(TradesPassed)
              <= limits.trades + Overshoot

OpenPassed == {t \in Tasks :
    \/ pc[t] = "enter"
    \/ pc[t] \in {"last_open", "algo", "judge"} /\ ~OpenExceeded(stats[t], plan[t])}

\* The symbols that are open or will be.
Taken == OpenSymbols(units) \union {plan[t] : t \in OpenPassed}

OpenInv == limits.open > 0 => Cardinality(Taken) <= limits.open + Overshoot

Window(s, from) == {o \in opens : /\ o.symbol = s
                                  /\ o.at >= from
                                  /\ o.at < from + limits.cooldown}

CooldownPassed(s) == {t \in Tasks :
    /\ plan[t] = s
    /\ \/ pc[t] \in {"enter", "record"}
       \/ pc[t] \in {"algo", "judge"} /\ ~CoolingDown(stats[t])}

\* While a cooldown lasts no execution joins those that have read before it
\* began.
CooldownInv ==
    limits.cooldown > 0 =>
        \A s \in Symbols, from \in Nat :
            /\ Cardinality(Window(s, from)) <= Workers
            /\ Window(s, from) # {} /\ now < from + limits.cooldown
               => Cardinality(Window(s, from)) + Cardinality(CooldownPassed(s)) <= Workers

OpenRisk(u) == SumFunctionOnSet(u, OpenSymbols(u))

RiskPassed == {t \in Tasks :
    \/ pc[t] = "enter"
    \/ pc[t] = "judge" /\ ~RiskExceeded(stats[t], PlannedRisk(t))
    \/ pc[t] \in {"last_open", "algo"} /\ OpenRisk(stats[t].units) + PlannedRisk(t) <= limits.risk}

RiskInv ==
    limits.risk > 0 /\ limits.penalty > 0 =>
        OpenRisk(units) + Cardinality(RiskPassed) <= limits.risk + RiskOvershoot

\* Facts about counting that every bound uses.
LEMMA Fewer ==
    ASSUME NEW S, IsFiniteSet(S), NEW T, T \subseteq S
    PROVE  /\ IsFiniteSet(T) /\ Cardinality(T) \in Nat /\ Cardinality(S) \in Nat
           /\ Cardinality(T) <= Cardinality(S)
  BY FS_Subset, FS_CardinalityType

LEMMA OneFewer ==
    ASSUME NEW S, IsFiniteSet(S), NEW x \in S, NEW T, T \subseteq S \ {x}
    PROVE  /\ IsFiniteSet(T) /\ Cardinality(T) \in Nat /\ Cardinality(S) \in Nat
           /\ Cardinality(T) + 1 <= Cardinality(S)
  <1>1. /\ IsFiniteSet(S \ {x}) /\ Cardinality(S \ {x}) = Cardinality(S) - 1
        /\ Cardinality(S) \in Nat
    BY FS_RemoveElement, FS_CardinalityType
  <1>. QED  BY <1>1, Fewer

LEMMA OneMore ==
    ASSUME NEW S, IsFiniteSet(S), NEW x, NEW T, T \subseteq S \union {x}
    PROVE  /\ IsFiniteSet(T) /\ Cardinality(T) \in Nat /\ Cardinality(S) \in Nat
           /\ Cardinality(T) <= Cardinality(S) + 1
  <1>1. /\ IsFiniteSet(S \union {x})
        /\ Cardinality(S \union {x}) <= Cardinality(S) + 1
        /\ Cardinality(S) \in Nat
    BY FS_AddElement, FS_CardinalityType
  <1>. QED  BY <1>1, Fewer

\* Whatever has passed is busy, so there are at most Workers of it.
LEMMA AtMostWorkers ==
    ASSUME TypeInv, NEW T, T \subseteq Busy
    PROVE  IsFiniteSet(T) /\ Cardinality(T) \in Nat /\ Cardinality(T) <= Workers
  BY Fewer, WorkerAssumption DEF TypeInv

LEMMA PassedAreBusy ==
    /\ TradesPassed \subseteq Busy
    /\ OpenPassed \subseteq Busy
    /\ \A s \in Symbols : CooldownPassed(s) \subseteq Busy
    /\ RiskPassed \subseteq Busy
  BY DEF TradesPassed, OpenPassed, CooldownPassed, RiskPassed, Busy, Checking

\* A step of one execution is its own.
LEMMA OwnStep ==
    ASSUME TypeInv, NEW t \in Tasks, TaskStep(t)
    PROVE  /\ UNCHANGED <<limits, plan, stopless, now>>
           /\ \A u \in Tasks \ {t} : pc'[u] = pc[u] /\ stats'[u] = stats[u]
  BY DEF TaskStep, Begin, ReadLoss, ReadCount, ReadPositions, ReadLastOpen,
         ReadAlgoOrders, Judge, Enter, NoEntry, Record, Goto, config, TypeInv, TypeOK

\* What a step does to the execution itself, and to the exchange.
LEMMA StepEffect ==
    ASSUME TypeInv, NEW t \in Tasks, TaskStep(t)
    PROVE  \/ pc[t] = "new" /\ pc'[t] = "loss" /\ UNCHANGED <<opens, units>>
           \/ pc[t] = "loss" /\ pc'[t] = "count" /\ UNCHANGED <<opens, units>>
           \/ ReadCount(t) /\ pc[t] = "count" /\ pc'[t] = "positions"
           \/ /\ pc[t] = "positions" /\ pc'[t] = "done"
              /\ UNCHANGED <<opens, units, stats>>
           \/ /\ pc[t] = "positions" /\ pc'[t] = "last_open"
              /\ stats'[t].units = units
              /\ stats'[t].trades = stats[t].trades
              /\ UNCHANGED <<opens, units>>
           \/ /\ pc[t] = "last_open" /\ pc'[t] = "algo"
              /\ stats'[t].last = LastOpenAt(plan[t])
              /\ stats'[t].trades = stats[t].trades
              /\ stats'[t].units = stats[t].units
              /\ stats'[t].now = stats[t].now
              /\ UNCHANGED <<opens, units>>
           \/ /\ pc[t] = "algo" /\ pc'[t] = "judge"
              /\ \E visible : stats'[t].risk = EstimatedRisk(stats[t].units, visible)
              /\ stats'[t].trades = stats[t].trades
              /\ stats'[t].units = stats[t].units
              /\ stats'[t].last = stats[t].last
              /\ stats'[t].now = stats[t].now
              /\ UNCHANGED <<opens, units>>
           \/ pc[t] = "judge" /\ pc'[t] = "blocked" /\ UNCHANGED <<opens, units>>
           \/ /\ pc[t] = "judge" /\ pc'[t] = "enter" /\ UNCHANGED <<opens, units>>
              /\ ~TradesExceeded(stats[t]) /\ ~OpenExceeded(stats[t], plan[t])
              /\ ~CoolingDown(stats[t]) /\ ~RiskExceeded(stats[t], PlannedRisk(t))
           \/ /\ pc[t] = "enter" /\ pc'[t] \in {"record", "done"}
              /\ UNCHANGED opens
              /\ \/ UNCHANGED units
                 \/ \E after \in {units[plan[t]] + 1, 1} :
                       units' = [units EXCEPT ![plan[t]] = after]
           \/ Record(t) /\ pc[t] = "record" /\ pc'[t] = "done" /\ UNCHANGED units
  <1>. USE DEF Goto, TypeInv, TypeOK
  <1>1. CASE Begin(t)
    BY <1>1 DEF Begin
  <1>2. CASE ReadLoss(t)
    BY <1>2 DEF ReadLoss
  <1>3. CASE ReadCount(t)
    BY <1>3 DEF ReadCount
  <1>4. CASE ReadPositions(t)
    BY <1>4 DEF ReadPositions, Stats
  <1>5. CASE ReadLastOpen(t)
    BY <1>5 DEF ReadLastOpen, Stats
  <1>6. CASE ReadAlgoOrders(t)
    <2>1. PICK visible : 
             stats' = [stats EXCEPT ![t].risk = EstimatedRisk(stats[t].units, visible)]
      BY <1>6 DEF ReadAlgoOrders
    <2>. DEFINE risk == EstimatedRisk(stats[t].units, visible)
    <2>2. stats' = [stats EXCEPT ![t].risk = risk]
      BY <2>1
    <2>. HIDE DEF risk
    <2>3. /\ stats'[t].risk = risk
          /\ stats'[t].trades = stats[t].trades /\ stats'[t].units = stats[t].units
          /\ stats'[t].last = stats[t].last /\ stats'[t].now = stats[t].now
      BY <2>2 DEF Stats
    <2>. QED  BY <1>6, <2>3 DEF ReadAlgoOrders, risk
  <1>7. CASE Judge(t)
    BY <1>7 DEF Judge
  <1>8. CASE Enter(t)
    BY <1>8 DEF Enter
  <1>9. CASE NoEntry(t)
    BY <1>9 DEF NoEntry
  <1>10. CASE Record(t)
    BY <1>10 DEF Record
  <1>. QED
    BY <1>1, <1>2, <1>3, <1>4, <1>5, <1>6, <1>7, <1>8, <1>9, <1>10 DEF TaskStep

LEMMA StatsFields ==
    ASSUME TypeInv, NEW t \in Tasks
    PROVE  /\ stats[t] \in Stats /\ plan[t] \in Symbols
           /\ stats[t].now \in Nat /\ stats[t].trades \in Nat /\ stats[t].risk \in Nat
           /\ stats[t].units \in [Symbols -> Nat] /\ stats[t].last \in Instant
           /\ stats[t].now <= now /\ IsFiniteSet(OpenSymbols(stats[t].units))
           /\ units \in [Symbols -> Nat] /\ now \in Nat
  BY DEF TypeInv, TypeOK, Stats

-----------------------------------------------------------------------------
(* Entries of a day.                                                       *)

LEMMA OpensOnFinite ==
    ASSUME TypeInv, NEW day
    PROVE  IsFiniteSet(OpensOn(day)) /\ Cardinality(OpensOn(day)) \in Nat
  BY Fewer DEF TypeInv, OpensOn

\* Where the opens stay and no execution passes, the bound stays.
LEMMA TradesFewer ==
    ASSUME TypeInv, TradesInv, UNCHANGED <<limits, opens, now>>,
           TradesPassed' \subseteq TradesPassed
    PROVE  TradesInv'
  <1>1. \A day : OpensOn(day)' = OpensOn(day)
    BY DEF OpensOn
  <1>2. DayOf(now)' = DayOf(now)
    BY DEF DayOf
  <1>3. /\ Cardinality(TradesPassed') <= Cardinality(TradesPassed)
        /\ Cardinality(TradesPassed') \in Nat /\ Cardinality(TradesPassed) \in Nat
    BY PassedAreBusy, AtMostWorkers, Fewer
  <1>4. Cardinality(OpensOn(DayOf(now))) \in Nat
    BY OpensOnFinite
  <1>5. Overshoot \in Nat /\ limits.trades \in Nat /\ Overshoot' = Overshoot
    BY WorkerAssumption, LimitTypes DEF Overshoot, TypeInv
  <1>. QED  BY <1>1, <1>2, <1>3, <1>4, <1>5 DEF TradesInv

LEMMA TradesStep ==
    ASSUME TypeInv, TradesInv, TypeInv', NEW t \in Tasks, TaskStep(t)
    PROVE  TradesInv'
  <1>1. /\ UNCHANGED <<limits, plan, stopless, now>>
        /\ \A u \in Tasks \ {t} : pc'[u] = pc[u] /\ stats'[u] = stats[u]
    BY OwnStep
  <1>2. \A u \in Tasks \ {t} : u \in TradesPassed' <=> u \in TradesPassed
    BY <1>1 DEF TradesPassed, TradesExceeded
  <1>3. /\ limits.trades \in Nat /\ now \in Nat
        /\ Overshoot = Workers - 1 /\ Workers \in Nat \ {0}
    BY LimitTypes, WorkerAssumption DEF Overshoot, TypeInv, TypeOK
  <1>4. CASE ReadCount(t)
    <2>1. UNCHANGED opens /\ pc[t] = "count"
      BY <1>4 DEF ReadCount
    <2>2. CASE t \in TradesPassed' /\ limits.trades > 0
      <3>. DEFINE since == {o \in opens : o.at >= DayOf(stats[t].now) * DayLength}
      <3>1. Cardinality(since) < limits.trades /\ Cardinality(since) \in Nat
        <4>1. stats'[t].trades = Cardinality(since)
          BY <1>4 DEF ReadCount, CountOpensSince, TypeInv, TypeOK, Stats
        <4>2. Cardinality(since) \in Nat
          BY Fewer DEF TypeInv
        <4>3. ~(limits.trades > 0 /\ stats'[t].trades >= limits.trades)
          <5>1. pc'[t] = "positions"
            BY <1>4 DEF ReadCount, Goto, TypeInv, TypeOK
          <5>. QED  BY <1>1, <2>2, <5>1 DEF TradesPassed, TradesExceeded
        <4>. HIDE DEF since
        <4>. QED  BY <1>1, <1>3, <2>2, <4>1, <4>2, <4>3
      <3>2. OpensOn(DayOf(now)) \subseteq since
        <4>1. ASSUME NEW o \in opens, DayOf(o.at) = DayOf(now)
              PROVE  o.at >= DayOf(stats[t].now) * DayLength
          <5>1. o.at \in Nat
            BY DEF TypeInv, TypeOK, Open
          <5>2. DayOf(stats[t].now) <= DayOf(now)
            BY StatsFields, DayMonotone
          <5>. QED  BY <4>1, <5>1, <5>2, StatsFields, DaySince
        <4>. QED  BY <4>1 DEF OpensOn
      <3>3. /\ Cardinality(OpensOn(DayOf(now))) <= Cardinality(since)
            /\ Cardinality(OpensOn(DayOf(now))) \in Nat
        <4>1. IsFiniteSet(since)
          BY Fewer DEF TypeInv
        <4>. HIDE DEF since
        <4>. QED  BY <3>2, <4>1, Fewer
      <3>4. Cardinality(TradesPassed') <= Workers /\ Cardinality(TradesPassed') \in Nat
        <4>1. TradesPassed' \subseteq Busy'
          BY DEF TradesPassed, Busy, Checking
        <4>2. IsFiniteSet(Busy') /\ Cardinality(Busy') <= Workers
          BY DEF TypeInv
        <4>. QED  BY <4>1, <4>2, Fewer, WorkerAssumption
      <3>5. \A day : OpensOn(day)' = OpensOn(day)
        BY <2>1 DEF OpensOn
      <3>6. DayOf(now)' = DayOf(now) /\ Overshoot' = Overshoot
        BY <1>1 DEF DayOf, Overshoot
      <3>. HIDE DEF since
      <3>. QED  BY <1>1, <1>3, <3>1, <3>3, <3>4, <3>5, <3>6 DEF TradesInv
    <2>3. CASE t \notin TradesPassed'
      <3>1. TradesPassed' \subseteq TradesPassed
        BY <1>2, <2>3 DEF TradesPassed
      <3>. QED  BY <1>1, <2>1, <3>1, TradesFewer
    <2>4. CASE ~(limits.trades > 0)
      BY <1>1, <2>4 DEF TradesInv
    <2>. QED  BY <2>2, <2>3, <2>4
  <1>5. CASE Record(t)
    <2>1. t \in TradesPassed /\ t \notin TradesPassed'
      BY <1>5 DEF Record, Goto, TradesPassed, TypeInv, TypeOK
    <2>2. TradesPassed' \subseteq TradesPassed \ {t}
      BY <1>2, <2>1 DEF TradesPassed
    <2>3. /\ Cardinality(TradesPassed') + 1 <= Cardinality(TradesPassed)
          /\ Cardinality(TradesPassed') \in Nat /\ Cardinality(TradesPassed) \in Nat
      BY <2>1, <2>2, PassedAreBusy, AtMostWorkers, OneFewer
    <2>4. CASE UNCHANGED opens
      <3>1. TradesPassed' \subseteq TradesPassed
        BY <2>2
      <3>. QED  BY <1>1, <2>4, <3>1, TradesFewer
    <2>5. CASE opens' = opens \union {[by |-> t, symbol |-> plan[t], at |-> now]}
      <3>. DEFINE new == [by |-> t, symbol |-> plan[t], at |-> now]
      <3>8. PICK today : today = DayOf(now)
        OBVIOUS
      <3>1. new.at = now
        OBVIOUS
      <3>2. \A day : /\ OpensOn(day)' \subseteq OpensOn(day) \union {new}
                     /\ day # today => OpensOn(day)' = OpensOn(day)
        BY <2>5, <3>8, <3>1 DEF OpensOn
      <3>3. /\ Cardinality(OpensOn(today)') <= Cardinality(OpensOn(today)) + 1
            /\ Cardinality(OpensOn(today)') \in Nat /\ Cardinality(OpensOn(today)) \in Nat
        <4>. HIDE DEF new
        <4>. QED  BY <3>2, OpensOnFinite, OneMore
      <3>4. DayOf(now)' = today /\ Overshoot' = Overshoot
        BY <1>1, <3>8 DEF DayOf, Overshoot
      <3>5. OpensOn(DayOf(now))' = OpensOn(today)'
        BY <3>4 DEF OpensOn
      <3>. HIDE DEF new
      <3>6. ASSUME limits.trades > 0
            PROVE  Cardinality(OpensOn(today)') + Cardinality(TradesPassed')
                      <= limits.trades + Overshoot
        <4>1. Cardinality(OpensOn(today)) + Cardinality(TradesPassed)
                      <= limits.trades + Overshoot
          BY <3>8, <3>6 DEF TradesInv
        <4>. QED  BY <1>3, <2>3, <3>3, <4>1
      <3>7. ASSUME limits.trades > 0, NEW day \in Nat
            PROVE  Cardinality(OpensOn(day)') <= limits.trades + Overshoot
        <4>1. CASE day = today
          BY <1>3, <2>3, <3>3, <3>6, <3>7, <4>1
        <4>2. CASE day # today
          BY <3>2, <3>7, <4>2 DEF TradesInv
        <4>. QED  BY <4>1, <4>2
      <3>. QED  BY <1>1, <3>4, <3>5, <3>6, <3>7 DEF TradesInv
    <2>. QED  BY <1>5, <2>4, <2>5 DEF Record, RecordSuccessfulOpen
  <1>6. CASE ~ReadCount(t) /\ ~Record(t)
    <2>1. UNCHANGED opens
      BY <1>6, StepEffect
    <2>2. t \in TradesPassed' => t \in TradesPassed
      <3>. QED  BY <1>1, <1>6, StepEffect DEF TradesPassed, TradesExceeded
    <2>3. TradesPassed' \subseteq TradesPassed
      BY <1>2, <2>2 DEF TradesPassed
    <2>. QED  BY <1>1, <2>1, <2>3, TradesFewer
  <1>. QED  BY <1>4, <1>5, <1>6

\* Another day begins without an entry.
LEMMA TradesTick ==
    ASSUME TypeInv, TradesInv, Tick
    PROVE  TradesInv'
  <1>1. /\ UNCHANGED <<limits, opens, pc, stats>> /\ now' = now + 1
        /\ now \in Nat
    BY DEF Tick, config, TypeInv, TypeOK
  <1>2. /\ TradesPassed' = TradesPassed /\ Overshoot' = Overshoot
        /\ \A day : OpensOn(day)' = OpensOn(day)
    BY <1>1 DEF TradesPassed, TradesExceeded, Overshoot, OpensOn
  <1>3. /\ DayOf(now)' = DayOf(now + 1)
        /\ DayOf(now) \in Nat /\ DayOf(now + 1) \in Nat
        /\ DayOf(now) <= DayOf(now + 1)
    BY <1>1, DayType, DayMonotone DEF DayOf
  <1>4. CASE DayOf(now + 1) = DayOf(now)
    BY <1>1, <1>2, <1>3, <1>4 DEF TradesInv
  <1>5. CASE DayOf(now + 1) # DayOf(now)
    <2>1. OpensOn(DayOf(now + 1)) = {}
      <3>1. ASSUME NEW o \in opens
            PROVE  DayOf(o.at) # DayOf(now + 1)
        <4>1. o.at \in Nat /\ o.at <= now
          BY DEF TypeInv, TypeOK, Open
        <4>2. DayOf(o.at) \in Nat /\ DayOf(o.at) <= DayOf(now)
          BY <1>1, <4>1, DayType, DayMonotone
        <4>. QED  BY <1>3, <1>5, <4>2
      <3>. QED  BY <3>1 DEF OpensOn
    <2>2. Cardinality(TradesPassed) <= Workers /\ Cardinality(TradesPassed) \in Nat
      BY PassedAreBusy, AtMostWorkers
    <2>3. limits.trades \in Nat /\ Workers \in Nat /\ Overshoot = Workers - 1
      BY LimitTypes, WorkerAssumption DEF TypeInv, Overshoot
    <2>4. Cardinality(OpensOn(DayOf(now + 1))) = 0
      BY <2>1, FS_EmptySet
    <2>. QED  BY <1>1, <1>2, <1>3, <2>2, <2>3, <2>4 DEF TradesInv
  <1>. QED  BY <1>4, <1>5

LEMMA InitPassed ==
    ASSUME Init
    PROVE  /\ opens = {} /\ OpenSymbols(units) = {}
           /\ TradesPassed = {} /\ OpenPassed = {} /\ RiskPassed = {}
           /\ limits \in Limits
           /\ Overshoot \in Nat
  BY LimitAssumption, WorkerAssumption
  DEF Init, TradesPassed, OpenPassed, RiskPassed, OpenSymbols, Overshoot

\* A bound that only looks at what a market step leaves alone.
LEMMA CloseOutKeeps ==
    ASSUME NEW s \in Symbols, CloseOut(s)
    PROVE  UNCHANGED <<limits, plan, stopless, opens, now, pc, stats>>
  BY DEF CloseOut, config

LEMMA VarsKeep ==
    ASSUME UNCHANGED vars
    PROVE  UNCHANGED <<limits, plan, stopless, opens, units, now, pc, stats>>
  BY DEF vars, config

\* On no day are more entries recorded than the limit and one for each
\* other worker, even though an execution counts long before it records, and
\* may count on one day and record on the next.
\* (account_risk.py, the daily_max_trades rule)
THEOREM DailyTradesOvershoot == Spec => []DailyTradesBounded
  <1>1. Init => TradesInv
    <2>. SUFFICES ASSUME Init
                  PROVE  TradesInv
      OBVIOUS
    <2>1. \A day : Cardinality(OpensOn(day)) = 0
      BY InitPassed, FS_EmptySet DEF OpensOn
    <2>2. Cardinality(TradesPassed) = 0 /\ limits.trades \in Nat
      BY InitPassed, FS_EmptySet DEF Limits
    <2>. QED  BY <2>1, <2>2, InitPassed DEF TradesInv
  <1>2. TypeInv /\ TypeInv' /\ TradesInv /\ [Next]_vars => TradesInv'
    <2>. SUFFICES ASSUME TypeInv, TypeInv', TradesInv, [Next]_vars
                  PROVE  TradesInv'
      OBVIOUS
    <2>1. ASSUME UNCHANGED <<limits, plan, opens, now, pc, stats>>
          PROVE  TradesInv'
      <3>1. TradesPassed' = TradesPassed
        BY <2>1 DEF TradesPassed, TradesExceeded
      <3>. QED  BY <2>1, <3>1, TradesFewer
    <2>. QED  BY <2>1, TradesStep, TradesTick, CloseOutKeeps, VarsKeep DEF Next
  <1>3. TypeInv /\ TradesInv => DailyTradesBounded
    <2>. SUFFICES ASSUME TypeInv, TradesInv, limits.trades > 0, NEW o \in opens
                  PROVE  Cardinality({p \in opens : DayOf(p.at) = DayOf(o.at)})
                            <= limits.trades + Overshoot
      BY DEF DailyTradesBounded
    <2>1. DayOf(o.at) \in Nat
      BY DayType DEF TypeInv, TypeOK, Open
    <2>. QED  BY <2>1 DEF TradesInv, OpensOn
  <1>. QED  BY InitType, NextType, <1>1, <1>2, <1>3, PTL DEF Spec

-----------------------------------------------------------------------------
(* Open positions.                                                         *)

\* The symbols of some executions are no more than the executions.
LEMMA SymbolsOf ==
    ASSUME NEW P, IsFiniteSet(P), NEW f
    PROVE  /\ IsFiniteSet({f[t] : t \in P})
           /\ Cardinality({f[t] : t \in P}) <= Cardinality(P)
  <1>. DEFINE image == {f[t] : t \in P}
              g == [t \in P |-> f[t]]
  <1>1. g \in Surjection(P, image)
    BY DEF Surjection
  <1>. HIDE DEF g
  <1>2. IsFiniteSet(image) /\ Cardinality(image) <= Cardinality(P)
    <2>. HIDE DEF image
    <2>. QED  BY <1>1, FS_Surjection
  <1>. QED  BY <1>2

LEMMA TakenFinite ==
    ASSUME TypeInv
    PROVE  IsFiniteSet(Taken) /\ Cardinality(Taken) \in Nat
  <1>1. IsFiniteSet({plan[t] : t \in OpenPassed})
    BY PassedAreBusy, AtMostWorkers, SymbolsOf
  <1>2. IsFiniteSet(Taken)
    BY <1>1, FS_Union DEF Taken, TypeInv
  <1>. QED  BY <1>2, FS_CardinalityType

\* Where no symbol joins those that are or will be open, the bound stays.
LEMMA TakenFewer ==
    ASSUME TypeInv, OpenInv, UNCHANGED limits, Taken' \subseteq Taken
    PROVE  OpenInv'
  <1>1. /\ Cardinality(Taken') <= Cardinality(Taken)
        /\ Cardinality(Taken') \in Nat /\ Cardinality(Taken) \in Nat
    BY TakenFinite, Fewer
  <1>2. Overshoot \in Nat /\ limits.open \in Nat /\ Overshoot' = Overshoot
    BY WorkerAssumption, LimitTypes DEF Overshoot, TypeInv
  <1>. QED  BY <1>1, <1>2 DEF OpenInv

LEMMA OpenStep ==
    ASSUME TypeInv, OpenInv, TypeInv', NEW t \in Tasks, TaskStep(t)
    PROVE  OpenInv'
  <1>1. /\ UNCHANGED <<limits, plan, stopless, now>>
        /\ \A u \in Tasks \ {t} : pc'[u] = pc[u] /\ stats'[u] = stats[u]
    BY OwnStep
  <1>2. \A u \in Tasks \ {t} : u \in OpenPassed' <=> u \in OpenPassed
    BY <1>1 DEF OpenPassed, OpenExceeded, OpenSymbols
  <1>3. /\ limits.open \in Nat /\ plan[t] \in Symbols /\ units \in [Symbols -> Nat]
        /\ Overshoot = Workers - 1 /\ Workers \in Nat \ {0}
    BY LimitTypes, WorkerAssumption DEF Overshoot, TypeInv, TypeOK
  <1>4. CASE pc[t] = "positions" /\ pc'[t] = "last_open"
    <2>1. stats'[t].units = units /\ UNCHANGED units
      BY <1>4, StepEffect
    <2>2. OpenSymbols(units') = OpenSymbols(units)
      BY <2>1 DEF OpenSymbols
    <2>3. Taken' = OpenSymbols(units') \union {plan[u] : u \in OpenPassed'}
      BY <1>1 DEF Taken, OpenSymbols
    <2>4. CASE t \notin OpenPassed' \/ plan[t] \in OpenSymbols(units)
      <3>1. Taken' \subseteq Taken
        <4>1. ASSUME NEW u \in OpenPassed'
              PROVE  plan[u] \in Taken
          BY <1>2, <2>4, <4>1 DEF OpenPassed, Taken
        <4>. QED  BY <2>2, <2>3, <4>1 DEF Taken
      <3>. QED  BY <1>1, <3>1, TakenFewer
    <2>5. CASE t \in OpenPassed' /\ plan[t] \notin OpenSymbols(units) /\ limits.open > 0
      <3>1. ~OpenExceeded(stats'[t], plan[t])
        <4>1. \A x, s : OpenExceeded(x, s)' <=> OpenExceeded(x, s)
          BY <1>1 DEF OpenExceeded, OpenSymbols
        <4>. QED  BY <1>1, <1>4, <2>5 DEF OpenPassed, OpenExceeded, OpenSymbols
      <3>2. units[plan[t]] = 0
        BY <1>3, <2>5 DEF OpenSymbols
      <3>3. /\ Cardinality(OpenSymbols(units)) \in Nat
            /\ Cardinality(OpenSymbols(units)) < limits.open
        <4>1. Cardinality(OpenSymbols(units)) \in Nat
          BY FS_CardinalityType DEF TypeInv
        <4>. QED  BY <1>3, <2>1, <2>5, <3>1, <3>2, <4>1 DEF OpenExceeded
      <3>4. /\ IsFiniteSet(OpenPassed') /\ Cardinality(OpenPassed') <= Workers
            /\ Cardinality(OpenPassed') \in Nat
        <4>1. OpenPassed' \subseteq Busy'
          BY DEF OpenPassed, Busy, Checking
        <4>2. IsFiniteSet(Busy') /\ Cardinality(Busy') <= Workers
          BY DEF TypeInv
        <4>. QED  BY <4>1, <4>2, Fewer, WorkerAssumption
      <3>. DEFINE symbols == {plan[u] : u \in OpenPassed'}
      <3>5. IsFiniteSet(symbols) /\ Cardinality(symbols) <= Cardinality(OpenPassed')
        BY <3>4, SymbolsOf
      <3>. HIDE DEF symbols
      <3>6. Cardinality(Taken') <= Cardinality(OpenSymbols(units)) + Cardinality(symbols)
        <4>1. Taken' = OpenSymbols(units) \union symbols
          BY <2>2, <2>3 DEF symbols
        <4>2. IsFiniteSet(OpenSymbols(units))
          BY DEF TypeInv
        <4>3. Cardinality(OpenSymbols(units) \union symbols)
                 = Cardinality(OpenSymbols(units)) + Cardinality(symbols)
                     - Cardinality(OpenSymbols(units) \intersect symbols)
          BY <3>5, <4>2, FS_Union
        <4>4. /\ Cardinality(OpenSymbols(units) \intersect symbols) \in Nat
              /\ Cardinality(symbols) \in Nat
          BY <3>5, Fewer
        <4>. QED  BY <3>3, <4>1, <4>3, <4>4
      <3>7. Cardinality(symbols) \in Nat
        BY <3>5, FS_CardinalityType
      <3>8. Cardinality(Taken') \in Nat
        <4>1. IsFiniteSet(OpenSymbols(units) \union symbols)
          BY <3>5, FS_Union DEF TypeInv
        <4>2. Taken' = OpenSymbols(units) \union symbols
          BY <2>2, <2>3 DEF symbols
        <4>. QED  BY <4>1, <4>2, FS_CardinalityType
      <3>9. Cardinality(Taken') <= limits.open + Overshoot
        BY <1>3, <3>3, <3>4, <3>5, <3>6, <3>7, <3>8
      <3>. QED  BY <1>1, <3>9 DEF OpenInv, Overshoot
    <2>6. CASE ~(limits.open > 0)
      BY <1>1, <2>6 DEF OpenInv
    <2>. QED  BY <2>4, <2>5, <2>6
  <1>5. CASE pc[t] = "enter"
    <2>1. t \in OpenPassed /\ t \notin OpenPassed'
      BY <1>5, StepEffect DEF OpenPassed
    <2>2. OpenSymbols(units') \subseteq OpenSymbols(units) \union {plan[t]}
      BY <1>3, <1>5, StepEffect DEF OpenSymbols
    <2>3. Taken' \subseteq Taken
      <3>1. Taken' = OpenSymbols(units') \union {plan[u] : u \in OpenPassed'}
        BY <1>1 DEF Taken, OpenSymbols
      <3>2. ASSUME NEW u \in OpenPassed'
            PROVE  plan[u] \in Taken
        BY <1>2, <2>1, <3>2 DEF OpenPassed, Taken
      <3>. QED  BY <2>1, <2>2, <3>1, <3>2 DEF Taken
    <2>. QED  BY <1>1, <2>3, TakenFewer
  <1>6. CASE ~(pc[t] = "positions" /\ pc'[t] = "last_open") /\ pc[t] # "enter"
    <2>1. UNCHANGED units
      BY <1>6, StepEffect DEF ReadCount
    <2>2. t \in OpenPassed' => t \in OpenPassed
      <3>1. pc[t] \in {"last_open", "algo", "judge"}
            \/ pc'[t] \notin {"last_open", "algo", "judge", "enter"}
        BY <1>6, StepEffect
      <3>2. pc[t] = "judge" => pc'[t] = "blocked" \/ ~OpenExceeded(stats[t], plan[t])
        BY StepEffect
      <3>3. pc[t] \in {"last_open", "algo"} => 
               pc'[t] \in {"algo", "judge"} /\ stats'[t].units = stats[t].units
        BY StepEffect
      <3>. QED
        BY <1>1, <3>1, <3>2, <3>3, StepEffect DEF OpenPassed, OpenExceeded, OpenSymbols
    <2>3. Taken' \subseteq Taken
      <3>1. Taken' = OpenSymbols(units) \union {plan[u] : u \in OpenPassed'}
        BY <1>1, <2>1 DEF Taken, OpenSymbols
      <3>2. OpenPassed' \subseteq OpenPassed
        BY <1>2, <2>2 DEF OpenPassed
      <3>. QED  BY <3>1, <3>2 DEF Taken
    <2>. QED  BY <1>1, <2>3, TakenFewer
  <1>. QED  BY <1>4, <1>5, <1>6

\* Never are more symbols open than the limit and one for each other worker,
\* even though an execution that finds its symbol open skips the rule, and
\* the position it saw may be gone when it enters.
\* (account_risk.py, the max_open_positions rule)
THEOREM OpenPositionsOvershoot == Spec => []OpenPositionsBounded
  <1>1. Init => OpenInv
    <2>. SUFFICES ASSUME Init
                  PROVE  OpenInv
      OBVIOUS
    <2>1. Taken = {}
      BY InitPassed DEF Taken
    <2>. QED  BY <2>1, InitPassed, FS_EmptySet DEF OpenInv, Limits
  <1>2. TypeInv /\ TypeInv' /\ OpenInv /\ [Next]_vars => OpenInv'
    <2>. SUFFICES ASSUME TypeInv, TypeInv', OpenInv, [Next]_vars
                  PROVE  OpenInv'
      OBVIOUS
    <2>1. ASSUME UNCHANGED <<limits, plan, stopless, pc, stats>>,
                 OpenSymbols(units') \subseteq OpenSymbols(units)
          PROVE  OpenInv'
      <3>1. OpenPassed' = OpenPassed
        BY <2>1 DEF OpenPassed, OpenExceeded, OpenSymbols
      <3>2. Taken' = OpenSymbols(units') \union {plan[u] : u \in OpenPassed}
        BY <2>1, <3>1 DEF Taken, OpenSymbols
      <3>. QED  BY <2>1, <3>2, TakenFewer DEF Taken
    <2>2. \A s \in Symbols : CloseOut(s) => OpenSymbols(units') \subseteq OpenSymbols(units)
      BY DEF CloseOut, OpenSymbols, TypeInv, TypeOK
    <2>3. UNCHANGED units => OpenSymbols(units') = OpenSymbols(units)
      BY DEF OpenSymbols
    <2>4. CASE Tick
      BY <2>1, <2>3, <2>4 DEF Tick, config
    <2>. QED  BY <2>1, <2>2, <2>3, <2>4, OpenStep, CloseOutKeeps, VarsKeep DEF Next
  <1>3. TypeInv /\ OpenInv => OpenPositionsBounded
    <2>. SUFFICES ASSUME TypeInv, OpenInv, limits.open > 0
                  PROVE  Cardinality(OpenSymbols(units)) <= limits.open + Overshoot
      BY DEF OpenPositionsBounded
    <2>1. /\ Cardinality(OpenSymbols(units)) <= Cardinality(Taken)
          /\ Cardinality(OpenSymbols(units)) \in Nat /\ Cardinality(Taken) \in Nat
      BY TakenFinite, Fewer DEF Taken
    <2>2. limits.open \in Nat /\ Overshoot \in Nat
      BY LimitTypes, WorkerAssumption DEF TypeInv, Overshoot
    <2>. QED  BY <2>1, <2>2 DEF OpenInv
  <1>. QED  BY InitType, NextType, <1>1, <1>2, <1>3, PTL DEF Spec

-----------------------------------------------------------------------------
(* Entries within a cooldown.                                              *)

LEMMA WindowFinite ==
    ASSUME TypeInv, NEW s, NEW from
    PROVE  IsFiniteSet(Window(s, from)) /\ Cardinality(Window(s, from)) \in Nat
  BY Fewer DEF TypeInv, Window

\* Where the opens stay, time does not run backwards, and none passes that
\* had not passed, the bound stays.
LEMMA CooldownFewer ==
    ASSUME TypeInv, CooldownInv, UNCHANGED <<limits, opens>>,
           now' \in Nat, now <= now',
           \A s \in Symbols, from \in Nat :
              /\ limits.cooldown > 0
              /\ Window(s, from) # {}
              /\ now < from + limits.cooldown
              => CooldownPassed(s)' \subseteq CooldownPassed(s)
    PROVE  CooldownInv'
  <1>1. \A s, from : Window(s, from)' = Window(s, from)
    BY DEF Window
  <1>2. limits.cooldown \in Nat /\ now \in Nat
    BY LimitTypes DEF TypeInv, TypeOK
  <1>3. ASSUME NEW s \in Symbols, NEW from \in Nat, limits.cooldown > 0,
               Window(s, from) # {}, now' < from + limits.cooldown
        PROVE  Cardinality(Window(s, from)) + Cardinality(CooldownPassed(s)') <= Workers
    <2>1. now < from + limits.cooldown
      BY <1>2, <1>3
    <2>2. /\ Cardinality(CooldownPassed(s)') <= Cardinality(CooldownPassed(s))
          /\ Cardinality(CooldownPassed(s)') \in Nat /\ Cardinality(CooldownPassed(s)) \in Nat
      BY <1>3, <2>1, PassedAreBusy, AtMostWorkers, Fewer
    <2>3. Cardinality(Window(s, from)) + Cardinality(CooldownPassed(s)) <= Workers
      BY <1>3, <2>1 DEF CooldownInv
    <2>. QED  BY <2>2, <2>3, WindowFinite, WorkerAssumption
  <1>. QED  BY <1>1, <1>3 DEF CooldownInv

LEMMA CooldownStep ==
    ASSUME TypeInv, CooldownInv, TypeInv', NEW t \in Tasks, TaskStep(t)
    PROVE  CooldownInv'
  <1>1. /\ UNCHANGED <<limits, plan, stopless, now>>
        /\ \A u \in Tasks \ {t} : pc'[u] = pc[u] /\ stats'[u] = stats[u]
    BY OwnStep
  <1>2. \A s \in Symbols, u \in Tasks \ {t} :
           u \in CooldownPassed(s)' <=> u \in CooldownPassed(s)
    BY <1>1 DEF CooldownPassed, CoolingDown
  <1>3. /\ limits.cooldown \in Nat /\ now \in Nat /\ now <= now'
        /\ Workers \in Nat \ {0}
    BY <1>1, LimitTypes, WorkerAssumption DEF TypeInv, TypeOK
  <1>4. CASE Record(t)
    <2>1. \A s \in Symbols : /\ t \notin CooldownPassed(s)'
                             /\ plan[t] = s => t \in CooldownPassed(s)
      BY <1>1, <1>4 DEF Record, Goto, CooldownPassed, TypeInv, TypeOK
    <2>2. \A s \in Symbols : CooldownPassed(s)' \subseteq CooldownPassed(s)
      BY <1>2, <2>1 DEF CooldownPassed
    <2>3. CASE UNCHANGED opens
      BY <1>1, <1>3, <2>2, <2>3, CooldownFewer
    <2>4. CASE opens' = opens \union {[by |-> t, symbol |-> plan[t], at |-> now]}
      <3>. DEFINE new == [by |-> t, symbol |-> plan[t], at |-> now]
      <3>. SUFFICES ASSUME limits.cooldown > 0, NEW s \in Symbols, NEW from \in Nat
                    PROVE  /\ Cardinality(Window(s, from)') <= Workers
                           /\ Window(s, from)' # {} /\ now < from + limits.cooldown
                              => Cardinality(Window(s, from)')
                                   + Cardinality(CooldownPassed(s)') <= Workers
        BY <1>1 DEF CooldownInv
      <3>1. /\ Cardinality(CooldownPassed(s)') <= Cardinality(CooldownPassed(s))
            /\ Cardinality(CooldownPassed(s)') \in Nat /\ Cardinality(CooldownPassed(s)) \in Nat
            /\ Cardinality(CooldownPassed(s)) <= Workers
        BY <2>2, PassedAreBusy, AtMostWorkers, Fewer
      <3>2. CASE new \in Window(s, from)'
        <4>1. plan[t] = s /\ now >= from /\ now < from + limits.cooldown
          BY <1>1, <3>2 DEF Window
        <4>2. Cardinality(CooldownPassed(s)') + 1 <= Cardinality(CooldownPassed(s))
          BY <2>1, <2>2, <4>1, PassedAreBusy, AtMostWorkers, OneFewer
        <4>3. Window(s, from)' \subseteq Window(s, from) \union {new}
          BY <1>1, <2>4 DEF Window
        <4>4. /\ Cardinality(Window(s, from)') \in Nat
              /\ Cardinality(Window(s, from)') <= Cardinality(Window(s, from)) + 1
          <5>. HIDE DEF new
          <5>. QED  BY <4>3, WindowFinite, OneMore
        <4>5. CASE Window(s, from) = {}
          <5>1. Cardinality(Window(s, from)) = 0
            BY <4>5, FS_EmptySet
          <5>. QED  BY <1>3, <3>1, <4>2, <4>4, <5>1
        <4>6. CASE Window(s, from) # {}
          <5>1. Cardinality(Window(s, from)) + Cardinality(CooldownPassed(s)) <= Workers
            BY <4>1, <4>6 DEF CooldownInv
          <5>. QED  BY <1>3, <3>1, <4>2, <4>4, <5>1, WindowFinite
        <4>. QED  BY <4>5, <4>6
      <3>3. CASE new \notin Window(s, from)'
        <4>1. Window(s, from)' = Window(s, from)
          BY <1>1, <2>4, <3>3 DEF Window
        <4>2. Cardinality(Window(s, from)) <= Workers
          BY DEF CooldownInv
        <4>3. Window(s, from) # {} /\ now < from + limits.cooldown =>
                 Cardinality(Window(s, from)) + Cardinality(CooldownPassed(s)) <= Workers
          BY DEF CooldownInv
        <4>. QED  BY <1>3, <3>1, <4>1, <4>2, <4>3, WindowFinite
      <3>. QED  BY <3>2, <3>3
    <2>. QED  BY <1>4, <2>3, <2>4 DEF Record, RecordSuccessfulOpen
  <1>5. CASE ~Record(t)
    <2>1. UNCHANGED opens
      BY <1>5, StepEffect DEF ReadCount
    <2>2. ASSUME NEW s \in Symbols, NEW from \in Nat, limits.cooldown > 0,
                 Window(s, from) # {}, now < from + limits.cooldown,
                 t \in CooldownPassed(s)'
          PROVE  t \in CooldownPassed(s)
      <3>1. plan[t] = s
        BY <1>1, <2>2 DEF CooldownPassed
      <3>2. CASE pc[t] = "last_open"
        <4>1. /\ pc'[t] = "algo" /\ stats'[t].last = LastOpenAt(s)
              /\ stats'[t].now = stats[t].now
          BY <3>1, <3>2, StepEffect
        <4>2. PICK o \in opens : o.symbol = s /\ o.at >= from
          BY <2>2 DEF Window
        <4>3. o.at \in Nat /\ LastOpenAt(s) \in Nat /\ o.at <= LastOpenAt(s)
          BY <4>2, LastOpen DEF TypeInv, TypeOK, Open
        <4>4. stats[t].now <= now /\ stats[t].now \in Nat
          BY StatsFields
        <4>5. stats'[t].now < stats'[t].last + limits.cooldown /\ stats'[t].last # Never
          BY <1>3, <2>2, <4>1, <4>2, <4>3, <4>4, TimeAssumption
        <4>. QED  BY <1>1, <2>2, <4>1, <4>5 DEF CooldownPassed, CoolingDown
      <3>3. CASE pc[t] = "algo"
        BY <1>1, <2>2, <3>1, <3>3, StepEffect DEF CooldownPassed, CoolingDown
      <3>4. CASE pc[t] \in {"judge", "enter"}
        BY <1>1, <2>2, <3>1, <3>4, StepEffect DEF CooldownPassed
      <3>5. CASE pc[t] \notin {"last_open", "algo", "judge", "enter"}
        BY <1>5, <2>2, <3>5, StepEffect DEF CooldownPassed
      <3>. QED  BY <3>2, <3>3, <3>4, <3>5
    <2>3. ASSUME NEW s \in Symbols, NEW from \in Nat, limits.cooldown > 0,
                 Window(s, from) # {}, now < from + limits.cooldown
          PROVE  CooldownPassed(s)' \subseteq CooldownPassed(s)
      BY <1>2, <2>2, <2>3 DEF CooldownPassed
    <2>. QED  BY <1>1, <1>3, <2>1, <2>3, CooldownFewer
  <1>. QED  BY <1>4, <1>5

\* After an entry into a symbol, those of the following cooldown come only
\* from executions that read before it was recorded, so that there are at
\* most Workers with it.  (account_risk.py, the symbol_cooldown rule)
THEOREM CooldownOvershoot == Spec => []CooldownBounded
  <1>1. Init => CooldownInv
    <2>. SUFFICES ASSUME Init
                  PROVE  CooldownInv
      OBVIOUS
    <2>1. \A s, from : Window(s, from) = {}
      BY InitPassed DEF Window
    <2>. QED  BY <2>1, FS_EmptySet, WorkerAssumption DEF CooldownInv
  <1>2. TypeInv /\ TypeInv' /\ CooldownInv /\ [Next]_vars => CooldownInv'
    <2>. SUFFICES ASSUME TypeInv, TypeInv', CooldownInv, [Next]_vars
                  PROVE  CooldownInv'
      OBVIOUS
    <2>1. ASSUME UNCHANGED <<limits, plan, opens, pc, stats>>, now <= now'
          PROVE  CooldownInv'
      <3>1. \A s \in Symbols : CooldownPassed(s)' = CooldownPassed(s)
        BY <2>1 DEF CooldownPassed, CoolingDown
      <3>2. now' \in Nat
        BY DEF TypeInv, TypeOK
      <3>. QED  BY <2>1, <3>1, <3>2, CooldownFewer
    <2>2. now \in Nat /\ (now' = now \/ now' = now + 1 => now <= now')
      BY DEF TypeInv, TypeOK
    <2>3. CASE Tick
      BY <2>1, <2>2, <2>3 DEF Tick, config
    <2>. QED  BY <2>1, <2>2, <2>3, CooldownStep, CloseOutKeeps, VarsKeep DEF Next
  <1>3. TypeInv /\ CooldownInv => CooldownBounded
    <2>. SUFFICES ASSUME TypeInv, CooldownInv, limits.cooldown > 0, NEW o \in opens
                  PROVE  Cardinality(Window(o.symbol, o.at)) <= Workers
      BY DEF CooldownBounded, Window
    <2>1. o.symbol \in Symbols /\ o.at \in Nat
      BY DEF TypeInv, TypeOK, Open
    <2>. QED  BY <2>1 DEF CooldownInv
  <1>. QED  BY InitType, NextType, <1>1, <1>2, <1>3, PTL DEF Spec

-----------------------------------------------------------------------------
(* The risk that is open.                                                  *)

\* The risk of finitely many positions is a number.
LEMMA OpenRiskType ==
    ASSUME NEW u \in [Symbols -> Nat], IsFiniteSet(OpenSymbols(u))
    PROVE  OpenRisk(u) \in Nat
  BY SumType DEF OpenRisk, OpenSymbols

\* The sum over the open symbols, one of them apart.
LEMMA OpenRiskSplit ==
    ASSUME NEW u \in [Symbols -> Nat], IsFiniteSet(OpenSymbols(u)), NEW s \in Symbols
    PROVE  /\ SumFunctionOnSet(u, OpenSymbols(u) \ {s}) \in Nat
           /\ IsFiniteSet(OpenSymbols(u) \ {s})
           /\ OpenRisk(u) = u[s] + SumFunctionOnSet(u, OpenSymbols(u) \ {s})
  <1>1. IsFiniteSet(OpenSymbols(u) \ {s})
    BY FS_RemoveElement
  <1>2. \A x \in OpenSymbols(u) : u[x] \in Nat
    BY DEF OpenSymbols
  <1>3. SumFunctionOnSet(u, OpenSymbols(u) \ {s}) \in Nat
    BY <1>1, <1>2, SumType
  <1>4. CASE s \in OpenSymbols(u)
    BY <1>1, <1>2, <1>3, <1>4, SumElement DEF OpenRisk
  <1>5. CASE s \notin OpenSymbols(u)
    <2>1. u[s] = 0 /\ OpenSymbols(u) \ {s} = OpenSymbols(u)
      BY <1>5 DEF OpenSymbols
    <2>2. SumFunctionOnSet(u, OpenSymbols(u) \ {s}) = OpenRisk(u)
      BY <2>1 DEF OpenRisk
    <2>. QED  BY <1>1, <1>3, <2>1, <2>2
  <1>. QED  BY <1>1, <1>3, <1>4, <1>5

\* Changing one symbol changes the sum by as much.
LEMMA OpenRiskChange ==
    ASSUME NEW u \in [Symbols -> Nat], IsFiniteSet(OpenSymbols(u)),
           NEW s \in Symbols, NEW n \in Nat,
           NEW v \in [Symbols -> Nat], v[s] = n,
           \A x \in Symbols \ {s} : v[x] = u[x]
    PROVE  OpenRisk(v) + u[s] = OpenRisk(u) + n
  <1>1. /\ v \in [Symbols -> Nat]
        /\ OpenSymbols(v) \ {s} = OpenSymbols(u) \ {s}
        /\ OpenSymbols(v) \subseteq OpenSymbols(u) \union {s}
        /\ v[s] = n
    BY DEF OpenSymbols
  <1>2. IsFiniteSet(OpenSymbols(v))
    BY <1>1, OneMore
  <1>3. /\ SumFunctionOnSet(u, OpenSymbols(u) \ {s}) \in Nat
        /\ OpenRisk(u) = u[s] + SumFunctionOnSet(u, OpenSymbols(u) \ {s})
        /\ IsFiniteSet(OpenSymbols(u) \ {s})
    BY OpenRiskSplit
  <1>4. /\ SumFunctionOnSet(v, OpenSymbols(u) \ {s}) \in Nat
        /\ OpenRisk(v) = n + SumFunctionOnSet(v, OpenSymbols(u) \ {s})
    BY <1>1, <1>2, OpenRiskSplit
  <1>5. SumFunctionOnSet(v, OpenSymbols(u) \ {s}) = SumFunctionOnSet(u, OpenSymbols(u) \ {s})
    <2>1. \A x \in OpenSymbols(u) \ {s} : 
             v[x] \in Nat /\ u[x] \in Nat /\ v[x] <= u[x] /\ u[x] <= v[x]
      BY DEF OpenSymbols
    <2>. DEFINE rest == OpenSymbols(u) \ {s}
    <2>2. IsFiniteSet(rest)
      BY <1>3
    <2>. HIDE DEF rest
    <2>3. SumFunctionOnSet(v, rest) <= SumFunctionOnSet(u, rest)
      BY <2>1, <2>2, SumMonotone DEF rest
    <2>4. SumFunctionOnSet(u, rest) <= SumFunctionOnSet(v, rest)
      BY <2>1, <2>2, SumMonotone DEF rest
    <2>. QED  BY <1>3, <1>4, <2>3, <2>4 DEF rest
  <1>6. u[s] \in Nat
    OBVIOUS
  <1>. QED  BY <1>3, <1>4, <1>5, <1>6

\* With a penalty of at least one the estimate is at least the risk.
LEMMA EstimateNotBelow ==
    ASSUME TypeInv, NEW t \in Tasks, NEW visible, limits.penalty > 0
    PROVE  OpenRisk(stats[t].units) <= EstimatedRisk(stats[t].units, visible)
  <1>. DEFINE u == stats[t].units
              f == [s \in Symbols |-> IF s \in visible THEN u[s] ELSE u[s] * limits.penalty]
  <1>1. u \in [Symbols -> Nat] /\ IsFiniteSet(OpenSymbols(u))
    BY StatsFields
  <1>2. limits.penalty \in Nat
    BY LimitTypes DEF TypeInv
  <1>3. \A m, n \in Nat : n > 0 => m * n \in Nat /\ m <= m * n
    OBVIOUS
  <1>4. \A s \in OpenSymbols(u) : u[s] \in Nat /\ f[s] \in Nat /\ u[s] <= f[s]
    <2>1. ASSUME NEW s \in OpenSymbols(u)
          PROVE  u[s] \in Nat /\ s \in Symbols
      BY <1>1 DEF OpenSymbols
    <2>. HIDE DEF u
    <2>. QED  BY <1>2, <1>3, <2>1
  <1>5. SumFunctionOnSet(u, OpenSymbols(u)) <= SumFunctionOnSet(f, OpenSymbols(u))
    <2>. HIDE DEF u, f
    <2>. QED  BY <1>1, <1>4, SumMonotone
  <1>. QED  BY <1>5 DEF OpenRisk, EstimatedRisk

\* Where the risk does not grow and no execution passes, the bound stays.
LEMMA RiskFewer ==
    ASSUME TypeInv, TypeInv', RiskInv, UNCHANGED <<limits, stopless>>,
           OpenRisk(units') <= OpenRisk(units),
           RiskPassed' \subseteq RiskPassed
    PROVE  RiskInv'
  <1>1. /\ Cardinality(RiskPassed') <= Cardinality(RiskPassed)
        /\ Cardinality(RiskPassed') \in Nat /\ Cardinality(RiskPassed) \in Nat
    BY PassedAreBusy, AtMostWorkers, Fewer
  <1>2. /\ RiskOvershoot \in Nat /\ limits.risk \in Nat
        /\ RiskOvershoot' = RiskOvershoot
    BY WorkerAssumption, LimitTypes DEF RiskOvershoot, Overshoot, TypeInv
  <1>3. OpenRisk(units) \in Nat /\ OpenRisk(units') \in Nat
    <2>1. units' \in [Symbols -> Nat] /\ IsFiniteSet(OpenSymbols(units'))
      BY DEF TypeInv, TypeOK, OpenSymbols
    <2>2. units \in [Symbols -> Nat] /\ IsFiniteSet(OpenSymbols(units))
      BY DEF TypeInv, TypeOK
    <2>. QED  BY <2>1, <2>2, OpenRiskType
  <1>4. OpenRisk(units)' = OpenRisk(units')
    BY DEF OpenRisk, OpenSymbols
  <1>. QED  BY <1>1, <1>2, <1>3, <1>4 DEF RiskInv

LEMMA RiskStep ==
    ASSUME TypeInv, RiskInv, TypeInv', NEW t \in Tasks, TaskStep(t)
    PROVE  RiskInv'
  <1>1. /\ UNCHANGED <<limits, plan, stopless, now>>
        /\ \A u \in Tasks \ {t} : pc'[u] = pc[u] /\ stats'[u] = stats[u]
    BY OwnStep
  <1>2. \A u \in Tasks : OpenRisk(stats[u].units)' = OpenRisk(stats'[u].units)
    BY DEF OpenRisk, OpenSymbols
  <1>3. \A u \in Tasks \ {t} : u \in RiskPassed' <=> u \in RiskPassed
    BY <1>1, <1>2 DEF RiskPassed, RiskExceeded, PlannedRisk
  <1>4. /\ limits.risk \in Nat /\ plan[t] \in Symbols /\ units \in [Symbols -> Nat]
        /\ IsFiniteSet(OpenSymbols(units))
        /\ RiskOvershoot = IF stopless = {} THEN Workers - 1 ELSE Workers
        /\ Workers \in Nat \ {0} /\ RiskOvershoot' = RiskOvershoot
        /\ PlannedRisk(t) \in {0, 1} /\ PlannedRisk(t)' = PlannedRisk(t)
        /\ stopless = {} => PlannedRisk(t) = 1
    BY <1>1, LimitTypes, WorkerAssumption
    DEF RiskOvershoot, Overshoot, PlannedRisk, TypeInv, TypeOK
  <1>5. OpenRisk(units) \in Nat /\ OpenRisk(units)' = OpenRisk(units')
    BY <1>4, OpenRiskType DEF OpenRisk, OpenSymbols
  <1>6. CASE pc[t] = "positions" /\ pc'[t] = "last_open"
    <2>1. stats'[t].units = units /\ UNCHANGED units
      BY <1>6, StepEffect
    <2>2. CASE t \in RiskPassed'
      <3>1. OpenRisk(units) + PlannedRisk(t) <= limits.risk
        BY <1>1, <1>4, <1>2, <1>6, <2>1, <2>2 DEF RiskPassed
      <3>2. Cardinality(RiskPassed') <= Workers /\ Cardinality(RiskPassed') \in Nat
        <4>1. RiskPassed' \subseteq Busy'
          BY DEF RiskPassed, Busy, Checking
        <4>2. IsFiniteSet(Busy') /\ Cardinality(Busy') <= Workers
          BY DEF TypeInv
        <4>. QED  BY <4>1, <4>2, Fewer, WorkerAssumption
      <3>3. OpenRisk(units)' = OpenRisk(units)
        BY <1>5, <2>1
      <3>4. OpenRisk(units) + Cardinality(RiskPassed') <= limits.risk + RiskOvershoot
        BY <1>4, <1>5, <3>1, <3>2
      <3>. QED  BY <1>1, <1>4, <3>3, <3>4 DEF RiskInv
    <2>3. CASE t \notin RiskPassed'
      <3>1. RiskPassed' \subseteq RiskPassed
        BY <1>3, <2>3 DEF RiskPassed
      <3>2. OpenRisk(units') <= OpenRisk(units)
        BY <1>5, <2>1
      <3>. QED  BY <1>1, <3>1, <3>2, RiskFewer
    <2>. QED  BY <2>2, <2>3
  <1>7. CASE pc[t] = "enter"
    <2>1. t \in RiskPassed /\ t \notin RiskPassed'
      BY <1>7, StepEffect DEF RiskPassed
    <2>2. RiskPassed' \subseteq RiskPassed \ {t}
      BY <1>3, <2>1 DEF RiskPassed
    <2>3. /\ Cardinality(RiskPassed') + 1 <= Cardinality(RiskPassed)
          /\ Cardinality(RiskPassed') \in Nat /\ Cardinality(RiskPassed) \in Nat
      BY <2>1, <2>2, PassedAreBusy, AtMostWorkers, OneFewer
    <2>4. OpenRisk(units') <= OpenRisk(units) + 1 /\ OpenRisk(units') \in Nat
      <3>1. CASE UNCHANGED units
        BY <1>5, <3>1
      <3>2. ASSUME NEW after \in {units[plan[t]] + 1, 1},
                   units' = [units EXCEPT ![plan[t]] = after]
            PROVE  <2>4
        <4>1. /\ after \in Nat /\ units[plan[t]] \in Nat
              /\ after <= units[plan[t]] + 1
          BY <1>4
        <4>2. OpenRisk(units') + units[plan[t]] = OpenRisk(units) + after
          <5>1. /\ units' \in [Symbols -> Nat] /\ units'[plan[t]] = after
                /\ \A x \in Symbols \ {plan[t]} : units'[x] = units[x]
            BY <1>4, <3>2, <4>1
          <5>. QED  BY <1>4, <4>1, <5>1, OpenRiskChange
        <4>3. OpenRisk(units') \in Nat
          <5>1. units' \in [Symbols -> Nat] /\ IsFiniteSet(OpenSymbols(units'))
            BY DEF TypeInv, TypeOK, OpenSymbols
          <5>. QED  BY <5>1, OpenRiskType
        <4>. QED  BY <1>5, <4>1, <4>2, <4>3
      <3>. QED  BY <1>7, <3>1, <3>2, StepEffect
    <2>. QED  BY <1>1, <1>4, <1>5, <2>3, <2>4 DEF RiskInv
  <1>8. CASE ~(pc[t] = "positions" /\ pc'[t] = "last_open") /\ pc[t] # "enter"
    <2>1. UNCHANGED units
      BY <1>8, StepEffect DEF ReadCount
    <2>2. ASSUME limits.risk > 0, limits.penalty > 0, t \in RiskPassed'
          PROVE  t \in RiskPassed
      <3>1. CASE pc[t] = "last_open"
        BY <1>1, <1>2, <1>4, <2>2, <3>1, StepEffect DEF RiskPassed
      <3>2. CASE pc[t] = "algo"
        <4>1. PICK visible : /\ pc'[t] = "judge"
                             /\ stats'[t].risk = EstimatedRisk(stats[t].units, visible)
          BY <3>2, StepEffect
        <4>2. OpenRisk(stats[t].units) <= stats'[t].risk
          BY <2>2, <4>1, EstimateNotBelow
        <4>3. /\ stats'[t].risk \in Nat /\ OpenRisk(stats[t].units) \in Nat
          BY <4>1, EstimateType, StatsFields, OpenRiskType
        <4>4. ~(stats'[t].risk + PlannedRisk(t) > limits.risk)
          BY <1>1, <1>4, <2>2, <4>1 DEF RiskPassed, RiskExceeded
        <4>. QED  BY <1>4, <3>2, <4>2, <4>3, <4>4 DEF RiskPassed
      <3>3. CASE pc[t] = "judge"
        BY <2>2, <3>3, StepEffect DEF RiskPassed
      <3>4. CASE pc[t] \notin {"last_open", "algo", "judge"}
        BY <1>8, <2>2, <3>4, StepEffect DEF RiskPassed
      <3>. QED  BY <3>1, <3>2, <3>3, <3>4
    <2>3. CASE limits.risk > 0 /\ limits.penalty > 0
      <3>1. RiskPassed' \subseteq RiskPassed
        BY <1>3, <2>2, <2>3 DEF RiskPassed
      <3>2. OpenRisk(units') <= OpenRisk(units)
        BY <1>5, <2>1
      <3>. QED  BY <1>1, <3>1, <3>2, RiskFewer
    <2>4. CASE ~(limits.risk > 0 /\ limits.penalty > 0)
      BY <1>1, <2>4 DEF RiskInv
    <2>. QED  BY <2>3, <2>4
  <1>. QED  BY <1>6, <1>7, <1>8

\* The open risk never exceeds the limit by more than one unit for each
\* other worker, and where plans may come without a stop by one unit more, if
\* a position without a stop is not estimated below its risk.
\* (account_risk.py, the max_total_risk_usdt rule)
THEOREM TotalRiskOvershoot == Spec => []TotalRiskBounded
  <1>1. Init => RiskInv
    <2>. SUFFICES ASSUME Init
                  PROVE  RiskInv
      OBVIOUS
    <2>1. OpenRisk(units) = 0
      BY InitPassed, SumEmpty DEF OpenRisk
    <2>2. RiskOvershoot \in Nat
      BY InitPassed, WorkerAssumption DEF RiskOvershoot
    <2>. QED  BY <2>1, <2>2, InitPassed, FS_EmptySet DEF RiskInv, Limits
  <1>2. TypeInv /\ TypeInv' /\ RiskInv /\ [Next]_vars => RiskInv'
    <2>. SUFFICES ASSUME TypeInv, TypeInv', RiskInv, [Next]_vars
                  PROVE  RiskInv'
      OBVIOUS
    <2>1. ASSUME UNCHANGED <<limits, plan, stopless, pc, stats>>,
                 OpenRisk(units') <= OpenRisk(units)
          PROVE  RiskInv'
      <3>1. \A u \in Tasks : OpenRisk(stats[u].units)' = OpenRisk(stats[u].units)
        BY <2>1 DEF OpenRisk, OpenSymbols
      <3>2. RiskPassed' = RiskPassed
        BY <2>1, <3>1 DEF RiskPassed, RiskExceeded, PlannedRisk
      <3>. QED  BY <2>1, <3>2, RiskFewer
    <2>2. units \in [Symbols -> Nat] /\ IsFiniteSet(OpenSymbols(units))
      BY DEF TypeInv, TypeOK
    <2>3. OpenRisk(units) \in Nat
      BY <2>2, OpenRiskType
    <2>4. ASSUME NEW s \in Symbols, CloseOut(s)
          PROVE  OpenRisk(units') <= OpenRisk(units)
      <3>1. units' = [units EXCEPT ![s] = 0]
        BY <2>4 DEF CloseOut
      <3>2. OpenRisk(units') + units[s] = OpenRisk(units) + 0
        <4>1. /\ units' \in [Symbols -> Nat] /\ units'[s] = 0
              /\ \A x \in Symbols \ {s} : units'[x] = units[x]
          BY <2>2, <3>1
        <4>. QED  BY <2>2, <4>1, OpenRiskChange
      <3>3. OpenRisk(units') \in Nat
        <4>1. units' \in [Symbols -> Nat] /\ IsFiniteSet(OpenSymbols(units'))
          BY DEF TypeInv, TypeOK, OpenSymbols
        <4>. QED  BY <4>1, OpenRiskType
      <3>. QED  BY <2>2, <2>3, <3>2, <3>3
    <2>5. CASE Tick
      BY <2>1, <2>3, <2>5 DEF Tick, config
    <2>6. CASE UNCHANGED vars
      BY <2>1, <2>3, <2>6, VarsKeep
    <2>. QED  BY <2>1, <2>4, <2>5, <2>6, RiskStep, CloseOutKeeps DEF Next
  <1>3. TypeInv /\ RiskInv => TotalRiskBounded
    <2>. SUFFICES ASSUME TypeInv, RiskInv, limits.risk > 0, limits.penalty > 0
                  PROVE  OpenRisk(units) <= limits.risk + RiskOvershoot
      BY DEF TotalRiskBounded, OpenRisk
    <2>1. OpenRisk(units) \in Nat
      BY OpenRiskType DEF TypeInv, TypeOK
    <2>2. Cardinality(RiskPassed) \in Nat
      BY PassedAreBusy, AtMostWorkers
    <2>3. limits.risk \in Nat /\ RiskOvershoot \in Nat
      BY LimitTypes, WorkerAssumption DEF TypeInv, RiskOvershoot, Overshoot
    <2>. QED  BY <2>1, <2>2, <2>3 DEF RiskInv
  <1>. QED  BY InitType, NextType, <1>1, <1>2, <1>3, PTL DEF Spec

=============================================================================
