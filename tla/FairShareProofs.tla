--------------------------- MODULE FairShareProofs ---------------------------
(***************************************************************************)
(* What fair_targets of submit_coordinator.py computes, for any number of  *)
(* jobs, any demands, any capacity and any turn: exactly the capacity, or  *)
(* all demands if they are less, is handed out (ExactDivision); no target  *)
(* exceeds the max-min fair share (FairTargetsFair); and only the turn's   *)
(* remainder by the number of waiting jobs matters (TurnWraps).            *)
(*                                                                         *)
(* fair_targets is a loop and a sum is a fold, so both need an induction   *)
(* over sets of jobs.  It is made with a minimal counterexample: among the *)
(* subsets of a finite set for which a claim fails one is minimal          *)
(* (MinimalSubset), and one step of the recursion refutes it.  That the    *)
(* recursive functions satisfy their equations is proved the same way      *)
(* (RecursionExists).                                                      *)
(***************************************************************************)
EXTENDS FairShare, FiniteSetTheorems, WellFoundedInduction, TLAPS

-----------------------------------------------------------------------------
(* Induction and recursion over the subsets of a finite set.                 *)

\* A set of subsets of a finite set has a minimal member: the induction principle of
\* this module.
LEMMA MinimalSubset ==
    ASSUME NEW S, IsFiniteSet(S), NEW T, T \subseteq SUBSET S, T # {}
    PROVE  \E W \in T : \A U \in T : U \subseteq W => U = W
<1>1. IsWellFoundedOn(StrictSubsetOrdering(S), SUBSET S)
  BY FS_StrictSubsetOrderingWellFounded, FS_FiniteSubsetsOfFinite
<1>2. \E W \in T : \A U \in T : ~(<<U, W>> \in StrictSubsetOrdering(S))
  BY <1>1, WFMin
<1> QED
  BY <1>2 DEF StrictSubsetOrdering

\* h satisfies on the subsets of D the recursion that r describes: where it stops and
\* with what (stop, base), which smaller set comes next and what is made of the value
\* there (next, comb).
Recurs(h, D, r) ==
    \A W \in SUBSET D : h[W] = IF W \in r.stop THEN r.base[W] ELSE r.comb[W][h[r.next[W]]]

\* The recursion goes to strictly smaller sets.
Shrinks(r, S) ==
    \A W \in SUBSET S : W \notin r.stop => r.next[W] \subseteq W /\ r.next[W] # W

\* Two functions that satisfy the same recursion agree.
LEMMA RecursionUnique ==
    ASSUME NEW C, IsFiniteSet(C), NEW r, Shrinks(r, C),
           NEW g, Recurs(g, C, r), NEW h, Recurs(h, C, r)
    PROVE  g[C] = h[C]
<1> DEFINE Bad == {W \in SUBSET C : g[W] # h[W]}
<1>1. SUFFICES ASSUME Bad # {} PROVE FALSE
  OBVIOUS
<1>2. PICK W \in Bad : \A U \in Bad : U \subseteq W => U = W
  <2>1. Bad \subseteq SUBSET C
    OBVIOUS
  <2> HIDE DEF Bad
  <2> QED
    BY <1>1, <2>1, MinimalSubset
<1>3. CASE W \in r.stop
  BY <1>3 DEF Recurs
<1>4. CASE W \notin r.stop
  <2>1. r.next[W] \subseteq W /\ r.next[W] # W
    BY <1>4 DEF Shrinks
  <2>2. g[r.next[W]] = h[r.next[W]]
    BY <2>1, <1>2
  <2> QED
    BY <1>4, <2>2 DEF Recurs
<1> QED
  BY <1>3, <1>4

\* H holds a solution of the recursion below each proper subset of D.
Approximates(H, D, V, r) ==
    \A U \in SUBSET D : U # D => H[U] \in [SUBSET U -> V] /\ Recurs(H[U], U, r)

\* Solutions below all proper subsets of D give one on D.
LEMMA RecursionStep ==
    ASSUME NEW S, IsFiniteSet(S), NEW r, NEW V,
           Shrinks(r, S),
           r.base \in [SUBSET S -> V], r.comb \in [SUBSET S -> [V -> V]],
           NEW D \in SUBSET S, NEW H, Approximates(H, D, V, r)
    PROVE  \E h \in [SUBSET D -> V] : Recurs(h, D, r)
<1> USE DEF Approximates
<1> DEFINE value(U) == IF U \in r.stop THEN r.base[U] ELSE r.comb[U][H[r.next[U]][r.next[U]]]
           h == [U \in SUBSET D |-> value(U)]
<1>1. \A U \in SUBSET D : U \notin r.stop =>
         r.next[U] \in SUBSET D /\ r.next[U] \subseteq U /\ r.next[U] # D /\ r.next[U] # U
  <2> SUFFICES ASSUME NEW U \in SUBSET D, U \notin r.stop
               PROVE  /\ r.next[U] \in SUBSET D /\ r.next[U] \subseteq U
                      /\ r.next[U] # D /\ r.next[U] # U
    OBVIOUS
  <2>1. r.next[U] \subseteq U /\ r.next[U] # U
    BY DEF Shrinks
  <2> QED
    BY <2>1
<1>2. h \in [SUBSET D -> V]
  <2> SUFFICES ASSUME NEW U \in SUBSET D PROVE value(U) \in V
    OBVIOUS
  <2>1. CASE U \in r.stop
    BY <2>1
  <2>2. CASE U \notin r.stop
    <3>1. H[r.next[U]] \in [SUBSET r.next[U] -> V]
      BY <1>1, <2>2
    <3>3. r.next[U] \in SUBSET r.next[U]
      OBVIOUS
    <3>4. H[r.next[U]][r.next[U]] \in V
      BY <3>1, <3>3
    <3>2. r.comb[U] \in [V -> V]
      OBVIOUS
    <3> QED
      BY <2>2, <3>2, <3>4
  <2> QED
    BY <2>1, <2>2
<1>3. \A U \in SUBSET D : U # D => h[U] = H[U][U]
  <2> SUFFICES ASSUME NEW U \in SUBSET D, U # D PROVE h[U] = H[U][U]
    OBVIOUS
  <2>1. Recurs(H[U], U, r)
    OBVIOUS
  <2>2. CASE U \in r.stop
    BY <2>1, <2>2 DEF Recurs
  <2>3. CASE U \notin r.stop
    <3>1. /\ r.next[U] \in SUBSET D /\ r.next[U] # D /\ r.next[U] \subseteq U
      BY <1>1, <2>3
    <3>2. Recurs(H[r.next[U]], r.next[U], r)
      BY <3>1
    <3>3. Recurs(H[U], r.next[U], r)
      BY <2>1, <3>1 DEF Recurs
    <3>4. IsFiniteSet(r.next[U]) /\ Shrinks(r, r.next[U])
      <4>1. r.next[U] \in SUBSET S
        BY <3>1
      <4>2. IsFiniteSet(r.next[U])
        BY <4>1, FS_Subset
      <4> QED
        BY <4>1, <4>2 DEF Shrinks
    <3>5. H[r.next[U]][r.next[U]] = H[U][r.next[U]]
      BY <3>2, <3>3, <3>4, RecursionUnique
    <3> QED
      BY <2>1, <2>3, <3>5 DEF Recurs
  <2> QED
    BY <2>2, <2>3
<1>4. Recurs(h, D, r)
  <2> SUFFICES ASSUME NEW U \in SUBSET D
               PROVE  h[U] = IF U \in r.stop THEN r.base[U] ELSE r.comb[U][h[r.next[U]]]
    BY DEF Recurs
  <2>1. CASE U \in r.stop
    BY <2>1
  <2>2. CASE U \notin r.stop
    <3>1. h[r.next[U]] = H[r.next[U]][r.next[U]]
      BY <1>1, <1>3, <2>2
    <3> QED
      BY <2>2, <3>1
  <2> QED
    BY <2>1, <2>2
<1> QED
  BY <1>2, <1>4

\* A recursion to smaller sets has a solution.
LEMMA RecursionExists ==
    ASSUME NEW S, IsFiniteSet(S), NEW r, NEW V,
           Shrinks(r, S),
           r.base \in [SUBSET S -> V], r.comb \in [SUBSET S -> [V -> V]]
    PROVE  \E h \in [SUBSET S -> V] : Recurs(h, S, r)
<1> DEFINE Good(D, h) == h \in [SUBSET D -> V] /\ Recurs(h, D, r)
           Bad == {D \in SUBSET S : ~\E h : Good(D, h)}
<1>1. SUFFICES ASSUME Bad # {} PROVE FALSE
  OBVIOUS
<1>2. PICK D \in Bad : \A U \in Bad : U \subseteq D => U = D
  <2>1. Bad \subseteq SUBSET S
    OBVIOUS
  <2> HIDE DEF Bad
  <2> QED
    BY <1>1, <2>1, MinimalSubset
<1> DEFINE H == [U \in SUBSET D |-> CHOOSE h : Good(U, h)]
<1>3. D \in SUBSET S /\ ~\E h : Good(D, h)
  OBVIOUS
<1>4. \A U \in SUBSET D : U # D => Good(U, H[U])
  <2> SUFFICES ASSUME NEW U \in SUBSET D, U # D PROVE Good(U, H[U])
    OBVIOUS
  <2>1. \E h : Good(U, h)
    BY <1>2
  <2> HIDE DEF Good
  <2> QED
    BY <2>1
<1>6. Approximates(H, D, V, r)
  BY <1>4 DEF Approximates
<1> HIDE DEF H, Bad, Good
<1>5. \E h \in [SUBSET D -> V] : Recurs(h, D, r)
  BY <1>3, <1>6, RecursionStep
<1> QED
  BY <1>3, <1>5 DEF Good

-----------------------------------------------------------------------------
(* Sums over sets of jobs.                                                   *)

\* The member that a fold over a set takes first.
Pick(W) == CHOOSE x \in W : TRUE

\* The recursive function in SumOver, for the subsets of S.
SumFn(f, S) ==
    CHOOSE h : h = [W \in SUBSET S |->
                      IF W = {} THEN 0 ELSE f[Pick(W)] + h[W \ {Pick(W)}]]

\* The members of a finite set have counts.
Weighs(f, S) == IsFiniteSet(S) /\ \A x \in S : f[x] \in Nat

\* SumOver is that function at the whole set.
LEMMA SumUnfold ==
    ASSUME NEW f, NEW S
    PROVE  SumOver(f, S) = SumFn(f, S)[S]
BY DEF SumOver, MapThenSumSet, MapThenFoldSet, SumFn, Pick

\* A member is picked from a set that has one.
LEMMA PickIn ==
    ASSUME NEW W, W # {}
    PROVE  Pick(W) \in W
BY DEF Pick

\* Counts on a set are counts on its subsets.
LEMMA WeighsSubset ==
    ASSUME NEW f, NEW S, Weighs(f, S), NEW W, W \subseteq S
    PROVE  Weighs(f, W)
BY FS_Subset DEF Weighs

\* The function in SumOver satisfies its recursive equation.
LEMMA SumFnRecurs ==
    ASSUME NEW f, NEW S, Weighs(f, S), NEW X, X \subseteq S
    PROVE  SumFn(f, S)[X] =
              IF X = {} THEN 0 ELSE f[Pick(X)] + SumFn(f, S)[X \ {Pick(X)}]
<1> DEFINE r == [stop |-> {{}}, base |-> [W \in SUBSET S |-> 0],
                 next |-> [W \in SUBSET S |-> W \ {Pick(W)}],
                 comb |-> [W \in SUBSET S |->
                             [v \in Nat |-> IF W = {} THEN 0 ELSE f[Pick(W)] + v]]]
<1>1. Shrinks(r, S)
  BY PickIn DEF Shrinks
<1>2. r.base \in [SUBSET S -> Nat]
  OBVIOUS
<1>3. r.comb \in [SUBSET S -> [Nat -> Nat]]
  <2> SUFFICES ASSUME NEW W \in SUBSET S, NEW v \in Nat
               PROVE  (IF W = {} THEN 0 ELSE f[Pick(W)] + v) \in Nat
    OBVIOUS
  <2>1. W # {} => f[Pick(W)] \in Nat
    BY PickIn DEF Weighs
  <2> QED
    BY <2>1
<1>4. IsFiniteSet(S)
  BY DEF Weighs
<1>5. PICK h \in [SUBSET S -> Nat] : Recurs(h, S, r)
  <2> HIDE DEF r
  <2> QED
    BY <1>1, <1>2, <1>3, <1>4, RecursionExists
<1> DEFINE F(k) == [W \in SUBSET S |-> IF W = {} THEN 0 ELSE f[Pick(W)] + k[W \ {Pick(W)}]]
<1>6. h = F(h)
  <2>1. \A W \in SUBSET S : h[W] = F(h)[W]
    <3> SUFFICES ASSUME NEW W \in SUBSET S PROVE h[W] = F(h)[W]
      OBVIOUS
    <3>1. CASE W = {}
      BY <1>5, <3>1 DEF Recurs
    <3>2. CASE W # {}
      <4>1. h[W] = r.comb[W][h[W \ {Pick(W)}]]
        BY <1>5, <3>2 DEF Recurs
      <4>2. h[W \ {Pick(W)}] \in Nat
        OBVIOUS
      <4> QED
        BY <4>1, <4>2, <3>2
    <3> QED
      BY <3>1, <3>2
  <2> QED
    BY <2>1
<1>7. SumFn(f, S) = F(SumFn(f, S))
  <2>1. SumFn(f, S) = CHOOSE k : k = F(k)
    BY DEF SumFn
  <2> HIDE DEF F
  <2> QED
    BY <1>6, <2>1
<1>8. X \in SUBSET S
  OBVIOUS
<1>9. F(SumFn(f, S))[X] =
         IF X = {} THEN 0 ELSE f[Pick(X)] + SumFn(f, S)[X \ {Pick(X)}]
  BY <1>8
<1> HIDE DEF r, F
<1> QED
  BY <1>7, <1>9

\* It yields natural numbers.
LEMMA SumFnNat ==
    ASSUME NEW f, NEW S, Weighs(f, S), NEW W, W \subseteq S
    PROVE  SumFn(f, S)[W] \in Nat
<1> DEFINE Bad == {U \in SUBSET S : SumFn(f, S)[U] \notin Nat}
<1>1. SUFFICES ASSUME Bad # {} PROVE FALSE
  OBVIOUS
<1>2. PICK U \in Bad : \A X \in Bad : X \subseteq U => X = U
  <2>1. Bad \subseteq SUBSET S /\ IsFiniteSet(S)
    BY DEF Weighs
  <2> HIDE DEF Bad
  <2> QED
    BY <1>1, <2>1, MinimalSubset
<1>3. U # {}
  BY SumFnRecurs
<1>4. Pick(U) \in U /\ f[Pick(U)] \in Nat
  BY <1>3, PickIn DEF Weighs
<1>5. SumFn(f, S)[U \ {Pick(U)}] \in Nat
  BY <1>2, <1>4
<1>6. SumFn(f, S)[U] = f[Pick(U)] + SumFn(f, S)[U \ {Pick(U)}]
  <2>1. U \subseteq S
    OBVIOUS
  <2> HIDE DEF Bad
  <2> QED
    BY <1>3, <2>1, SumFnRecurs
<1> QED
  BY <1>4, <1>5, <1>6

\* On a subset it is the sum over that subset.
LEMMA SumFnLocal ==
    ASSUME NEW f, NEW S, Weighs(f, S), NEW W, W \subseteq S
    PROVE  SumFn(f, S)[W] = SumOver(f, W)
<1>0. Weighs(f, W)
  BY WeighsSubset
<1> DEFINE Bad == {U \in SUBSET W : SumFn(f, S)[U] # SumFn(f, W)[U]}
<1>1. SUFFICES ASSUME Bad # {} PROVE FALSE
  BY SumUnfold
<1>2. PICK U \in Bad : \A X \in Bad : X \subseteq U => X = U
  <2>1. Bad \subseteq SUBSET W /\ IsFiniteSet(W)
    BY <1>0 DEF Weighs
  <2> HIDE DEF Bad
  <2> QED
    BY <1>1, <2>1, MinimalSubset
<1>3. U # {}
  BY <1>0, SumFnRecurs
<1>4. Pick(U) \in U
  BY <1>3, PickIn
<1>5. SumFn(f, S)[U \ {Pick(U)}] = SumFn(f, W)[U \ {Pick(U)}]
  BY <1>2, <1>4
<1>6. /\ SumFn(f, S)[U] = f[Pick(U)] + SumFn(f, S)[U \ {Pick(U)}]
      /\ SumFn(f, W)[U] = f[Pick(U)] + SumFn(f, W)[U \ {Pick(U)}]
  <2>1. U \subseteq S /\ U \subseteq W
    OBVIOUS
  <2> HIDE DEF Bad
  <2> QED
    BY <1>0, <1>3, <2>1, SumFnRecurs
<1> QED
  BY <1>5, <1>6

\* A sum of counts is a count.
LEMMA SumNat ==
    ASSUME NEW f, NEW S, Weighs(f, S)
    PROVE  SumOver(f, S) \in Nat
BY SumUnfold, SumFnNat

\* The sum over no jobs.
LEMMA SumEmpty ==
    ASSUME NEW f
    PROVE  SumOver(f, {}) = 0
<1>1. Weighs(f, {})
  BY FS_EmptySet DEF Weighs
<1> QED
  BY <1>1, SumUnfold, SumFnRecurs

\* A sum is the picked count and the sum of the others.
LEMMA SumPick ==
    ASSUME NEW f, NEW S, Weighs(f, S), S # {}
    PROVE  SumOver(f, S) = f[Pick(S)] + SumOver(f, S \ {Pick(S)})
<1>1. SumFn(f, S)[S] = f[Pick(S)] + SumFn(f, S)[S \ {Pick(S)}]
  BY SumFnRecurs
<1>2. SumFn(f, S)[S \ {Pick(S)}] = SumOver(f, S \ {Pick(S)})
  BY SumFnLocal
<1> QED
  BY <1>1, <1>2, SumUnfold

\* The same for any member: the order in which a fold takes them does not matter.
LEMMA SumRemove ==
    ASSUME NEW f, NEW S, Weighs(f, S), NEW x \in S
    PROVE  SumOver(f, S) = f[x] + SumOver(f, S \ {x})
<1> DEFINE Bad == {U \in SUBSET S : \E y \in U : SumOver(f, U) # f[y] + SumOver(f, U \ {y})}
<1>1. SUFFICES ASSUME Bad # {} PROVE FALSE
  OBVIOUS
<1>2. PICK U \in Bad : \A X \in Bad : X \subseteq U => X = U
  <2>1. Bad \subseteq SUBSET S /\ IsFiniteSet(S)
    BY DEF Weighs
  <2> HIDE DEF Bad
  <2> QED
    BY <1>1, <2>1, MinimalSubset
<1>3. PICK y \in U : SumOver(f, U) # f[y] + SumOver(f, U \ {y})
  OBVIOUS
<1> DEFINE p == Pick(U)
<1>4. p \in U
  BY PickIn
<1>5. \A X : X \subseteq S => Weighs(f, X) /\ SumOver(f, X) \in Nat
  BY WeighsSubset, SumNat
<1>6. SumOver(f, U) = f[p] + SumOver(f, U \ {p})
  BY <1>3, <1>5, SumPick
<1>7. p # y
  BY <1>3, <1>6
<1> HIDE DEF p
<1>8. \A X \in SUBSET U : X # U => \A z \in X : SumOver(f, X) = f[z] + SumOver(f, X \ {z})
  BY <1>2
<1> HIDE DEF Bad
<1>9. /\ SumOver(f, U \ {p}) = f[y] + SumOver(f, (U \ {p}) \ {y})
      /\ SumOver(f, U \ {y}) = f[p] + SumOver(f, (U \ {y}) \ {p})
  <2>1. U \ {p} \in SUBSET U /\ U \ {p} # U /\ y \in U \ {p}
    BY <1>4, <1>7
  <2>2. U \ {y} \in SUBSET U /\ U \ {y} # U /\ p \in U \ {y}
    BY <1>4, <1>7
  <2> QED
    BY <1>8, <2>1, <2>2
<1>10. (U \ {p}) \ {y} = (U \ {y}) \ {p}
  OBVIOUS
<1>11. f[p] \in Nat /\ f[y] \in Nat /\ SumOver(f, (U \ {p}) \ {y}) \in Nat
  <2>1. U \subseteq S
    BY DEF Bad
  <2>2. p \in S /\ y \in S /\ (U \ {p}) \ {y} \subseteq S
    BY <1>4, <2>1
  <2> QED
    BY <1>5, <2>2 DEF Weighs
<1> QED
  BY <1>3, <1>6, <1>9, <1>10, <1>11

\* Larger counts have a larger sum.
LEMMA SumMonotone ==
    ASSUME NEW f, NEW g, NEW S, Weighs(f, S), Weighs(g, S),
           \A x \in S : f[x] <= g[x]
    PROVE  SumOver(f, S) <= SumOver(g, S)
<1> DEFINE Bad == {U \in SUBSET S : ~(SumOver(f, U) <= SumOver(g, U))}
<1>1. SUFFICES ASSUME Bad # {} PROVE FALSE
  OBVIOUS
<1>2. PICK U \in Bad : \A X \in Bad : X \subseteq U => X = U
  <2>1. Bad \subseteq SUBSET S /\ IsFiniteSet(S)
    BY DEF Weighs
  <2> HIDE DEF Bad
  <2> QED
    BY <1>1, <2>1, MinimalSubset
<1>3. PICK x : x \in U
  <2>1. U # {}
    BY SumEmpty
  <2> QED
    BY <2>1
<1>4. SumOver(f, U \ {x}) <= SumOver(g, U \ {x})
  BY <1>2, <1>3
<1>5. U \subseteq S /\ U \ {x} \subseteq S /\ x \in S /\ ~(SumOver(f, U) <= SumOver(g, U))
  BY <1>3
<1> HIDE DEF Bad
<1>6. /\ Weighs(f, U) /\ Weighs(g, U)
      /\ Weighs(f, U \ {x}) /\ Weighs(g, U \ {x})
  BY <1>5, WeighsSubset
<1>7. /\ SumOver(f, U) = f[x] + SumOver(f, U \ {x})
      /\ SumOver(g, U) = g[x] + SumOver(g, U \ {x})
  BY <1>3, <1>6, SumRemove
<1>8. /\ SumOver(f, U \ {x}) \in Nat /\ SumOver(g, U \ {x}) \in Nat
      /\ f[x] \in Nat /\ g[x] \in Nat /\ f[x] <= g[x]
  BY <1>5, <1>6, SumNat DEF Weighs
<1> QED
  BY <1>4, <1>5, <1>7, <1>8

\* A sum depends on the counts in its set only.
LEMMA SumSame ==
    ASSUME NEW f, NEW g, NEW S, Weighs(f, S), \A x \in S : f[x] = g[x]
    PROVE  SumOver(f, S) = SumOver(g, S)
<1>1. Weighs(g, S) /\ \A x \in S : f[x] <= g[x] /\ g[x] <= f[x]
  BY DEF Weighs
<1>2. SumOver(f, S) <= SumOver(g, S)
  BY <1>1, SumMonotone
<1>3. SumOver(g, S) <= SumOver(f, S)
  BY <1>1, SumMonotone
<1>4. SumOver(f, S) \in Nat /\ SumOver(g, S) \in Nat
  BY <1>1, SumNat
<1> QED
  BY <1>2, <1>3, <1>4

\* A change of one count changes the sum by as much.
LEMMA SumUpdate ==
    ASSUME NEW f, NEW g, NEW S, Weighs(f, S), NEW x \in S, g[x] \in Nat,
           \A y \in S \ {x} : g[y] = f[y]
    PROVE  SumOver(g, S) = SumOver(f, S) - f[x] + g[x]
<1>1. Weighs(g, S)
  BY DEF Weighs
<1>2. Weighs(f, S \ {x})
  BY WeighsSubset
<1>3. SumOver(f, S \ {x}) = SumOver(g, S \ {x})
  BY <1>2, SumSame
<1>4. /\ SumOver(f, S) = f[x] + SumOver(f, S \ {x})
      /\ SumOver(g, S) = g[x] + SumOver(g, S \ {x})
  BY <1>1, SumRemove
<1>5. f[x] \in Nat /\ SumOver(f, S \ {x}) \in Nat
  BY <1>2, SumNat DEF Weighs
<1> QED
  BY <1>3, <1>4, <1>5

\* The sum over a set is that over a part and that over the rest.
LEMMA SumSplit ==
    ASSUME NEW f, NEW S, Weighs(f, S), NEW W, W \subseteq S
    PROVE  SumOver(f, S) = SumOver(f, W) + SumOver(f, S \ W)
<1> DEFINE Bad == {U \in SUBSET W : ~(SumOver(f, S) = SumOver(f, S \ U) + SumOver(f, U))}
<1>1. SUFFICES ASSUME Bad # {} PROVE FALSE
  <2>1. SumOver(f, S) = SumOver(f, S \ W) + SumOver(f, W)
    OBVIOUS
  <2>2. SumOver(f, S \ W) \in Nat /\ SumOver(f, W) \in Nat
    BY WeighsSubset, SumNat
  <2> QED
    BY <2>1, <2>2
<1>2. PICK U \in Bad : \A X \in Bad : X \subseteq U => X = U
  <2>1. Bad \subseteq SUBSET S /\ IsFiniteSet(S)
    BY DEF Weighs
  <2> HIDE DEF Bad
  <2> QED
    BY <1>1, <2>1, MinimalSubset
<1>3. U # {}
  <2>1. S \ {} = S
    OBVIOUS
  <2>2. SumOver(f, S) \in Nat /\ SumOver(f, {}) = 0
    BY SumNat, SumEmpty
  <2>3. SumOver(f, S) = SumOver(f, S \ {}) + SumOver(f, {})
    BY <2>1, <2>2
  <2> QED
    BY <2>3
<1>4. PICK x : x \in U
  BY <1>3
<1>5. SumOver(f, S) = SumOver(f, S \ (U \ {x})) + SumOver(f, U \ {x})
  BY <1>2, <1>4
<1>6. /\ U \subseteq S /\ x \in S /\ U \ {x} \subseteq S
      /\ ~(SumOver(f, S) = SumOver(f, S \ U) + SumOver(f, U))
  BY <1>4
<1> HIDE DEF Bad
<1>7. /\ (S \ (U \ {x})) \ {x} = S \ U
      /\ x \in S \ (U \ {x})
  BY <1>4, <1>6
<1>8. /\ Weighs(f, U) /\ Weighs(f, S \ (U \ {x})) /\ Weighs(f, S \ U) /\ Weighs(f, U \ {x})
  BY <1>6, WeighsSubset
<1>9. /\ SumOver(f, S \ (U \ {x})) = f[x] + SumOver(f, S \ U)
      /\ SumOver(f, U) = f[x] + SumOver(f, U \ {x})
  BY <1>4, <1>7, <1>8, SumRemove
<1>10. f[x] \in Nat /\ SumOver(f, S \ U) \in Nat /\ SumOver(f, U \ {x}) \in Nat
  BY <1>6, <1>8, SumNat DEF Weighs
<1> QED
  BY <1>5, <1>6, <1>9, <1>10

\* The sum of equal counts.
LEMMA SumConstant ==
    ASSUME NEW f, NEW S, IsFiniteSet(S), NEW c \in Nat, \A x \in S : f[x] = c
    PROVE  SumOver(f, S) = c * Cardinality(S)
<1> DEFINE Bad == {U \in SUBSET S : SumOver(f, U) # c * Cardinality(U)}
<1>1. SUFFICES ASSUME Bad # {} PROVE FALSE
  OBVIOUS
<1>2. PICK U \in Bad : \A X \in Bad : X \subseteq U => X = U
  <2>1. Bad \subseteq SUBSET S
    OBVIOUS
  <2> HIDE DEF Bad
  <2> QED
    BY <1>1, <2>1, MinimalSubset
<1>3. PICK x : x \in U
  <2>1. U # {}
    BY SumEmpty, FS_EmptySet
  <2> QED
    BY <2>1
<1>4. SumOver(f, U \ {x}) = c * Cardinality(U \ {x})
  BY <1>2, <1>3
<1>5. U \subseteq S /\ x \in S /\ SumOver(f, U) # c * Cardinality(U)
  BY <1>3
<1> HIDE DEF Bad
<1>6. /\ Cardinality(U) \in Nat /\ Cardinality(U \ {x}) \in Nat
      /\ Cardinality(U) = Cardinality(U \ {x}) + 1
  <2>1. IsFiniteSet(U)
    BY <1>5, FS_Subset
  <2>2. IsFiniteSet(U \ {x}) /\ Cardinality(U \ {x}) = Cardinality(U) - 1
    BY <1>3, <2>1, FS_RemoveElement
  <2> QED
    BY <2>1, <2>2, FS_CardinalityType
<1>7. Weighs(f, S)
  BY DEF Weighs
<1>8. SumOver(f, U) = c + SumOver(f, U \ {x})
  <2>1. Weighs(f, U)
    BY <1>5, <1>7, WeighsSubset
  <2> QED
    BY <1>3, <1>5, <2>1, SumRemove
<1>9. c * Cardinality(U) = c + c * Cardinality(U \ {x})
  BY <1>6
<1> QED
  BY <1>4, <1>5, <1>8, <1>9

\* Counts that are nowhere larger and once smaller have a smaller sum.
LEMMA SumStrict ==
    ASSUME NEW f, NEW g, NEW S, Weighs(f, S), Weighs(g, S),
           \A k \in S : f[k] <= g[k], NEW x \in S, f[x] < g[x]
    PROVE  SumOver(f, S) < SumOver(g, S)
<1>1. Weighs(f, S \ {x}) /\ Weighs(g, S \ {x})
  BY WeighsSubset
<1>2. SumOver(f, S \ {x}) <= SumOver(g, S \ {x})
  BY <1>1, SumMonotone
<1>3. /\ SumOver(f, S) = f[x] + SumOver(f, S \ {x})
      /\ SumOver(g, S) = g[x] + SumOver(g, S \ {x})
  BY SumRemove
<1>4. /\ f[x] \in Nat /\ g[x] \in Nat
      /\ SumOver(f, S \ {x}) \in Nat /\ SumOver(g, S \ {x}) \in Nat
  BY <1>1, SumNat DEF Weighs
<1> QED
  BY <1>2, <1>3, <1>4

-----------------------------------------------------------------------------
(* Division with remainder.                                                  *)

\* The quotient and the remainder of natural numbers.
LEMMA Division ==
    ASSUME NEW a \in Nat, NEW n \in Nat \ {0}
    PROVE  /\ a \div n \in Nat
           /\ a % n \in 0 .. n - 1
           /\ a = (a \div n) * n + (a % n)
OBVIOUS

\* The same for integers, with a remainder that is not negative.
LEMMA DivisionInt ==
    ASSUME NEW a \in Int, NEW n \in Nat \ {0}
    PROVE  /\ a \div n \in Int
           /\ a % n \in 0 .. n - 1
           /\ a = (a \div n) * n + (a % n)
OBVIOUS

\* A multiple that fits is below the quotient.
LEMMA AtLeast ==
    ASSUME NEW a \in Nat, NEW n \in Nat \ {0}, NEW q \in Nat, q * n <= a
    PROVE  q <= a \div n
<1> DEFINE s == a \div n
           m == a % n
<1>1. s \in Nat /\ m \in 0 .. n - 1 /\ a = s * n + m
  BY Division
<1> HIDE DEF s, m
<1>2. SUFFICES ASSUME ~(q <= s) PROVE FALSE
  BY DEF s
<1>3. q >= s + 1
  BY <1>1, <1>2
<1>4. q * n >= (s + 1) * n
  BY <1>1, <1>3
<1>5. (s + 1) * n = s * n + n
  BY <1>1
<1> QED
  BY <1>1, <1>4, <1>5

\* The remainder is unique.
LEMMA ModIs ==
    ASSUME NEW a \in Int, NEW n \in Nat \ {0}, NEW q \in Int, NEW m \in 0 .. n - 1,
           a = q * n + m
    PROVE  a % n = m
<1> DEFINE s == a \div n
           k == a % n
<1>1. s \in Int /\ k \in 0 .. n - 1 /\ a = s * n + k
  BY DivisionInt
<1> HIDE DEF s, k
<1>2. (s - q) * n = m - k
  BY <1>1
<1>3. CASE s = q
  BY <1>1, <1>3 DEF k
<1>4. CASE s > q
  <2>1. (s - q) * n >= n
    BY <1>1, <1>4
  <2> QED
    BY <1>1, <1>2, <2>1
<1>5. CASE s < q
  <2>1. (s - q) * n <= -n
    BY <1>1, <1>5
  <2> QED
    BY <1>1, <1>2, <2>1
<1> QED
  BY <1>1, <1>3, <1>4, <1>5

-----------------------------------------------------------------------------
(* The loop of fair_targets.                                                 *)

\* The order in which fair_targets sorts the waiting jobs.
Precedes(j, k, demands) ==
    \/ demands[j] < demands[k]
    \/ demands[j] = demands[k] /\ j <= k

\* Some job comes first in it,
LEMMA SmallestExists ==
    ASSUME NEW demands, NEW S, Weighs(demands, S), S \subseteq Nat, S # {}
    PROVE  \E j \in S : \A k \in S : Precedes(j, k, demands)
<1> DEFINE Bad == {U \in SUBSET S :
                     U # {} /\ ~\E j \in U : \A k \in U : Precedes(j, k, demands)}
<1>1. SUFFICES ASSUME Bad # {} PROVE FALSE
  OBVIOUS
<1>2. PICK U \in Bad : \A X \in Bad : X \subseteq U => X = U
  <2>1. Bad \subseteq SUBSET S
    OBVIOUS
  <2>2. IsFiniteSet(S)
    BY DEF Weighs
  <2> HIDE DEF Bad
  <2> QED
    BY ONLY <1>1, <2>1, <2>2, MinimalSubset
<1>3. PICK x : x \in U
  OBVIOUS
<1>4. /\ U \subseteq Nat /\ \A k \in U : demands[k] \in Nat
      /\ ~\E j \in U : \A k \in U : Precedes(j, k, demands)
  BY DEF Weighs
<1>5. U \ {x} # {}
  <2> SUFFICES ASSUME U \ {x} = {} PROVE FALSE
    OBVIOUS
  <2>1. \A k \in U : k = x
    OBVIOUS
  <2> QED
    BY <1>3, <1>4, <2>1 DEF Precedes
<1>6. PICK y \in U \ {x} : \A k \in U \ {x} : Precedes(y, k, demands)
  <2>1. U \ {x} \subseteq U /\ U \ {x} # U
    BY <1>3
  <2>2. U \ {x} \notin Bad
    <3> HIDE DEF Bad
    <3> QED
      BY <1>2, <2>1
  <2>3. U \ {x} \in SUBSET S
    OBVIOUS
  <2> QED
    BY <1>5, <2>2, <2>3
<1> HIDE DEF Bad
<1>7. CASE Precedes(x, y, demands)
  <2>1. \A k \in U : Precedes(x, k, demands)
    BY <1>3, <1>4, <1>6, <1>7 DEF Precedes
  <2> QED
    BY <1>3, <1>4, <2>1
<1>8. CASE ~Precedes(x, y, demands)
  <2>1. \A k \in U : Precedes(y, k, demands)
    BY <1>3, <1>4, <1>6, <1>8 DEF Precedes
  <2> QED
    BY <1>4, <1>6, <2>1
<1> QED
  BY <1>7, <1>8

\* and that one has the smallest demand.
LEMMA SmallestIs ==
    ASSUME NEW demands, NEW W, Weighs(demands, W), W \subseteq Nat, W # {}
    PROVE  /\ Smallest(W, demands) \in W
           /\ \A k \in W : demands[Smallest(W, demands)] <= demands[k]
<1>1. Smallest(W, demands) = CHOOSE j \in W : \A k \in W : Precedes(j, k, demands)
  BY DEF Smallest, Precedes
<1>2. /\ Smallest(W, demands) \in W
      /\ \A k \in W : Precedes(Smallest(W, demands), k, demands)
  BY <1>1, SmallestExists
<1>3. PICK j \in W : j = Smallest(W, demands) /\ \A k \in W : Precedes(j, k, demands)
  BY <1>2
<1>4. \A k \in W : demands[j] \in Nat /\ demands[k] \in Nat
  BY DEF Weighs
<1>5. \A k \in W : demands[j] <= demands[k]
  BY <1>3, <1>4 DEF Precedes
<1> QED
  BY <1>3, <1>5

\* What remains of the capacity when the jobs of W are still waiting,
Remaining(W, demands, capacity) == capacity - SumOver(demands, DOMAIN demands \ W)
\* the equal share of it,
Share(W, demands, capacity) == Remaining(W, demands, capacity) \div Cardinality(W)
\* and whether the loop breaks there.
Breaks(W, demands, capacity) ==
    W = {} \/ demands[Smallest(W, demands)] > Share(W, demands, capacity)
\* The recursive function in Waiting, which stands for the loop.
Pass(demands, capacity) ==
    CHOOSE h : h = [W \in SUBSET DOMAIN demands |->
        IF W = {} THEN W
        ELSE IF demands[Smallest(W, demands)] > Share(W, demands, capacity) THEN W
             ELSE h[W \ {Smallest(W, demands)}]]

\* Waiting is that function at all jobs.
LEMMA WaitingUnfold ==
    ASSUME NEW demands, NEW capacity
    PROVE  Waiting(demands, capacity) = Pass(demands, capacity)[DOMAIN demands]
BY DEF Waiting, Pass, Share, Remaining

\* Finitely many jobs, each with a demand.
Demanding(demands) == Weighs(demands, DOMAIN demands) /\ DOMAIN demands \subseteq Nat

\* The function in Waiting satisfies its recursive equation: one pass of the loop.
LEMMA PassRecurs ==
    ASSUME NEW demands, Demanding(demands), NEW capacity,
           NEW X, X \subseteq DOMAIN demands
    PROVE  Pass(demands, capacity)[X] =
              IF Breaks(X, demands, capacity) THEN X
              ELSE Pass(demands, capacity)[X \ {Smallest(X, demands)}]
<1> DEFINE S == DOMAIN demands
           r == [stop |-> {W \in SUBSET S : Breaks(W, demands, capacity)},
                 base |-> [W \in SUBSET S |-> W],
                 next |-> [W \in SUBSET S |-> W \ {Smallest(W, demands)}],
                 comb |-> [W \in SUBSET S |-> [v \in SUBSET S |-> v]]]
           F(k) == [W \in SUBSET S |->
                      IF Breaks(W, demands, capacity) THEN W
                      ELSE k[W \ {Smallest(W, demands)}]]
<1>1. Shrinks(r, S)
  <2> SUFFICES ASSUME NEW W \in SUBSET S, ~Breaks(W, demands, capacity)
               PROVE  Smallest(W, demands) \in W
    BY DEF Shrinks
  <2>1. W # {}
    BY DEF Breaks
  <2>2. Weighs(demands, W) /\ W \subseteq Nat
    BY WeighsSubset DEF Demanding
  <2> QED
    BY <2>1, <2>2, SmallestIs
<1>2. r.base \in [SUBSET S -> SUBSET S] /\ r.comb \in [SUBSET S -> [SUBSET S -> SUBSET S]]
  OBVIOUS
<1>3. IsFiniteSet(S)
  BY DEF Demanding, Weighs
<1>4. PICK h \in [SUBSET S -> SUBSET S] : Recurs(h, S, r)
  <2> HIDE DEF r, S
  <2> QED
    BY <1>1, <1>2, <1>3, RecursionExists
<1>5. h = F(h)
  <2>1. \A W \in SUBSET S : h[W] = F(h)[W]
    <3> SUFFICES ASSUME NEW W \in SUBSET S PROVE h[W] = F(h)[W]
      OBVIOUS
    <3>1. CASE Breaks(W, demands, capacity)
      BY <1>4, <3>1 DEF Recurs
    <3>2. CASE ~Breaks(W, demands, capacity)
      <4>1. h[W] = r.comb[W][h[W \ {Smallest(W, demands)}]]
        BY <1>4, <3>2 DEF Recurs
      <4>2. h[W \ {Smallest(W, demands)}] \in SUBSET S
        OBVIOUS
      <4> QED
        BY <4>1, <4>2, <3>2
    <3> QED
      BY <3>1, <3>2
  <2> QED
    BY <2>1
<1>6. Pass(demands, capacity) = CHOOSE k : k = F(k)
  <2> DEFINE G(k) == [W \in SUBSET S |->
                        IF W = {} THEN W
                        ELSE IF demands[Smallest(W, demands)] > Share(W, demands, capacity) THEN W
                             ELSE k[W \ {Smallest(W, demands)}]]
  <2>1. \A k : G(k) = F(k)
    BY DEF Breaks
  <2>2. Pass(demands, capacity) = CHOOSE k : k = G(k)
    BY DEF Pass
  <2> HIDE DEF F, G
  <2> QED
    BY <2>1, <2>2
<1>7. Pass(demands, capacity) = F(Pass(demands, capacity))
  <2> HIDE DEF F
  <2> QED
    BY <1>5, <1>6
<1>8. F(Pass(demands, capacity))[X] =
         IF Breaks(X, demands, capacity) THEN X
         ELSE Pass(demands, capacity)[X \ {Smallest(X, demands)}]
  OBVIOUS
<1> HIDE DEF r, F
<1> QED
  BY <1>7, <1>8

\* The invariant of the loop: what was granted fits, and every job popped asked for no
\* more than the present equal share.
LoopInvariant(U, demands, capacity) ==
    /\ SumOver(demands, DOMAIN demands \ U) <= capacity
    /\ U # {} => \A k \in DOMAIN demands \ U : demands[k] <= Share(U, demands, capacity)

\* Types of what the loop uses.
LEMMA SetFacts ==
    ASSUME NEW demands, Demanding(demands), NEW U, U \subseteq DOMAIN demands
    PROVE  /\ Weighs(demands, U) /\ Weighs(demands, DOMAIN demands \ U)
           /\ SumOver(demands, DOMAIN demands \ U) \in Nat
           /\ U \subseteq Nat /\ \A k \in DOMAIN demands : demands[k] \in Nat
           /\ IsFiniteSet(U) /\ Cardinality(U) \in Nat
           /\ U # {} => Cardinality(U) \in Nat \ {0}
<1>1. Weighs(demands, U) /\ Weighs(demands, DOMAIN demands \ U)
  BY WeighsSubset DEF Demanding
<1>2. IsFiniteSet(U) /\ Cardinality(U) \in Nat /\ (U # {} => Cardinality(U) # 0)
  BY <1>1, FS_CardinalityType, FS_EmptySet DEF Weighs
<1> QED
  BY <1>1, <1>2, SumNat DEF Demanding, Weighs

\* The divmod of the loop.
LEMMA RemainingIs ==
    ASSUME NEW demands, Demanding(demands), NEW capacity \in Nat,
           NEW U, U \subseteq DOMAIN demands, U # {},
           LoopInvariant(U, demands, capacity)
    PROVE  /\ Remaining(U, demands, capacity) \in Nat
           /\ Share(U, demands, capacity) \in Nat
           /\ Remaining(U, demands, capacity) % Cardinality(U) \in 0 .. Cardinality(U) - 1
           /\ Remaining(U, demands, capacity) =
                 Share(U, demands, capacity) * Cardinality(U)
                 + (Remaining(U, demands, capacity) % Cardinality(U))
<1>1. Remaining(U, demands, capacity) \in Nat
  <2>1. SumOver(demands, DOMAIN demands \ U) \in Nat
    BY SetFacts
  <2>2. SumOver(demands, DOMAIN demands \ U) <= capacity
    BY DEF LoopInvariant
  <2> QED
    BY <2>1, <2>2 DEF Remaining
<1>2. Cardinality(U) \in Nat \ {0}
  BY SetFacts
<1> QED
  BY <1>1, <1>2, Division DEF Share

\* A pass that grants the smallest demand keeps the invariant: since that demand fits
\* the equal share, the share of the jobs that stay does not fall.
LEMMA PopKeeps ==
    ASSUME NEW demands, Demanding(demands), NEW capacity \in Nat,
           NEW U, U \subseteq DOMAIN demands,
           LoopInvariant(U, demands, capacity), ~Breaks(U, demands, capacity)
    PROVE  LoopInvariant(U \ {Smallest(U, demands)}, demands, capacity)
<1> DEFINE j == Smallest(U, demands)
           T == U \ {j}
           D == DOMAIN demands
           n == Cardinality(U)
           R == Remaining(U, demands, capacity)
           s == Share(U, demands, capacity)
<1>1. U # {} /\ ~(demands[j] > s)
  BY DEF Breaks
<1>2. /\ U \subseteq Nat /\ \A k \in D : demands[k] \in Nat
      /\ n \in Nat \ {0} /\ IsFiniteSet(U)
  BY <1>1, SetFacts
<1>3. j \in U
  BY <1>1, SetFacts, SmallestIs
<1>4. R \in Nat /\ s \in Nat /\ s * n <= R
  <2>1. R \in Nat /\ s \in Nat /\ R % n \in 0 .. n - 1 /\ R = s * n + (R % n)
    BY <1>1, RemainingIs
  <2> QED
    BY <1>2, <2>1
<1> HIDE DEF s, R, n, j
<1>5. demands[j] \in Nat /\ demands[j] <= s
  BY <1>1, <1>2, <1>3, <1>4
<1>6. /\ T \subseteq D /\ T \subseteq U /\ (D \ T) \ {j} = D \ U
      /\ j \in D \ T /\ (D \ T) = (D \ U) \cup {j}
  BY <1>3
<1>7. SumOver(demands, D \ T) = demands[j] + SumOver(demands, D \ U)
  <2>1. Weighs(demands, D \ T)
    BY <1>6, SetFacts
  <2> HIDE DEF T, D
  <2> QED
    BY <1>6, <2>1, SumRemove
<1>8. SumOver(demands, D \ U) \in Nat /\ R = capacity - SumOver(demands, D \ U)
  BY SetFacts DEF R, Remaining
<1>9. s <= R
  <2>1. s * n >= s
    BY <1>2, <1>4
  <2> QED
    BY <1>2, <1>4, <2>1
<1>10. /\ SumOver(demands, D \ T) <= capacity
       /\ Remaining(T, demands, capacity) = R - demands[j]
       /\ Remaining(T, demands, capacity) \in Nat
  <2>1. SumOver(demands, D \ T) <= capacity
    BY <1>4, <1>5, <1>7, <1>8, <1>9
  <2>2. Remaining(T, demands, capacity) = R - demands[j]
    <3>1. Remaining(T, demands, capacity) = capacity - SumOver(demands, D \ T)
      BY DEF Remaining
    <3> QED
      BY <3>1, <1>4, <1>5, <1>7, <1>8
  <2> QED
    BY <1>4, <1>5, <1>9, <2>1, <2>2
<1>11. ASSUME T # {}
       PROVE  s <= Share(T, demands, capacity)
  <2>1. Cardinality(T) = n - 1 /\ Cardinality(T) \in Nat \ {0}
    <3>1. Cardinality(T) = n - 1
      BY <1>2, <1>3, FS_RemoveElement DEF n
    <3>2. Cardinality(T) \in Nat \ {0}
      BY <1>6, <1>11, SetFacts
    <3> QED
      BY <3>1, <3>2
  <2>2. s * (n - 1) = s * n - s
    BY <1>2, <1>4
  <2>3. s * Cardinality(T) <= Remaining(T, demands, capacity)
    BY <1>2, <1>4, <1>5, <1>10, <2>1, <2>2
  <2> QED
    BY <1>4, <1>10, <2>1, <2>3, AtLeast DEF Share
<1>12. ASSUME T # {}, NEW k \in D \ T
       PROVE  demands[k] <= Share(T, demands, capacity)
  <2>1. Share(T, demands, capacity) \in Nat
    <3>1. Cardinality(T) \in Nat \ {0}
      BY <1>6, <1>12, SetFacts
    <3> QED
      BY <3>1, <1>10, Division DEF Share
  <2>2. s <= Share(T, demands, capacity)
    BY <1>11, <1>12
  <2>3. k \in D /\ demands[k] <= s
    <3>1. CASE k = j
      BY <3>1, <1>5
    <3>2. CASE k # j
      <4>1. k \in D \ U
        BY <1>6, <3>2
      <4> QED
        BY <1>1, <4>1 DEF LoopInvariant, s
    <3> QED
      BY <3>1, <3>2
  <2> QED
    BY <1>2, <1>4, <2>1, <2>2, <2>3
<1> QED
  BY <1>10, <1>12 DEF LoopInvariant, j

\* The loop ends where it breaks, with its invariant.
LEMMA WaitingIs ==
    ASSUME NEW demands, Demanding(demands), NEW capacity \in Nat
    PROVE  /\ Waiting(demands, capacity) \subseteq DOMAIN demands
           /\ LoopInvariant(Waiting(demands, capacity), demands, capacity)
           /\ Breaks(Waiting(demands, capacity), demands, capacity)
<1> DEFINE D == DOMAIN demands
           P(U) == /\ Pass(demands, capacity)[U] \subseteq D
                   /\ LoopInvariant(Pass(demands, capacity)[U], demands, capacity)
                   /\ Breaks(Pass(demands, capacity)[U], demands, capacity)
           Bad == {U \in SUBSET D : LoopInvariant(U, demands, capacity) /\ ~P(U)}
<1>1. LoopInvariant(D, demands, capacity)
  <2>1. D \ D = {}
    OBVIOUS
  <2> QED
    BY <2>1, SumEmpty DEF LoopInvariant
<1>2. SUFFICES ASSUME Bad # {} PROVE FALSE
  <2>1. P(D)
    BY <1>1
  <2> QED
    BY <2>1, WaitingUnfold
<1>3. PICK U \in Bad : \A X \in Bad : X \subseteq U => X = U
  <2>1. Bad \subseteq SUBSET D
    OBVIOUS
  <2>2. IsFiniteSet(D)
    BY DEF Demanding, Weighs
  <2> HIDE DEF Bad
  <2> QED
    BY <1>2, <2>1, <2>2, MinimalSubset
<1>4. U \subseteq D /\ LoopInvariant(U, demands, capacity) /\ ~P(U)
  OBVIOUS
<1> DEFINE T == U \ {Smallest(U, demands)}
<1>5. Pass(demands, capacity)[U] =
         IF Breaks(U, demands, capacity) THEN U ELSE Pass(demands, capacity)[T]
  BY <1>4, PassRecurs
<1>6. CASE Breaks(U, demands, capacity)
  <2> HIDE DEF Bad
  <2> QED
    BY <1>4, <1>5, <1>6
<1>7. CASE ~Breaks(U, demands, capacity)
  <2>1. LoopInvariant(T, demands, capacity)
    BY <1>4, <1>7, PopKeeps
  <2>2. Smallest(U, demands) \in U
    BY <1>4, <1>7, SetFacts, SmallestIs DEF Breaks
  <2>3. T \subseteq U /\ T # U /\ T \in SUBSET D
    BY <1>4, <2>2
  <2>4. T \notin Bad
    <3> HIDE DEF Bad, T
    <3> QED
      BY <1>3, <2>3
  <2>5. P(T)
    <3> HIDE DEF P, T
    <3> QED
      BY <2>1, <2>3, <2>4
  <2> HIDE DEF Bad, T
  <2> QED
    BY <1>4, <1>5, <1>7, <2>5
<1> QED
  BY <1>6, <1>7

-----------------------------------------------------------------------------
(* The rotation by turn.                                                     *)

\* The smaller of two numbers,
LEMMA MinIs ==
    ASSUME NEW a \in Int, NEW b \in Int
    PROVE  Min({a, b}) = IF a <= b THEN a ELSE b
BY DEF Min

\* and the larger.
LEMMA MaxIs ==
    ASSUME NEW a \in Int, NEW b \in Int
    PROVE  Max({a, b}) = IF a >= b THEN a ELSE b
BY DEF Max

\* Place of a job in the name order, without rotation.
Rank(k, W) == Cardinality({i \in W : i < k})

\* Ranks are below the number of jobs and follow the order.
LEMMA RankInjective ==
    ASSUME NEW W, IsFiniteSet(W), W \subseteq Nat, NEW j \in W, NEW k \in W
    PROVE  /\ Rank(k, W) \in 0 .. Cardinality(W) - 1
           /\ j < k => Rank(j, W) < Rank(k, W)
<1> DEFINE Below(x) == {i \in W : i < x}
<1>1. \A x : IsFiniteSet(Below(x)) /\ Cardinality(Below(x)) \in Nat
  <2>1. \A x : Below(x) \in SUBSET W
    OBVIOUS
  <2> HIDE DEF Below
  <2> QED
    BY <2>1, FS_Subset, FS_CardinalityType
<1>2. Cardinality(W) \in Nat
  BY FS_CardinalityType
<1>3. Cardinality(Below(k)) < Cardinality(W)
  <2>1. Below(k) \in SUBSET W /\ Below(k) # W
    <3>1. k \notin Below(k)
      OBVIOUS
    <3> QED
      BY <3>1
  <2> HIDE DEF Below
  <2>2. Cardinality(Below(k)) <= Cardinality(W) /\ Cardinality(Below(k)) # Cardinality(W)
    BY <2>1, FS_Subset
  <2> QED
    BY <1>1, <1>2, <2>2
<1>4. ASSUME j < k
      PROVE  Cardinality(Below(j)) < Cardinality(Below(k))
  <2>1. Below(j) \in SUBSET Below(k)
    <3> SUFFICES ASSUME NEW i \in W, i < j PROVE i < k
      OBVIOUS
    <3>1. i \in Nat /\ j \in Nat /\ k \in Nat
      OBVIOUS
    <3> QED
      BY <1>4, <3>1
  <2>2. j \in Below(k) /\ j \notin Below(j)
    BY <1>4
  <2>3. Below(j) # Below(k)
    BY <2>2
  <2> HIDE DEF Below
  <2>4. /\ Cardinality(Below(j)) <= Cardinality(Below(k))
        /\ Cardinality(Below(j)) # Cardinality(Below(k))
    BY <1>1, <2>1, <2>3, FS_Subset
  <2> QED
    BY <1>1, <2>4
<1>5. \A x : Rank(x, W) = Cardinality(Below(x))
  BY DEF Rank
<1> HIDE DEF Below
<1> QED
  BY <1>1, <1>2, <1>3, <1>4, <1>5

\* No two jobs share a place in the rotated order,
LEMMA PositionInjective ==
    ASSUME NEW W, IsFiniteSet(W), W \subseteq Nat, NEW turn \in Int,
           NEW j \in W, NEW k \in W, Position(j, W, turn) = Position(k, W, turn)
    PROVE  j = k
<1> DEFINE n == Cardinality(W)
           a == Rank(j, W)
           b == Rank(k, W)
<1>1. n \in Nat \ {0}
  BY FS_CardinalityType, FS_EmptySet
<1>2. a \in 0 .. n - 1 /\ b \in 0 .. n - 1
  BY RankInjective
<1>3. (a - turn) % n = (b - turn) % n
  BY DEF Position, Rank
<1>4. (j < k => a < b) /\ (k < j => b < a)
  BY RankInjective
<1> HIDE DEF n, a, b
<1> DEFINE p == (a - turn) \div n
           q == (b - turn) \div n
           m == (a - turn) % n
<1>5. /\ p \in Int /\ q \in Int /\ m \in 0 .. n - 1
      /\ a - turn = p * n + m /\ b - turn = q * n + m
  <2>1. a - turn \in Int /\ b - turn \in Int
    BY <1>1, <1>2
  <2>2. p \in Int /\ m \in 0 .. n - 1 /\ a - turn = p * n + m
    BY <1>1, <2>1, DivisionInt
  <2>3. q \in Int /\ b - turn = q * n + ((b - turn) % n)
    BY <1>1, <2>1, DivisionInt
  <2> QED
    BY <1>3, <2>2, <2>3
<1> HIDE DEF p, q, m
<1>6. (p - q) * n = a - b
  BY <1>1, <1>2, <1>5
<1>7. a = b
  <2>1. CASE p = q
    BY <1>2, <1>5, <1>6, <2>1
  <2>2. CASE p > q
    <3>1. (p - q) * n >= n
      BY <1>1, <1>5, <2>2
    <3> QED
      BY <1>1, <1>2, <1>6, <3>1
  <2>3. CASE p < q
    <3>1. (p - q) * n <= -n
      BY <1>1, <1>5, <2>3
    <3> QED
      BY <1>1, <1>2, <1>6, <3>1
  <2> QED
    BY <1>5, <2>1, <2>2, <2>3
<1>8. j \in Nat /\ k \in Nat /\ ~(j < k) /\ ~(k < j)
  BY <1>2, <1>4, <1>7
<1> QED
  BY <1>8

\* so exactly extra of them are at its first extra places, whatever the turn.
LEMMA PositionBijection ==
    ASSUME NEW W, IsFiniteSet(W), W \subseteq Nat, W # {}, NEW turn \in Int,
           NEW extra \in 0 .. Cardinality(W) - 1
    PROVE  Cardinality({k \in W : Position(k, W, turn) < extra}) = extra
<1> DEFINE n == Cardinality(W)
           pos == [k \in W |-> Position(k, W, turn)]
           E == {k \in W : Position(k, W, turn) < extra}
           early == [k \in E |-> Position(k, W, turn)]
<1>1. n \in Nat \ {0}
  BY FS_CardinalityType, FS_EmptySet
<1>2. \A k \in W : Position(k, W, turn) \in 0 .. n - 1
  <2> SUFFICES ASSUME NEW k \in W PROVE Position(k, W, turn) \in 0 .. n - 1
    OBVIOUS
  <2>1. Rank(k, W) - turn \in Int
    <3>1. Rank(k, W) \in 0 .. n - 1
      BY RankInjective
    <3> QED
      BY <1>1, <3>1
  <2>2. Position(k, W, turn) = (Rank(k, W) - turn) % n
    BY DEF Position, Rank
  <2> QED
    BY <1>1, <2>1, <2>2, DivisionInt
<1>3. pos \in Injection(W, 0 .. n - 1)
  <2>1. pos \in [W -> 0 .. n - 1]
    BY <1>2
  <2>2. \A j, k \in W : pos[j] = pos[k] => j = k
    BY PositionInjective
  <2> QED
    BY <2>1, <2>2 DEF Injection, IsInjective
<1>4. IsFiniteSet(0 .. n - 1) /\ Cardinality(0 .. n - 1) = n
  BY <1>1, FS_Interval
<1>5. pos \in Surjection(W, 0 .. n - 1)
  <2> HIDE DEF pos
  <2> QED
    BY <1>3, <1>4, FS_Injection
<1>6. early \in [E -> 0 .. extra - 1]
  <2> SUFFICES ASSUME NEW k \in E PROVE Position(k, W, turn) \in 0 .. extra - 1
    OBVIOUS
  <2>1. Position(k, W, turn) \in 0 .. n - 1 /\ Position(k, W, turn) < extra
    BY <1>2
  <2> QED
    BY <1>1, <2>1
<1>7. early \in Injection(E, 0 .. extra - 1)
  <2>1. \A j, k \in E : early[j] = early[k] => j = k
    BY PositionInjective
  <2> QED
    BY <1>6, <2>1 DEF Injection, IsInjective
<1>8. early \in Surjection(E, 0 .. extra - 1)
  <2>1. ASSUME NEW p \in 0 .. extra - 1
        PROVE  \E k \in E : early[k] = p
    <3>1. p \in 0 .. n - 1
      BY <1>1
    <3>2. PICK k \in W : pos[k] = p
      BY <1>5, <3>1 DEF Surjection
    <3>3. k \in E /\ early[k] = p
      BY <3>2
    <3> QED
      BY <3>3
  <2> QED
    BY <1>6, <2>1 DEF Surjection
<1>9. IsFiniteSet(0 .. extra - 1) /\ Cardinality(0 .. extra - 1) = extra
  <2>1. 0 \in Int /\ extra - 1 \in Int /\ extra \in Nat
    BY <1>1
  <2>2. /\ IsFiniteSet(0 .. extra - 1)
        /\ Cardinality(0 .. extra - 1) = IF 0 > extra - 1 THEN 0 ELSE (extra - 1) - 0 + 1
    BY <2>1, FS_Interval
  <2> QED
    BY <2>1, <2>2
<1> HIDE DEF early, E
<1>10. Cardinality(E) = Cardinality(0 .. extra - 1)
  BY <1>7, <1>8, <1>9, FS_Injection
<1> QED
  BY <1>9, <1>10 DEF E

-----------------------------------------------------------------------------
(* The targets.                                                              *)

\* The capacity as the loop starts with it, max(0, capacity),
Slots(capacity) == Max({0, capacity})
\* the slots that the equal shares leave over,
Extra(W, demands, slots) == Remaining(W, demands, slots) % Cardinality(W)
\* and the jobs of the set bonus, which get one of them each.
Lucky(W, demands, slots, turn) ==
    {k \in W : Position(k, W, turn) < Extra(W, demands, slots)}

\* A negative capacity counts as none.
LEMMA SlotsIs ==
    ASSUME NEW capacity \in Int
    PROVE  /\ Slots(capacity) \in Nat
           /\ Slots(capacity) = IF capacity > 0 THEN capacity ELSE 0
BY MaxIs DEF Slots

\* How the slots divide when the jobs of W wait at the break: every other job has its
\* demand, each of W an equal share below its demand, and `extra` of W one slot more.
Levelled(W, demands, slots, turn) ==
    LET level == Share(W, demands, slots)
        extra == Extra(W, demands, slots)
    IN  /\ W \subseteq DOMAIN demands /\ IsFiniteSet(W) /\ Cardinality(W) \in Nat \ {0}
        /\ level \in Nat /\ extra \in 0 .. Cardinality(W) - 1
        /\ SumOver(demands, DOMAIN demands \ W) \in Nat
        /\ slots = SumOver(demands, DOMAIN demands \ W) + level * Cardinality(W) + extra
        /\ \A k \in W : demands[k] \in Nat /\ demands[k] > level
        /\ \A k \in DOMAIN demands \ W : demands[k] \in Nat /\ demands[k] <= level
        /\ Cardinality(Lucky(W, demands, slots, turn)) = extra

\* The loop divides the slots like this.
LEMMA WaitingLevel ==
    ASSUME NEW demands, Demanding(demands), NEW slots \in Nat, NEW turn \in Int,
           Waiting(demands, slots) # {}
    PROVE  Levelled(Waiting(demands, slots), demands, slots, turn)
<1> DEFINE W == Waiting(demands, slots)
           level == Share(W, demands, slots)
           extra == Extra(W, demands, slots)
<1>1. /\ W \subseteq DOMAIN demands /\ LoopInvariant(W, demands, slots)
      /\ Breaks(W, demands, slots)
  BY WaitingIs
<1>2. /\ Weighs(demands, W) /\ W \subseteq Nat /\ IsFiniteSet(W) /\ Cardinality(W) \in Nat \ {0}
      /\ SumOver(demands, DOMAIN demands \ W) \in Nat
      /\ \A k \in DOMAIN demands : demands[k] \in Nat
  BY <1>1, SetFacts
<1>3. /\ Remaining(W, demands, slots) \in Nat /\ level \in Nat
      /\ extra \in 0 .. Cardinality(W) - 1
      /\ Remaining(W, demands, slots) = level * Cardinality(W) + extra
  BY <1>1, RemainingIs DEF Extra
<1>4. slots = SumOver(demands, DOMAIN demands \ W) + level * Cardinality(W) + extra
  <2>1. slots = SumOver(demands, DOMAIN demands \ W) + Remaining(W, demands, slots)
    BY <1>2, <1>3 DEF Remaining
  <2>2. level * Cardinality(W) \in Nat
    BY <1>2, <1>3
  <2> QED
    BY <1>2, <1>3, <2>1, <2>2
<1>5. \A k \in W : demands[k] > level
  <2> SUFFICES ASSUME NEW k \in W PROVE demands[k] > level
    OBVIOUS
  <2>1. Smallest(W, demands) \in W /\ demands[Smallest(W, demands)] <= demands[k]
    BY <1>2, SmallestIs
  <2>2. demands[Smallest(W, demands)] > level
    BY <1>1 DEF Breaks
  <2>3. demands[Smallest(W, demands)] \in Nat /\ demands[k] \in Nat
    BY <1>1, <1>2, <2>1
  <2> QED
    BY <1>3, <2>1, <2>2, <2>3
<1>6. \A k \in DOMAIN demands \ W : demands[k] <= level
  BY <1>1 DEF LoopInvariant
<1>7. Cardinality(Lucky(W, demands, slots, turn)) = extra
  <2>1. Lucky(W, demands, slots, turn) = {k \in W : Position(k, W, turn) < extra}
    BY DEF Lucky
  <2> HIDE DEF W, extra
  <2>2. Cardinality({k \in W : Position(k, W, turn) < extra}) = extra
    BY <1>2, <1>3, PositionBijection DEF W
  <2> QED
    BY <2>1, <2>2
<1> HIDE DEF W
<1> QED
  BY <1>1, <1>2, <1>3, <1>4, <1>5, <1>6, <1>7 DEF Levelled, W

\* The targets: the demand of a job that was popped, the share and perhaps an extra
\* slot for one that waits.
LEMMA TargetForm ==
    ASSUME NEW demands, Demanding(demands), NEW capacity \in Int, NEW turn \in Int,
           NEW slots, slots = Slots(capacity), NEW W, W = Waiting(demands, slots),
           NEW targets, targets = FairTargets(demands, capacity, turn)
    PROVE  /\ DOMAIN targets = DOMAIN demands
           /\ \A j \in DOMAIN demands \ W : targets[j] = demands[j]
           /\ \A j \in W : targets[j] = Share(W, demands, slots)
                 + IF j \in Lucky(W, demands, slots, turn) THEN 1 ELSE 0
<1> DEFINE level == Share(W, demands, slots)
           bonus(j) == IF Position(j, W, turn) < Extra(W, demands, slots) THEN 1 ELSE 0
<1>1. targets = [j \in DOMAIN demands |->
                   IF j \notin W THEN demands[j] ELSE Min({demands[j], level + bonus(j)})]
  BY DEF FairTargets, Slots, Share, Remaining, Extra
<1>2. W \subseteq DOMAIN demands
  BY SlotsIs, WaitingIs
<1>3. ASSUME NEW j \in W
      PROVE  targets[j] = level + IF j \in Lucky(W, demands, slots, turn) THEN 1 ELSE 0
  <2>1. demands[j] \in Nat /\ level \in Nat /\ demands[j] > level
    <3>1. W # {} /\ slots \in Nat
      BY SlotsIs
    <3>2. Levelled(W, demands, slots, turn)
      BY <3>1, WaitingLevel
    <3> QED
      BY <3>2 DEF Levelled
  <2>2. targets[j] = Min({demands[j], level + bonus(j)})
    BY <1>1, <1>2
  <2>3. bonus(j) = IF j \in Lucky(W, demands, slots, turn) THEN 1 ELSE 0
    BY DEF Lucky
  <2>4. bonus(j) \in 0 .. 1
    OBVIOUS
  <2> HIDE DEF level, bonus
  <2>5. Min({demands[j], level + bonus(j)}) = level + bonus(j)
    <3>1. demands[j] \in Int /\ level + bonus(j) \in Int /\ level + bonus(j) <= demands[j]
      BY <2>1, <2>4
    <3>2. Min({demands[j], level + bonus(j)}) =
             IF demands[j] <= level + bonus(j) THEN demands[j] ELSE level + bonus(j)
      BY <3>1, MinIs
    <3> QED
      BY <3>1, <3>2
  <2> QED
    BY <2>2, <2>3, <2>5
<1>4. \A j \in DOMAIN demands \ W : targets[j] = demands[j]
  BY <1>1
<1> QED
  BY <1>1, <1>3, <1>4

\* No target exceeds its demand.
LEMMA TargetBounds ==
    ASSUME NEW demands, Demanding(demands), NEW capacity \in Int, NEW turn \in Int,
           NEW j \in DOMAIN demands
    PROVE  /\ FairTargets(demands, capacity, turn)[j] \in Nat
           /\ FairTargets(demands, capacity, turn)[j] <= demands[j]
<1> DEFINE slots == Slots(capacity)
           W == Waiting(demands, slots)
           targets == FairTargets(demands, capacity, turn)
<1>1. demands[j] \in Nat
  BY DEF Demanding, Weighs
<1>2. /\ \A k \in DOMAIN demands \ W : targets[k] = demands[k]
      /\ \A k \in W : targets[k] = Share(W, demands, slots)
            + IF k \in Lucky(W, demands, slots, turn) THEN 1 ELSE 0
  BY TargetForm
<1>3. slots \in Nat
  BY SlotsIs
<1> HIDE DEF W, targets, slots
<1>4. CASE j \notin W
  BY <1>1, <1>2, <1>4 DEF targets
<1>5. CASE j \in W
  <2>1. Share(W, demands, slots) \in Nat /\ demands[j] > Share(W, demands, slots)
    <3>1. Levelled(W, demands, slots, turn)
      BY <1>3, <1>5, WaitingLevel DEF W
    <3> QED
      BY <1>5, <3>1 DEF Levelled
  <2> QED
    BY <1>1, <1>2, <1>5, <2>1 DEF targets
<1> QED
  BY <1>4, <1>5

\* The sum of equal shares, one slot more for some.
LEMMA LevelSum ==
    ASSUME NEW f, NEW W, IsFiniteSet(W), NEW E, E \subseteq W, NEW c \in Nat,
           \A k \in W : f[k] = c + IF k \in E THEN 1 ELSE 0
    PROVE  SumOver(f, W) = c * Cardinality(W) + Cardinality(E)
<1>1. Weighs(f, W)
  BY DEF Weighs
<1>2. SumOver(f, W) = SumOver(f, E) + SumOver(f, W \ E)
  BY <1>1, SumSplit
<1>3. IsFiniteSet(E) /\ IsFiniteSet(W \ E)
  BY FS_Subset
<1>4. /\ Cardinality(E) \in Nat /\ Cardinality(W \ E) \in Nat /\ Cardinality(W) \in Nat
      /\ Cardinality(W) = Cardinality(E) + Cardinality(W \ E)
  <2>1. Cardinality(W \ E) = Cardinality(W) - Cardinality(W \cap E)
    BY FS_Difference
  <2>2. Cardinality(W \cap E) = Cardinality(E)
    <3>1. W \cap E = E
      OBVIOUS
    <3> QED
      BY <3>1
  <2>3. /\ Cardinality(E) \in Nat /\ Cardinality(W \ E) \in Nat /\ Cardinality(W) \in Nat
    BY <1>3, FS_CardinalityType
  <2> QED
    BY <2>1, <2>2, <2>3
<1>5. SumOver(f, E) = (c + 1) * Cardinality(E)
  <2>1. \A k \in E : f[k] = c + 1
    OBVIOUS
  <2>2. c + 1 \in Nat
    OBVIOUS
  <2> QED
    BY <1>3, <2>1, <2>2, SumConstant
<1>6. SumOver(f, W \ E) = c * Cardinality(W \ E)
  <2>1. \A k \in W \ E : f[k] = c
    OBVIOUS
  <2> QED
    BY <1>3, <2>1, SumConstant
<1>7. (c + 1) * Cardinality(E) + c * Cardinality(W \ E) = c * Cardinality(W) + Cardinality(E)
  <2>1. (c + 1) * Cardinality(E) = c * Cardinality(E) + Cardinality(E)
    BY <1>4
  <2>2. c * (Cardinality(E) + Cardinality(W \ E)) = c * Cardinality(E) + c * Cardinality(W \ E)
    BY <1>4
  <2>3. /\ c * Cardinality(E) \in Nat /\ c * Cardinality(W \ E) \in Nat
    BY <1>4
  <2> QED
    BY <1>4, <2>1, <2>2, <2>3
<1> QED
  BY <1>2, <1>5, <1>6, <1>7

\* fair_targets hands out neither more than the capacity nor less than it could: the
\* targets sum to max(0, capacity), or to all demands where these are less.  Unused
\* shares are redistributed completely, whatever the turn.
THEOREM ExactDivision ==
    ASSUME NEW demands, Demanding(demands), NEW capacity \in Int, NEW turn \in Int
    PROVE  SumOver(FairTargets(demands, capacity, turn), DOMAIN demands) =
              Min({Max({0, capacity}), SumOver(demands, DOMAIN demands)})
<1> DEFINE D == DOMAIN demands
           slots == Slots(capacity)
           W == Waiting(demands, slots)
           targets == FairTargets(demands, capacity, turn)
           all == SumOver(demands, D)
<1>1. slots \in Nat
  BY SlotsIs
<1>2. W \subseteq D /\ LoopInvariant(W, demands, slots)
  BY <1>1, WaitingIs
<1>3. /\ \A k \in D \ W : targets[k] = demands[k]
      /\ \A k \in W : targets[k] = Share(W, demands, slots)
            + IF k \in Lucky(W, demands, slots, turn) THEN 1 ELSE 0
  BY TargetForm
<1>4. /\ Weighs(demands, D) /\ Weighs(targets, D)
      /\ \A k \in D : targets[k] <= demands[k]
  BY TargetBounds DEF Demanding, Weighs
<1>5. all \in Nat /\ SumOver(targets, D) \in Nat /\ SumOver(targets, D) <= all
  BY <1>4, SumNat, SumMonotone
<1>6. slots \in Int /\ all \in Int
  BY <1>1, <1>5
<1>7. Min({slots, all}) = IF slots <= all THEN slots ELSE all
  <2> HIDE DEF slots, all
  <2> QED
    BY <1>6, MinIs
<1> HIDE DEF W, targets, slots, D
<1>8. CASE W = {}
  <2>1. \A k \in D : targets[k] = demands[k]
    BY <1>3, <1>8
  <2>2. SumOver(targets, D) = all
    BY <1>4, <2>1, SumSame
  <2>3. all <= slots
    <3>1. D \ W = D
      BY <1>8
    <3> QED
      BY <1>2, <3>1 DEF LoopInvariant, D
  <2>4. Min({slots, all}) = all
    BY <1>1, <1>5, <1>7, <2>3
  <2> QED
    BY <2>2, <2>4 DEF slots, targets, D, Slots
<1>9. CASE W # {}
  <2> DEFINE level == Share(W, demands, slots)
             extra == Extra(W, demands, slots)
             L == Lucky(W, demands, slots, turn)
  <2>1. Levelled(W, demands, slots, turn)
    BY <1>1, <1>9, WaitingLevel DEF W
  <2>2. /\ IsFiniteSet(W) /\ level \in Nat /\ Cardinality(L) = extra
        /\ Cardinality(W) \in Nat /\ extra \in Nat
        /\ slots = SumOver(demands, D \ W) + level * Cardinality(W) + extra
    BY <2>1 DEF Levelled, D
  <2>3. L \subseteq W
    BY DEF Lucky
  <2>4. SumOver(targets, W) = level * Cardinality(W) + extra
    <3>1. \A k \in W : targets[k] = level + IF k \in L THEN 1 ELSE 0
      BY <1>3
    <3> HIDE DEF level, extra, L
    <3> QED
      BY <2>2, <2>3, <3>1, LevelSum
  <2>5. SumOver(targets, D \ W) = SumOver(demands, D \ W)
    <3>1. Weighs(targets, D \ W)
      BY <1>4, WeighsSubset
    <3> QED
      BY <1>3, <3>1, SumSame
  <2>6. SumOver(targets, D) = SumOver(targets, W) + SumOver(targets, D \ W)
    BY <1>2, <1>4, SumSplit
  <2>7. SumOver(demands, D \ W) \in Nat /\ level * Cardinality(W) \in Nat
    BY <2>1, <2>2 DEF Levelled, D
  <2>8. SumOver(targets, D) = slots
    <3> HIDE DEF level, extra
    <3> QED
      BY <2>2, <2>4, <2>5, <2>6, <2>7
  <2>9. Min({slots, all}) = slots
    BY <1>1, <1>5, <1>7, <2>8
  <2> QED
    BY <2>8, <2>9 DEF slots, targets, D, Slots
<1> QED
  BY <1>8, <1>9

-----------------------------------------------------------------------------
(* The targets against the reference definition.                             *)

\* A count is at most the sum.
LEMMA PartBelowSum ==
    ASSUME NEW f, NEW S, Weighs(f, S), NEW x \in S
    PROVE  f[x] <= SumOver(f, S)
<1>1. SumOver(f, S) = f[x] + SumOver(f, S \ {x})
  BY SumRemove
<1>2. Weighs(f, S \ {x})
  BY WeighsSubset
<1>3. f[x] \in Nat /\ SumOver(f, S \ {x}) \in Nat
  BY <1>2, SumNat DEF Weighs
<1> QED
  BY <1>1, <1>3

\* The largest number of a set.
LEMMA MaxOf ==
    ASSUME NEW S, S \subseteq Int, NEW x \in S, \A y \in S : y <= x
    PROVE  Max(S) = x
<1>1. x \in S /\ \A y \in S : x >= y
  OBVIOUS
<1>2. Max(S) \in S /\ \A y \in S : Max(S) >= y
  BY <1>1 DEF Max
<1>3. Max(S) \in Int /\ x \in Int /\ Max(S) >= x /\ x >= Max(S)
  BY <1>1, <1>2
<1> QED
  BY <1>3

\* The demands, cut at a level.
Capped(demands, level) == [k \in DOMAIN demands |-> Min({demands[k], level})]

\* What is poured up to a level is the sum of the demands cut there.
LEMMA CappedIs ==
    ASSUME NEW demands, Demanding(demands), NEW level \in Nat
    PROVE  /\ Poured(demands, level) = SumOver(Capped(demands, level), DOMAIN demands)
           /\ Weighs(Capped(demands, level), DOMAIN demands)
           /\ \A k \in DOMAIN demands : /\ demands[k] \in Nat
                                        /\ Capped(demands, level)[k] =
                                             IF demands[k] <= level THEN demands[k] ELSE level
<1>1. \A k \in DOMAIN demands : demands[k] \in Nat
  BY DEF Demanding, Weighs
<1>2. \A k \in DOMAIN demands :
         Capped(demands, level)[k] = IF demands[k] <= level THEN demands[k] ELSE level
  BY <1>1, MinIs DEF Capped
<1>3. Weighs(Capped(demands, level), DOMAIN demands)
  <2>1. \A k \in DOMAIN demands : Capped(demands, level)[k] \in Nat
    BY <1>1, <1>2
  <2> QED
    BY <2>1 DEF Weighs, Demanding
<1>4. Poured(demands, level) = SumOver(Capped(demands, level), DOMAIN demands)
  BY DEF Poured, Capped
<1> QED
  BY <1>1, <1>2, <1>3, <1>4

\* A higher level takes more.
LEMMA PouredMonotone ==
    ASSUME NEW demands, Demanding(demands), NEW l \in Nat, NEW m \in Nat, l <= m
    PROVE  /\ Poured(demands, l) <= Poured(demands, m)
           /\ Poured(demands, l) \in Nat /\ Poured(demands, m) \in Nat
<1> DEFINE D == DOMAIN demands
           f == Capped(demands, l)
           g == Capped(demands, m)
<1>1. /\ Poured(demands, l) = SumOver(f, D) /\ Weighs(f, D)
      /\ \A k \in D : /\ demands[k] \in Nat
                      /\ f[k] = IF demands[k] <= l THEN demands[k] ELSE l
  BY CappedIs
<1>2. /\ Poured(demands, m) = SumOver(g, D) /\ Weighs(g, D)
      /\ \A k \in D : g[k] = IF demands[k] <= m THEN demands[k] ELSE m
  BY CappedIs
<1> HIDE DEF f, g, D
<1>3. \A k \in D : f[k] <= g[k]
  BY <1>1, <1>2
<1>4. SumOver(f, D) <= SumOver(g, D) /\ SumOver(f, D) \in Nat /\ SumOver(g, D) \in Nat
  BY <1>1, <1>2, <1>3, SumMonotone, SumNat
<1> QED
  BY <1>1, <1>2, <1>4

\* What is poured at the equal share of the loop, and one above it.
LEMMA PouredAt ==
    ASSUME NEW demands, Demanding(demands), NEW slots, NEW turn, NEW W,
           Levelled(W, demands, slots, turn),
           NEW l \in {Share(W, demands, slots), Share(W, demands, slots) + 1}
    PROVE  Poured(demands, l) = SumOver(demands, DOMAIN demands \ W) + l * Cardinality(W)
<1> DEFINE D == DOMAIN demands
           f == Capped(demands, l)
           level == Share(W, demands, slots)
<1>1. /\ W \subseteq D /\ IsFiniteSet(W) /\ level \in Nat /\ l \in Nat
      /\ \A k \in W : demands[k] \in Nat /\ demands[k] > level
      /\ \A k \in D \ W : demands[k] \in Nat /\ demands[k] <= level
  BY DEF Levelled
<1>2. /\ Poured(demands, l) = SumOver(f, D) /\ Weighs(f, D)
      /\ \A k \in D : f[k] = IF demands[k] <= l THEN demands[k] ELSE l
  BY <1>1, CappedIs
<1>3. l = level \/ l = level + 1
  OBVIOUS
<1> HIDE DEF f, D, level
<1>4. \A k \in W : f[k] = l
  BY <1>1, <1>2, <1>3
<1>5. \A k \in D \ W : f[k] = demands[k]
  BY <1>1, <1>2, <1>3
<1>6. SumOver(f, W) = l * Cardinality(W)
  BY <1>1, <1>4, SumConstant
<1>7. SumOver(f, D \ W) = SumOver(demands, D \ W)
  <2>1. Weighs(f, D \ W)
    BY <1>2, WeighsSubset
  <2> QED
    BY <1>5, <2>1, SumSame
<1>8. SumOver(f, D) = SumOver(f, W) + SumOver(f, D \ W)
  BY <1>1, <1>2, SumSplit
<1>9. SumOver(f, W) \in Nat /\ SumOver(f, D \ W) \in Nat
  BY <1>1, <1>2, WeighsSubset, SumNat
<1> QED
  BY <1>2, <1>6, <1>7, <1>8, <1>9 DEF D

\* The division of fair_targets is max-min fair: whatever a job may have according to
\* its target is within the share that the reference definition gives it, which pours
\* the capacity evenly over the jobs without any loop, order or turn.
THEOREM FairTargetsFair ==
    ASSUME NEW demands, Demanding(demands), NEW capacity \in Int, NEW turn \in Int,
           NEW top \in Nat, \A k \in DOMAIN demands : demands[k] <= top,
           NEW j \in DOMAIN demands, NEW count \in Nat \ {0},
           count <= FairTargets(demands, capacity, turn)[j]
    PROVE  WithinFairShare(demands, capacity, top, count)
<1> DEFINE D == DOMAIN demands
           slots == Slots(capacity)
           W == Waiting(demands, slots)
           targets == FairTargets(demands, capacity, turn)
           fitting == {l \in 0 .. top : l = 0 \/ Poured(demands, l) <= capacity}
<1>1. /\ slots \in Nat /\ slots = IF capacity > 0 THEN capacity ELSE 0
  BY SlotsIs
<1>2. W \subseteq D /\ LoopInvariant(W, demands, slots)
  BY <1>1, WaitingIs
<1>3. /\ \A k \in D \ W : targets[k] = demands[k]
      /\ \A k \in W : targets[k] = Share(W, demands, slots)
            + IF k \in Lucky(W, demands, slots, turn) THEN 1 ELSE 0
  BY TargetForm
<1>4. \A k \in D : demands[k] \in Nat /\ targets[k] \in Nat
  BY TargetBounds DEF Demanding, Weighs
<1>5. slots = capacity
  <2>1. Weighs(targets, D)
    BY <1>4 DEF Weighs, Demanding
  <2>2. targets[j] <= SumOver(targets, D) /\ SumOver(targets, D) \in Nat
    BY <2>1, PartBelowSum, SumNat
  <2>3. SumOver(targets, D) = Min({slots, SumOver(demands, D)})
    BY ExactDivision DEF Slots
  <2>4. SumOver(demands, D) \in Nat
    BY SumNat DEF Demanding
  <2>5. Min({slots, SumOver(demands, D)}) =
           IF slots <= SumOver(demands, D) THEN slots ELSE SumOver(demands, D)
    <3> HIDE DEF slots
    <3>1. slots \in Int /\ SumOver(demands, D) \in Int
      BY <1>1, <2>4
    <3> QED
      BY <3>1, MinIs
  <2> HIDE DEF slots, targets, D
  <2>6. targets[j] \in Nat /\ count <= targets[j]
    BY <1>4 DEF targets, D
  <2> QED
    BY <1>1, <2>2, <2>3, <2>4, <2>5, <2>6
<1>6. fitting \subseteq Int /\ WaterLevel(demands, capacity, top) = Max(fitting)
  BY DEF WaterLevel
<1> HIDE DEF W, targets, slots, D
<1>7. count <= targets[j] /\ targets[j] \in Nat /\ j \in D
  BY <1>4 DEF targets, D
<1>8. CASE W = {}
  <2>1. Poured(demands, top) <= capacity
    <3>1. /\ Poured(demands, top) = SumOver(Capped(demands, top), D)
          /\ Weighs(Capped(demands, top), D)
          /\ \A k \in D : Capped(demands, top)[k] = demands[k]
      BY CappedIs DEF D
    <3>2. Poured(demands, top) = SumOver(demands, D)
      BY <3>1, SumSame
    <3>3. D \ W = D
      BY <1>8
    <3> QED
      BY <1>2, <1>5, <3>2, <3>3 DEF LoopInvariant, D
  <2>2. Max(fitting) = top
    <3>1. top \in fitting /\ \A y \in fitting : y <= top
      BY <2>1
    <3> HIDE DEF fitting
    <3> QED
      BY <1>6, <3>1, MaxOf
  <2>3. count <= top
    <3>1. targets[j] = demands[j] /\ demands[j] <= top /\ demands[j] \in Nat
      BY <1>3, <1>4, <1>7, <1>8 DEF D
    <3> QED
      BY <1>7, <3>1
  <2> QED
    BY <1>6, <2>2, <2>3 DEF WithinFairShare
<1>9. CASE W # {}
  <2> DEFINE level == Share(W, demands, slots)
             extra == Extra(W, demands, slots)
             n == Cardinality(W)
             rest == SumOver(demands, D \ W)
             L == Lucky(W, demands, slots, turn)
  <2>1. Levelled(W, demands, slots, turn)
    BY <1>1, <1>9, WaitingLevel DEF W
  <2>2. /\ level \in Nat /\ n \in Nat \ {0} /\ extra \in 0 .. n - 1 /\ rest \in Nat
        /\ slots = rest + level * n + extra /\ Cardinality(L) = extra
        /\ \A k \in W : demands[k] \in Nat /\ demands[k] > level
        /\ \A k \in D \ W : demands[k] <= level
    BY <2>1 DEF Levelled, D
  <2>3. /\ Poured(demands, level) = rest + level * n
        /\ Poured(demands, level + 1) = rest + (level + 1) * n
    BY <2>1, PouredAt DEF D
  <2>4. /\ Poured(demands, level) = capacity - extra
        /\ Poured(demands, level + 1) > capacity
    <3>1. (level + 1) * n = level * n + n /\ level * n \in Nat
      BY <2>2
    <3> HIDE DEF level, extra, n, rest
    <3> QED
      BY <1>1, <1>5, <2>2, <2>3, <3>1
  <2>5. IsFiniteSet(L)
    <3>1. L \in SUBSET W /\ IsFiniteSet(W)
      BY <2>1 DEF Levelled, Lucky
    <3> QED
      BY <3>1, FS_Subset
  <2> HIDE DEF level, extra, n, rest, L
  <2>6. Max(fitting) = level
    <3>1. level \in fitting
      <4>1. PICK k \in W : k \in D
        BY <1>2, <1>9
      <4>2. demands[k] \in Nat /\ demands[k] > level /\ demands[k] <= top
        BY <2>2, <4>1 DEF D
      <4>3. level \in 0 .. top
        BY <2>2, <4>2
      <4>4. Poured(demands, level) <= capacity
        BY <2>2, <2>4
      <4> QED
        BY <4>3, <4>4
    <3>2. ASSUME NEW l \in fitting PROVE l <= level
      <4> SUFFICES ASSUME ~(l <= level) PROVE FALSE
        OBVIOUS
      <4>1. l \in Nat /\ level + 1 \in Nat /\ level + 1 <= l
        BY <2>2
      <4>2. Poured(demands, l) <= capacity
        BY <2>2, <4>1
      <4>3. /\ Poured(demands, level + 1) <= Poured(demands, l)
            /\ Poured(demands, level + 1) \in Nat /\ Poured(demands, l) \in Nat
        BY <4>1, PouredMonotone
      <4> QED
        BY <2>4, <4>2, <4>3
    <3> HIDE DEF fitting
    <3> QED
      BY <1>6, <3>1, <3>2, MaxOf
  <2>7. count <= level \/ (count = level + 1 /\ Poured(demands, level) < capacity)
    <3>1. CASE j \notin W
      <4>1. targets[j] = demands[j] /\ demands[j] <= level /\ demands[j] \in Nat
        BY <1>3, <1>4, <1>7, <2>2, <3>1
      <4> QED
        BY <1>7, <2>2, <4>1
    <3>2. CASE j \in W
      <4>1. targets[j] = level + IF j \in L THEN 1 ELSE 0
        BY <1>3, <3>2 DEF level, L
      <4>2. CASE j \notin L
        BY <1>7, <2>2, <4>1, <4>2
      <4>3. CASE j \in L
        <5>1. extra # 0
          BY <2>2, <2>5, <4>3, FS_EmptySet
        <5>2. Poured(demands, level) < capacity
          BY <2>2, <2>4, <5>1
        <5>3. count <= level + 1
          BY <1>7, <2>2, <4>1, <4>3
        <5> QED
          BY <2>2, <5>2, <5>3
      <4> QED
        BY <4>2, <4>3
    <3> QED
      BY <3>1, <3>2
  <2> QED
    BY <1>6, <2>6, <2>7 DEF WithinFairShare
<1> QED
  BY <1>8, <1>9

-----------------------------------------------------------------------------
(* The turn.                                                                 *)

\* A remainder by n does not see a prior remainder by a multiple of n.
LEMMA ModuloMultiple ==
    ASSUME NEW r \in Int, NEW t \in Int, NEW n \in Nat \ {0}, NEW c \in Nat \ {0},
           c % n = 0
    PROVE  (r - (t % c)) % n = (r - t) % n
<1> DEFINE q == t \div c
           m == t % c
           k == c \div n
           p == (r - m) \div n
           s == (r - m) % n
<1>1. q \in Int /\ m \in Int /\ t = q * c + m
  BY DivisionInt
<1>2. k \in Int /\ c = k * n
  BY DivisionInt
<1> HIDE DEF q, m, k
<1>3. p \in Int /\ s \in 0 .. n - 1 /\ r - m = p * n + s
  <2>1. r - m \in Int
    BY <1>1
  <2> QED
    BY <2>1, DivisionInt
<1> HIDE DEF p, s
<1>4. q * c = (q * k) * n
  BY <1>1, <1>2
<1>5. r - t = (r - m) - ((q * k) * n)
  BY <1>1, <1>4
<1>6. p - (q * k) \in Int /\ (p - (q * k)) * n = (p * n) - ((q * k) * n)
  BY <1>1, <1>2, <1>3
<1>7. r - t = (p - (q * k)) * n + s
  BY <1>1, <1>2, <1>3, <1>5, <1>6
<1>8. (r - t) % n = s
  <2> DEFINE w == p - (q * k)
  <2>1. w \in Int /\ r - t = w * n + s /\ r - t \in Int
    BY <1>6, <1>7
  <2> HIDE DEF w
  <2> QED
    BY <1>3, <2>1, ModIs
<1> QED
  BY <1>8 DEF s, m

\* So the place in the rotated order depends on the turn modulo such a multiple only.
LEMMA PositionWraps ==
    ASSUME NEW W, NEW j, Rank(j, W) \in Int, Cardinality(W) \in Nat \ {0},
           NEW t \in Int, NEW cycle \in Nat \ {0}, cycle % Cardinality(W) = 0
    PROVE  Position(j, W, t % cycle) = Position(j, W, t)
<1>1. PICK r \in Int, n \in Nat \ {0} : r = Rank(j, W) /\ n = Cardinality(W)
  OBVIOUS
<1>2. cycle % n = 0
  BY <1>1
<1>3. (r - (t % cycle)) % n = (r - t) % n
  BY <1>2, ModuloMultiple, Zenon
<1> QED
  BY <1>1, <1>3 DEF Position, Rank

\* fair_targets, which rotates by turn % len(ordered), gives the same targets when the
\* turn is counted modulo a common multiple of all possible numbers of jobs.
THEOREM TurnWraps ==
    ASSUME NEW demands, Demanding(demands), NEW capacity \in Int, NEW t \in Int,
           NEW cycle \in Nat \ {0},
           \A n \in 1 .. Cardinality(DOMAIN demands) : cycle % n = 0,
           NEW j \in DOMAIN demands
    PROVE  FairTargets(demands, capacity, t)[j]
               = FairTargets(demands, capacity, t % cycle)[j]
<1> DEFINE slots == Slots(capacity)
           W == Waiting(demands, slots)
<1>1. t % cycle \in Int
  BY DivisionInt
<1>2. slots \in Nat
  BY SlotsIs
<1>3. CASE j \notin W
  <2> HIDE DEF W, slots
  <2>1. FairTargets(demands, capacity, t)[j] = demands[j]
    BY <1>3, TargetForm DEF W, slots
  <2>2. FairTargets(demands, capacity, t % cycle)[j] = demands[j]
    BY <1>1, <1>3, TargetForm DEF W, slots
  <2> QED
    BY <2>1, <2>2
<1>4. CASE j \in W
  <2>1. W \subseteq DOMAIN demands
    <3> HIDE DEF slots
    <3> QED
      BY <1>2, WaitingIs
  <2> HIDE DEF W
  <2>2. IsFiniteSet(W) /\ Cardinality(W) \in 1 .. Cardinality(DOMAIN demands)
    <3>1. IsFiniteSet(DOMAIN demands)
      BY DEF Demanding, Weighs
    <3>2. /\ IsFiniteSet(W) /\ Cardinality(W) <= Cardinality(DOMAIN demands)
          /\ Cardinality(W) \in Nat /\ Cardinality(DOMAIN demands) \in Nat
      BY <2>1, <3>1, FS_Subset, FS_CardinalityType
    <3>3. Cardinality(W) # 0
      BY <1>4, <3>2, FS_EmptySet
    <3> QED
      BY <3>2, <3>3
  <2>3. Position(j, W, t % cycle) = Position(j, W, t)
    <3>1. {i \in W : i < j} \subseteq W
      OBVIOUS
    <3>2. Rank(j, W) \in Int
      BY <2>2, <3>1, FS_Subset, FS_CardinalityType DEF Rank
    <3>3. Cardinality(W) \in Nat \ {0} /\ cycle % Cardinality(W) = 0
      <4>1. Cardinality(DOMAIN demands) \in Nat
        BY FS_CardinalityType DEF Demanding, Weighs
      <4> QED
        BY <2>2, <4>1
    <3> QED
      BY <3>2, <3>3, PositionWraps
  <2>4. \A u \in Int : FairTargets(demands, capacity, u)[j]
              = Share(W, demands, slots)
                + IF j \in Lucky(W, demands, slots, u) THEN 1 ELSE 0
    <3> HIDE DEF slots
    <3> QED
      BY <1>4, TargetForm DEF W, slots
  <2>5. j \in Lucky(W, demands, slots, t) <=> j \in Lucky(W, demands, slots, t % cycle)
    BY <2>3 DEF Lucky
  <2> QED
    BY <1>1, <2>4, <2>5
<1> QED
  BY <1>3, <1>4
=============================================================================
