-------------------------- MODULE DwellLedgerProofs --------------------------
(* Proofs about DwellLedger: what summing a function over a finite set means, *)
(* that the ledger is conserved, that an undisturbed report is exact and that *)
(* every report covers what its camera has seen.                              *)
EXTENDS DwellLedger, FiniteSetTheorems, TLAPS

-----------------------------------------------------------------------------
(* Sums.  SumFunctionOnSet is a fold; an argument by induction on the set it   *)
(* folds is one about a smallest set on which a claim fails.                   *)

\* The element a fold takes first, and the functions that fold f over S.
Pick(s) == CHOOSE x \in s : TRUE
Summing(f, S, g) == g = [s \in SUBSET S |->
    IF s = {} THEN 0 ELSE f[Pick(s)] + g[s \ {Pick(s)}]]

LEMMA SumUnfolds ==
  ASSUME NEW f, NEW S
  PROVE  SumFunctionOnSet(f, S) = (CHOOSE g : Summing(f, S, g))[S]
BY DEF SumFunctionOnSet, FoldFunctionOnSet, MapThenFoldSet, Summing, Pick

\* Whatever holds of a set when it holds of all its proper subsets holds of
\* every subset of a finite set: B is what it does not hold of.
LEMMA SmallestSubset ==
  ASSUME NEW S, IsFiniteSet(S), NEW B \in SUBSET SUBSET S, B # {}
  PROVE  \E T \in B : \A U \in B : U \subseteq T => U = T
<1>1. IsWellFoundedOn(StrictSubsetOrdering(S), SUBSET S)
  BY FS_StrictSubsetOrderingWellFounded, FS_FiniteSubsetsOfFinite
<1>2. PICK T \in B : \A U \in B : ~(<<U, T>> \in StrictSubsetOrdering(S))
  BY <1>1, WFMin
<1> QED
  BY <1>2 DEF StrictSubsetOrdering

\* Two ways of summing the same function agree on the sets both know.
LEMMA SumUnique ==
  ASSUME NEW f, NEW S, IsFiniteSet(S), NEW g, Summing(f, S, g),
         NEW T \in SUBSET S, NEW h, Summing(f, T, h)
  PROVE  h[T] = g[T]
<1> DEFINE B == {U \in SUBSET T : h[U] # g[U]}
<1> SUFFICES ASSUME B # {} PROVE FALSE
  OBVIOUS
<1>0. B \in SUBSET SUBSET T
  OBVIOUS
<1> HIDE DEF B
<1>1. IsFiniteSet(T)
  BY FS_Subset
<1>2. PICK U \in B : \A V \in B : V \subseteq U => V = U
  BY <1>0, <1>1, SmallestSubset
<1>3. U \in SUBSET T /\ U \in SUBSET S /\ h[U] # g[U]
  BY <1>2 DEF B
<1>4. CASE U = {}
  BY <1>3, <1>4 DEF Summing
<1>5. CASE U # {}
  <2>1. Pick(U) \in U
    BY <1>5 DEF Pick
  <2>2. h[U \ {Pick(U)}] = g[U \ {Pick(U)}]
    BY <1>2, <1>3, <2>1 DEF B
  <2>3. h[U] = f[Pick(U)] + h[U \ {Pick(U)}]
    BY <1>3, <1>5 DEF Summing
  <2>4. g[U] = f[Pick(U)] + g[U \ {Pick(U)}]
    BY <1>3, <1>5 DEF Summing
  <2> QED
    BY <1>3, <2>2, <2>3, <2>4
<1> QED
  BY <1>4, <1>5

\* There is such a way for every finite set.
LEMMA SumExists ==
  ASSUME NEW f, NEW S, IsFiniteSet(S)
  PROVE  \E g : Summing(f, S, g)
<1> DEFINE B == {U \in SUBSET S : ~\E g : Summing(f, U, g)}
<1> SUFFICES ASSUME B # {} PROVE FALSE
  OBVIOUS
<1>0. B \in SUBSET SUBSET S
  OBVIOUS
<1> HIDE DEF B
<1>1. PICK T \in B : \A V \in B : V \subseteq T => V = T
  BY <1>0, SmallestSubset
<1>2. T \in SUBSET S /\ ~\E g : Summing(f, T, g)
  BY <1>1 DEF B
<1> DEFINE ways == [U \in SUBSET T |-> CHOOSE g : Summing(f, U, g)]
           sum  == [U \in SUBSET T |->
                      IF U = {} THEN 0
                      ELSE f[Pick(U)] + ways[U \ {Pick(U)}][U \ {Pick(U)}]]
<1>3. \A U \in SUBSET T : U # T => Summing(f, U, ways[U])
  <2> SUFFICES ASSUME NEW U \in SUBSET T, U # T PROVE Summing(f, U, ways[U])
    OBVIOUS
  <2>1. \E g : Summing(f, U, g)
    BY <1>1, <1>2 DEF B
  <2> QED
    BY <2>1, Zenon
<1>4. IsFiniteSet(T)
  BY <1>2, FS_Subset
<1> HIDE DEF ways
<1>5. \A U \in SUBSET T : U # T => ways[U][U] = sum[U]
  <2> SUFFICES ASSUME NEW U \in SUBSET T, U # T PROVE ways[U][U] = sum[U]
    OBVIOUS
  <2>1. Summing(f, U, ways[U]) /\ IsFiniteSet(U)
    BY <1>3, <1>4, FS_Subset
  <2>2. CASE U = {}
    BY <2>1, <2>2 DEF Summing
  <2>3. CASE U # {}
    <3> DEFINE V == U \ {Pick(U)}
    <3>1. Pick(U) \in U /\ V \in SUBSET U /\ V \in SUBSET T /\ V # T
      BY <2>3 DEF Pick
    <3>2. Summing(f, V, ways[V])
      BY <1>3, <3>1
    <3>3. ways[V][V] = ways[U][V]
      BY <2>1, <3>1, <3>2, SumUnique
    <3>4. ways[U][U] = f[Pick(U)] + ways[U][V]
      BY <2>1, <2>3 DEF Summing
    <3> QED
      BY <2>3, <3>3, <3>4
  <2> QED
    BY <2>2, <2>3
<1>6. \A U \in SUBSET T : U # {} =>
        /\ U \ {Pick(U)} \in SUBSET T
        /\ U \ {Pick(U)} # T
  BY DEF Pick
<1>7. \A U \in SUBSET T : sum[U] =
        IF U = {} THEN 0 ELSE f[Pick(U)] + sum[U \ {Pick(U)}]
  BY <1>5, <1>6
<1>8. Summing(f, T, sum)
  <2> DEFINE other == [U \in SUBSET T |->
               IF U = {} THEN 0 ELSE f[Pick(U)] + sum[U \ {Pick(U)}]]
  <2>1. \A U \in SUBSET T : sum[U] = other[U]
    BY <1>7
  <2>2. sum = other
    BY <2>1
  <2> QED
    BY <2>2, Zenon DEF Summing
<1> QED
  BY <1>2, <1>8

\* The sum over a set is that of an element and of the rest ...
LEMMA SumStep ==
  ASSUME NEW f, NEW S, IsFiniteSet(S)
  PROVE  /\ S = {} => SumFunctionOnSet(f, S) = 0
         /\ S # {} => SumFunctionOnSet(f, S) =
                        f[Pick(S)] + SumFunctionOnSet(f, S \ {Pick(S)})
<1> DEFINE way(T) == CHOOSE g : Summing(f, T, g)
<1>1. Summing(f, S, way(S))
  BY SumExists, Zenon
<1>2. Summing(f, S \ {Pick(S)}, way(S \ {Pick(S)}))
  BY SumExists, FS_RemoveElement, Zenon
<1>3. /\ SumFunctionOnSet(f, S) = way(S)[S]
      /\ SumFunctionOnSet(f, S \ {Pick(S)}) = way(S \ {Pick(S)})[S \ {Pick(S)}]
  BY SumUnfolds
<1> HIDE DEF way
<1>4. way(S \ {Pick(S)})[S \ {Pick(S)}] = way(S)[S \ {Pick(S)}]
  BY <1>1, <1>2, SumUnique
<1> QED
  BY <1>1, <1>3, <1>4 DEF Summing

\* ... a number ...
LEMMA SumType ==
  ASSUME NEW S, IsFiniteSet(S), NEW f, \A x \in S : f[x] \in Nat
  PROVE  SumFunctionOnSet(f, S) \in Nat
<1> DEFINE B == {U \in SUBSET S : SumFunctionOnSet(f, U) \notin Nat}
<1> SUFFICES ASSUME B # {} PROVE FALSE
  OBVIOUS
<1>0. B \in SUBSET SUBSET S
  OBVIOUS
<1> HIDE DEF B
<1>1. PICK T \in B : \A V \in B : V \subseteq T => V = T
  BY <1>0, SmallestSubset
<1>2. T \in SUBSET S /\ IsFiniteSet(T) /\ SumFunctionOnSet(f, T) \notin Nat
  BY <1>1, FS_Subset DEF B
<1>3. T # {} => Pick(T) \in T
  BY DEF Pick
<1>4. T # {} => SumFunctionOnSet(f, T \ {Pick(T)}) \in Nat
  BY <1>1, <1>2, <1>3 DEF B
<1>5. T # {} => SumFunctionOnSet(f, T) =
                  f[Pick(T)] + SumFunctionOnSet(f, T \ {Pick(T)})
  BY <1>2, SumStep
<1>6. T # {} => f[Pick(T)] \in Nat
  BY <1>2, <1>3
<1>7. T = {} => SumFunctionOnSet(f, T) = 0
  BY <1>2, SumStep
<1> QED
  BY <1>2, <1>4, <1>5, <1>6, <1>7

\* ... and it does not matter which element is taken first.
LEMMA SumElement ==
  ASSUME NEW S, IsFiniteSet(S), NEW f, \A x \in S : f[x] \in Nat, NEW y \in S
  PROVE  SumFunctionOnSet(f, S) = f[y] + SumFunctionOnSet(f, S \ {y})
<1> DEFINE Sum(U) == SumFunctionOnSet(f, U)
           B == {U \in SUBSET S : \E z \in U : Sum(U) # f[z] + Sum(U \ {z})}
<1> SUFFICES ASSUME B # {} PROVE FALSE
  OBVIOUS
<1>0. B \in SUBSET SUBSET S
  OBVIOUS
<1> HIDE DEF B
<1>1. PICK T \in B : \A V \in B : V \subseteq T => V = T
  BY <1>0, SmallestSubset
<1>2. PICK z \in T : Sum(T) # f[z] + Sum(T \ {z})
  BY <1>1 DEF B
<1>3. T \in SUBSET S /\ IsFiniteSet(T)
  BY <1>1, FS_Subset DEF B
<1> DEFINE x == Pick(T)
<1>4. x \in T
  BY <1>2 DEF Pick
<1>5. Sum(T) = f[x] + Sum(T \ {x})
  BY <1>2, <1>3, SumStep
<1>6. x # z
  BY <1>2, <1>5
<1>7. /\ T \ {x} \in SUBSET S /\ T \ {x} \notin B
      /\ T \ {z} \in SUBSET S /\ T \ {z} \notin B
  BY <1>1, <1>3, <1>4, <1>2
<1>8. /\ Sum(T \ {x}) = f[z] + Sum((T \ {x}) \ {z})
      /\ Sum(T \ {z}) = f[x] + Sum((T \ {z}) \ {x})
  BY <1>2, <1>4, <1>6, <1>7 DEF B
<1>9. (T \ {x}) \ {z} = (T \ {z}) \ {x} /\ IsFiniteSet((T \ {x}) \ {z})
  BY <1>3, FS_Subset
<1>10. Sum((T \ {x}) \ {z}) \in Nat /\ f[x] \in Nat /\ f[z] \in Nat
  BY <1>2, <1>3, <1>4, <1>9, SumType
<1> HIDE DEF Sum, x
<1>11. /\ Sum(T) = f[x] + (f[z] + Sum((T \ {x}) \ {z}))
       /\ f[z] + Sum(T \ {z}) = f[z] + (f[x] + Sum((T \ {x}) \ {z}))
  BY <1>5, <1>8, <1>9
<1> QED
  BY <1>2, <1>10, <1>11

\* Functions that agree on a set have the same sum over it.
LEMMA SumAgrees ==
  ASSUME NEW S, IsFiniteSet(S), NEW f, NEW g, \A x \in S : f[x] = g[x]
  PROVE  SumFunctionOnSet(f, S) = SumFunctionOnSet(g, S)
<1> DEFINE B == {U \in SUBSET S : SumFunctionOnSet(f, U) # SumFunctionOnSet(g, U)}
<1> SUFFICES ASSUME B # {} PROVE FALSE
  OBVIOUS
<1>0. B \in SUBSET SUBSET S
  OBVIOUS
<1> HIDE DEF B
<1>1. PICK T \in B : \A V \in B : V \subseteq T => V = T
  BY <1>0, SmallestSubset
<1>2. /\ T \in SUBSET S /\ IsFiniteSet(T)
      /\ SumFunctionOnSet(f, T) # SumFunctionOnSet(g, T)
  BY <1>1, FS_Subset DEF B
<1>3. T # {} => Pick(T) \in T
  BY DEF Pick
<1>4. T # {} => SumFunctionOnSet(f, T \ {Pick(T)}) = SumFunctionOnSet(g, T \ {Pick(T)})
  BY <1>1, <1>2, <1>3 DEF B
<1> QED
  BY <1>2, <1>3, <1>4, SumStep

\* Every element is part of the sum, and one that grows takes the sum with it.
LEMMA SumGrows ==
  ASSUME NEW S, IsFiniteSet(S), NEW f \in [S -> Nat], NEW g \in [S -> Nat],
         NEW y \in S, NEW n \in Nat, g[y] = f[y] + n,
         \A x \in S \ {y} : g[x] = f[x]
  PROVE  SumFunctionOnSet(g, S) = SumFunctionOnSet(f, S) + n
<1>1. IsFiniteSet(S \ {y})
  BY FS_RemoveElement
<1>2. SumFunctionOnSet(g, S \ {y}) = SumFunctionOnSet(f, S \ {y})
  BY <1>1, SumAgrees
<1>3. SumFunctionOnSet(f, S) = f[y] + SumFunctionOnSet(f, S \ {y})
  BY SumElement
<1>4. SumFunctionOnSet(g, S) = g[y] + SumFunctionOnSet(g, S \ {y})
  BY SumElement
<1>5. SumFunctionOnSet(f, S \ {y}) \in Nat
  BY <1>1, SumType
<1>6. g[y] = f[y] + n /\ f[y] \in Nat
  OBVIOUS
<1> QED
  BY <1>2, <1>3, <1>4, <1>5, <1>6

LEMMA SumCovers ==
  ASSUME NEW S, IsFiniteSet(S), NEW f \in [S -> Nat], NEW y \in S
  PROVE  f[y] <= SumFunctionOnSet(f, S)
<1>1. IsFiniteSet(S \ {y})
  BY FS_RemoveElement
<1>2. SumFunctionOnSet(f, S) = f[y] + SumFunctionOnSet(f, S \ {y})
  BY SumElement
<1>3. SumFunctionOnSet(f, S \ {y}) \in Nat
  BY <1>1, SumType
<1> QED
  BY <1>2, <1>3

\* Elements that count nothing may be left out.
LEMMA SumWithoutZeros ==
  ASSUME NEW T, IsFiniteSet(T), NEW S \in SUBSET T, NEW f,
         \A x \in T : f[x] \in Nat, \A x \in T \ S : f[x] = 0
  PROVE  SumFunctionOnSet(f, T) = SumFunctionOnSet(f, S)
<1> DEFINE Sum(U) == SumFunctionOnSet(f, U)
           B == {U \in SUBSET (T \ S) : Sum(S \cup U) # Sum(S)}
<1>1. B \in SUBSET SUBSET (T \ S) /\ IsFiniteSet(T \ S)
  BY FS_Subset
<1>2. ASSUME B # {} PROVE FALSE
  <2> HIDE DEF B
  <2>1. PICK V \in B : \A W \in B : W \subseteq V => W = V
    BY <1>1, <1>2, SmallestSubset
  <2>2. V \in SUBSET (T \ S) /\ Sum(S \cup V) # Sum(S)
    BY <2>1 DEF B
  <2>3. PICK y \in V : TRUE
    <3>1. S \cup {} = S
      OBVIOUS
    <3> QED
      BY <2>2, <3>1
  <2>4. V \ {y} \in SUBSET (T \ S) /\ V \ {y} \notin B
    BY <2>1, <2>2, <2>3
  <2>5. Sum(S \cup (V \ {y})) = Sum(S)
    BY <2>4 DEF B
  <2>6. (S \cup V) \ {y} = S \cup (V \ {y}) /\ S \cup V \in SUBSET T
    BY <2>2, <2>3
  <2>7. IsFiniteSet(S \cup V) /\ y \in S \cup V /\ \A x \in S \cup V : f[x] \in Nat
    BY <2>3, <2>6, FS_Subset
  <2>8. Sum(S \cup V) = f[y] + Sum((S \cup V) \ {y})
    BY <2>7, SumElement
  <2>9. Sum(S) \in Nat
    BY FS_Subset, SumType
  <2>10. f[y] = 0
    BY <2>2, <2>3
  <2>11. Sum(S \cup V) = f[y] + Sum(S)
    BY <2>5, <2>6, <2>8
  <2> HIDE DEF Sum
  <2> QED
    BY <2>2, <2>9, <2>10, <2>11
<1>3. S \cup (T \ S) = T
  OBVIOUS
<1>4. T \ S \in SUBSET (T \ S)
  OBVIOUS
<1>5. Sum(S \cup (T \ S)) = Sum(S)
  BY <1>2, <1>4
<1> QED
  BY <1>3, <1>5

LEMMA SumOfNone == \A f : SumFunctionOnSet(f, {}) = 0
BY SumStep, FS_EmptySet

-----------------------------------------------------------------------------
(* Typing *)

LEMMA TypeInit == Init => TypeOK
BY DwellAssumption DEF Init, TypeOK

LEMMA ElapsedType ==
  ASSUME TypeOK, NEW c \in Cam, NEW p \in Cam
  PROVE  Elapsed(c, p) \in Nat
BY DEF TypeOK, Elapsed, NonNeg

\* A thread's step.
CamStep(c) ==
  \/ Stop(c) \/ Observe(c) \/ Unseen(c)
  \/ ReadLedger(c) \/ AddOwn(c) \/ Report(c)
  \/ \E p \in Cam : AddPeer(c, p)
  \/ SweepNothing(c) \/ Credit(c) \/ Drop(c)

LEMMA TypeStep ==
  ASSUME TypeOK, NEW c \in Cam, CamStep(c)
  PROVE  TypeOK'
<1> USE DEF TypeOK, visit, reading, Disturb, Disturbed
<1>1. CASE Stop(c)
  BY <1>1 DEF Stop
<1>2. CASE Observe(c)
  BY <1>2 DEF Observe
<1>3. CASE Unseen(c)
  BY <1>3 DEF Unseen
<1>4. CASE ReadLedger(c)
  BY <1>4 DEF ReadLedger
<1>5. CASE AddOwn(c)
  BY <1>5, ElapsedType DEF AddOwn, Peers
<1>6. CASE Report(c)
  BY <1>6 DEF Report
<1>7. ASSUME NEW p \in Cam, AddPeer(c, p)
      PROVE  TypeOK'
  BY <1>7, ElapsedType DEF AddPeer
<1>8. CASE SweepNothing(c)
  BY <1>8 DEF SweepNothing, TickOver
<1>9. CASE Credit(c)
  BY <1>9 DEF Credit, NonNeg
<1>10. CASE Drop(c)
  BY <1>10 DEF Drop, NonNeg, TickOver
<1> QED
  BY <1>1, <1>2, <1>3, <1>4, <1>5, <1>6, <1>7, <1>8, <1>9, <1>10 DEF CamStep

LEMMA TypeNext == TypeOK /\ [Next]_vars => TypeOK'
<1> SUFFICES ASSUME TypeOK, [Next]_vars PROVE TypeOK'
  OBVIOUS
<1>1. CASE Advance
  BY <1>1, DwellAssumption DEF Advance, TypeOK, visit, reading
<1>2. CASE UNCHANGED vars
  BY <1>2 DEF vars, visit, reading, TypeOK
<1> QED
  BY <1>1, <1>2, TypeStep DEF Next, CamStep

\* Times, tables and totals keep their types, and nobody was last seen before
\* they came.
THEOREM TypeCorrect == Spec => []TypeOK
BY TypeInit, TypeNext, PTL DEF Spec

-----------------------------------------------------------------------------
(* The ledger is conserved *)

LEMMA VisitsType == TypeOK => Visits \in [Cam -> Nat]
BY DEF TypeOK, Visits

LEMMA ConservedInit == Init => LedgerConserved
<1> SUFFICES ASSUME Init PROVE LedgerConserved
  OBVIOUS
<1> DEFINE B == {U \in SUBSET Cam : SumFunctionOnSet(Visits, U) # 0}
<1>0. B \in SUBSET SUBSET Cam
  OBVIOUS
<1>1. \A c \in Cam : Visits[c] = 0
  BY DEF Init, Visits
<1>2. SUFFICES ASSUME B # {} PROVE FALSE
  BY DEF Init, LedgerConserved
<1> HIDE DEF B
<1>3. PICK T \in B : \A U \in B : U \subseteq T => U = T
  BY <1>0, <1>2, DwellAssumption, SmallestSubset
<1>4. T \in SUBSET Cam /\ IsFiniteSet(T) /\ SumFunctionOnSet(Visits, T) # 0
  BY <1>3, DwellAssumption, FS_Subset DEF B
<1>5. T # {} /\ Pick(T) \in T
  BY <1>4, SumStep DEF Pick
<1>6. SumFunctionOnSet(Visits, T \ {Pick(T)}) = 0
  BY <1>3, <1>4, <1>5 DEF B
<1>7. SumFunctionOnSet(Visits, T)
        = Visits[Pick(T)] + SumFunctionOnSet(Visits, T \ {Pick(T)})
  BY <1>4, <1>5, SumStep
<1> QED
  BY <1>1, <1>4, <1>5, <1>6, <1>7

\* Only a sweep changes what has been visited, and Credit alone the ledger.
LEMMA ConservedStep ==
  ASSUME TypeOK, LedgerConserved, NEW c \in Cam, CamStep(c)
  PROVE  LedgerConserved'
<1>1. CASE Credit(c)
  <2> DEFINE n == last[c] - entry[c]
  <2>1. n \in Nat /\ ledger' = ledger + n
    BY <1>1 DEF TypeOK, Credit, NonNeg
  <2>2. /\ pc[c] = "sweep" /\ pc'[c] = "credited"
        /\ \A d \in Cam \ {c} : pc'[d] = pc[d]
        /\ UNCHANGED <<camDwell, last, entry>>
    BY <1>1 DEF TypeOK, Credit, visit
  <2>3. Visits \in [Cam -> Nat] /\ Visits' \in [Cam -> Nat]
    <3>1. TypeOK'
      BY TypeStep
    <3> QED
      BY <3>1 DEF TypeOK, Visits
  <2>5. Visits'[c] = Visits[c] + n /\ \A d \in Cam \ {c} : Visits'[d] = Visits[d]
    BY <2>2 DEF TypeOK, Visits
  <2> HIDE DEF n
  <2>4. SumFunctionOnSet(Visits', Cam) = SumFunctionOnSet(Visits, Cam) + n
    BY <2>1, <2>3, <2>5, DwellAssumption, SumGrows
  <2> QED
    BY <2>1, <2>4 DEF LedgerConserved
<1>2. CASE Drop(c)
  <2>1. Visits' = Visits
    BY <1>2 DEF TypeOK, Drop, TickOver, NonNeg, Visits, reading
  <2> QED
    BY <1>2, <2>1 DEF Drop, LedgerConserved
<1>3. CASE ~Credit(c) /\ ~Drop(c)
  <2>1. /\ ledger' = ledger /\ camDwell' = camDwell
        /\ \A d \in Cam :
             /\ pc'[d] = "credited" <=> pc[d] = "credited"
             /\ pc[d] = "credited" => last'[d] = last[d] /\ entry'[d] = entry[d]
    <3>1. CASE Stop(c) \/ Unseen(c)
      BY <3>1 DEF TypeOK, visit, Stop, Unseen
    <3>4. CASE ReadLedger(c) \/ AddOwn(c)
      BY <3>4 DEF TypeOK, visit, ReadLedger, AddOwn
    <3>5. CASE Report(c)
      BY <3>5 DEF TypeOK, visit, Report, Reported
    <3>2. CASE Observe(c)
      BY <3>2 DEF TypeOK, Observe
    <3>3. CASE (\E p \in Cam : AddPeer(c, p)) \/ SweepNothing(c)
      BY <3>3 DEF TypeOK, visit, AddPeer, SweepNothing, TickOver
    <3> QED
      BY <1>3, <3>1, <3>2, <3>3, <3>4, <3>5 DEF CamStep
  <2>2. Visits' = Visits
    BY <2>1 DEF Visits
  <2> QED
    BY <2>1, <2>2 DEF LedgerConserved
<1> QED
  BY <1>1, <1>2, <1>3

LEMMA ConservedNext == TypeOK /\ LedgerConserved /\ [Next]_vars => LedgerConserved'
<1> SUFFICES ASSUME TypeOK, LedgerConserved, [Next]_vars PROVE LedgerConserved'
  OBVIOUS
<1>1. CASE Advance
  BY <1>1 DEF Advance, LedgerConserved, Visits, visit
<1>2. CASE UNCHANGED vars
  BY <1>2 DEF vars, LedgerConserved, Visits, visit
<1> QED
  BY <1>1, <1>2, ConservedStep DEF Next, CamStep

\* No completed visit is lost to another camera's sweep and none is counted
\* twice, whatever the number of cameras (sweep, dwell_lock).
THEOREM ConservationCorrect == Spec => []LedgerConserved
BY ConservedInit, ConservedNext, TypeCorrect, PTL DEF Spec

-----------------------------------------------------------------------------
(* Reports *)

\* What a camera has added up so far, as long as nothing it reads has changed:
\* with the visits of the peers it has still to look at, it is the whole sum.
QuietReading ==
  \A c \in streaming : quiet[c] =>
    /\ pc[c] = "own" => total[c] = ledger
    /\ pc[c] = "peers" =>
         /\ peers[c] \subseteq Session(c)
         /\ total[c] + SumFunctionOnSet(InProgress(c), peers[c])
              = ledger + SumFunctionOnSet(InProgress(c), Session(c))

\* Its own part of the sum is in from the start, disturbed or not.
OwnReading ==
  \A c \in Cam :
    /\ pc[c] = "own" => total[c] >= camDwell[c]
    /\ pc[c] = "peers" => total[c] >= camDwell[c] + Elapsed(c, c)

IInv == TypeOK /\ LedgerConserved /\ QuietReading /\ OwnReading

LEMMA InProgressType ==
  ASSUME TypeOK, NEW c \in Cam
  PROVE  InProgress(c) \in [Cam -> Nat]
BY ElapsedType DEF InProgress

\* While a camera's reading goes on, the steps of the others leave it alone or
\* disturb it.
LEMMA OthersStep ==
  ASSUME TypeOK, NEW d \in Cam, CamStep(d) \/ Advance,
         NEW c \in Cam, c # d \/ Advance, pc[c] \in {"own", "peers"}
  PROVE  /\ pc'[c] = pc[c] /\ total'[c] = total[c] /\ peers'[c] = peers[c]
         /\ camDwell'[c] = camDwell[c]
         /\ time'[c] = time[c] /\ inside'[c] = inside[c] /\ entry'[c] = entry[c]
         /\ streaming' \subseteq streaming
         /\ quiet'[c] => /\ quiet[c] /\ ledger' = ledger /\ streaming' = streaming
                         /\ \A p \in Cam : Elapsed(c, p)' = Elapsed(c, p)
<1> USE DEF TypeOK, visit, reading, Disturb, Disturbed
<1>1. CASE Stop(d)
  BY <1>1 DEF Stop, Elapsed, Advance
<1>2. CASE Observe(d)
  BY <1>2 DEF Observe, Elapsed, Advance
<1>3. CASE Unseen(d)
  BY <1>3 DEF Unseen, Elapsed, Advance
<1>4. CASE ReadLedger(d) \/ AddOwn(d) \/ Report(d)
  BY <1>4 DEF ReadLedger, AddOwn, Report, Elapsed, Advance
<1>5. ASSUME NEW p \in Cam, AddPeer(d, p)
      PROVE  UNCHANGED <<streaming, pc, time, inside, entry, ledger, camDwell,
                         quiet>> /\ total'[c] = total[c] /\ peers'[c] = peers[c]
  BY <1>5 DEF AddPeer, Advance
<1>6. CASE SweepNothing(d)
  BY <1>6 DEF SweepNothing, TickOver, Elapsed, Advance
<1>7. CASE Credit(d)
  BY <1>7 DEF Credit, Elapsed, Advance
<1>8. CASE Drop(d)
  BY <1>8 DEF Drop, TickOver, Elapsed, Advance
<1>9. CASE Advance
  BY <1>9 DEF Advance, Elapsed
<1> QED
  BY <1>1, <1>2, <1>3, <1>4, <1>5, <1>6, <1>7, <1>8, <1>9 DEF CamStep, Elapsed

LEMMA SessionFinite ==
  ASSUME TypeOK, NEW c \in Cam
  PROVE  /\ Session(c) \subseteq Cam /\ IsFiniteSet(Session(c))
         /\ Peers(c) = Session(c) \ {c}
         /\ c \in streaming => c \in Session(c)
<1>1. Session(c) \subseteq Cam
  BY DEF TypeOK, Session
<1> QED
  BY <1>1, DwellAssumption, FS_Subset DEF Session, Peers

\* A sum over some cameras splits at each of them.
LEMMA InProgressSplit ==
  ASSUME TypeOK, NEW c \in Cam, NEW S \in SUBSET Cam, NEW p \in S
  PROVE  /\ SumFunctionOnSet(InProgress(c), S)
              = Elapsed(c, p) + SumFunctionOnSet(InProgress(c), S \ {p})
         /\ SumFunctionOnSet(InProgress(c), S \ {p}) \in Nat
<1>1. IsFiniteSet(S) /\ IsFiniteSet(S \ {p})
  BY DwellAssumption, FS_Subset
<1>2. \A x \in S : InProgress(c)[x] \in Nat
  BY InProgressType
<1>3. SumFunctionOnSet(InProgress(c), S)
        = InProgress(c)[p] + SumFunctionOnSet(InProgress(c), S \ {p})
  BY <1>1, <1>2, SumElement
<1>4. SumFunctionOnSet(InProgress(c), S \ {p}) \in Nat
  BY <1>1, <1>2, SumType
<1>5. InProgress(c)[p] = Elapsed(c, p)
  BY DEF InProgress
<1> QED
  BY <1>3, <1>4, <1>5

LEMMA QuietOthers ==
  ASSUME TypeOK, QuietReading, NEW d \in Cam, CamStep(d) \/ Advance,
         NEW c \in streaming', c # d \/ Advance, quiet'[c],
         pc'[c] \in {"own", "peers"}
  PROVE  /\ pc'[c] = "own" => total'[c] = ledger'
         /\ pc'[c] = "peers" =>
              /\ peers'[c] \subseteq Session(c)'
              /\ total'[c] + SumFunctionOnSet(InProgress(c)', peers'[c])
                   = ledger' + SumFunctionOnSet(InProgress(c)', Session(c)')
<1>1. c \in Cam /\ pc[c] = pc'[c]
  BY DEF TypeOK, CamStep, Stop, Observe, Unseen, ReadLedger, AddOwn, Report,
         AddPeer, SweepNothing, TickOver, Credit, Drop, Advance
<1>2. /\ total'[c] = total[c] /\ peers'[c] = peers[c] /\ quiet[c]
      /\ ledger' = ledger /\ streaming' = streaming
      /\ \A p \in Cam : Elapsed(c, p)' = Elapsed(c, p)
  BY <1>1, OthersStep
<1>3. Session(c)' = Session(c)
  BY <1>2 DEF Session
<1>4. InProgress(c)' = InProgress(c)
  BY <1>2 DEF InProgress
<1> QED
  BY <1>1, <1>2, <1>3, <1>4 DEF QuietReading

LEMMA QuietOwn ==
  ASSUME TypeOK, QuietReading, NEW c \in streaming', c \in Cam, CamStep(c),
         quiet'[c]
  PROVE  /\ pc'[c] = "own" => total'[c] = ledger'
         /\ pc'[c] = "peers" =>
              /\ peers'[c] \subseteq Session(c)'
              /\ total'[c] + SumFunctionOnSet(InProgress(c)', peers'[c])
                   = ledger' + SumFunctionOnSet(InProgress(c)', Session(c)')
<1>1. CASE Stop(c)
  BY <1>1 DEF Stop
<1>2. CASE Observe(c) \/ Unseen(c) \/ SweepNothing(c) \/ Credit(c)
  BY <1>2 DEF TypeOK, Observe, Unseen, SweepNothing, TickOver, Credit
<1>3. CASE Drop(c) \/ Report(c)
  BY <1>3 DEF TypeOK, Drop, TickOver, Report
<1>4. CASE ReadLedger(c)
  BY <1>4 DEF TypeOK, ReadLedger
<1>5. CASE AddOwn(c)
  <2>1. /\ pc[c] = "own" /\ pc'[c] = "peers" /\ c \in streaming /\ quiet[c]
        /\ total'[c] = total[c] + Elapsed(c, c) /\ peers'[c] = Peers(c)
        /\ UNCHANGED <<streaming, ledger, time, inside, entry>>
    BY <1>5 DEF TypeOK, AddOwn, visit
  <2>2. Session(c)' = Session(c) /\ InProgress(c)' = InProgress(c)
    BY <2>1 DEF Session, InProgress, Elapsed
  <2>3. total[c] = ledger
    BY <2>1 DEF QuietReading
  <2>4. peers'[c] = Session(c) \ {c} /\ c \in Session(c) /\ Session(c) \in SUBSET Cam
    BY <2>1, SessionFinite
  <2>5. /\ SumFunctionOnSet(InProgress(c), Session(c))
             = Elapsed(c, c) + SumFunctionOnSet(InProgress(c), Session(c) \ {c})
        /\ SumFunctionOnSet(InProgress(c), Session(c) \ {c}) \in Nat
    BY <2>4, InProgressSplit
  <2>6. Elapsed(c, c) \in Nat /\ ledger \in Nat
    BY ElapsedType DEF TypeOK
  <2> QED
    BY <2>1, <2>2, <2>3, <2>4, <2>5, <2>6
<1>6. ASSUME NEW p \in Cam, AddPeer(c, p)
      PROVE  /\ pc'[c] = "peers"
             /\ peers'[c] \subseteq Session(c)'
             /\ total'[c] + SumFunctionOnSet(InProgress(c)', peers'[c])
                  = ledger' + SumFunctionOnSet(InProgress(c)', Session(c)')
  <2>1. /\ pc[c] = "peers" /\ pc'[c] = "peers" /\ c \in streaming /\ quiet[c]
        /\ p \in peers[c] /\ peers[c] \in SUBSET Cam /\ total[c] \in Nat
        /\ total'[c] = total[c] + Elapsed(c, p) /\ peers'[c] = peers[c] \ {p}
        /\ UNCHANGED <<streaming, ledger, time, inside, entry>>
    BY <1>6 DEF TypeOK, AddPeer, visit
  <2>2. Session(c)' = Session(c) /\ InProgress(c)' = InProgress(c)
    BY <2>1 DEF Session, InProgress, Elapsed
  <2>3. /\ peers[c] \subseteq Session(c)
        /\ total[c] + SumFunctionOnSet(InProgress(c), peers[c])
             = ledger + SumFunctionOnSet(InProgress(c), Session(c))
    BY <2>1 DEF QuietReading
  <2>4. /\ SumFunctionOnSet(InProgress(c), peers[c])
             = Elapsed(c, p) + SumFunctionOnSet(InProgress(c), peers[c] \ {p})
        /\ SumFunctionOnSet(InProgress(c), peers[c] \ {p}) \in Nat
    BY <2>1, InProgressSplit
  <2>5. Elapsed(c, p) \in Nat
    BY ElapsedType
  <2> QED
    BY <2>1, <2>2, <2>3, <2>4, <2>5
<1> QED
  BY <1>1, <1>2, <1>3, <1>4, <1>5, <1>6 DEF CamStep

LEMMA OwnStep ==
  ASSUME TypeOK, LedgerConserved, OwnReading, NEW d \in Cam, CamStep(d) \/ Advance
  PROVE  OwnReading'
<1> SUFFICES ASSUME NEW c \in Cam, pc'[c] \in {"own", "peers"}
             PROVE  /\ pc'[c] = "own" => total'[c] >= camDwell'[c]
                    /\ pc'[c] = "peers" =>
                         total'[c] >= camDwell'[c] + Elapsed(c, c)'
  BY DEF OwnReading
<1>1. CASE c # d \/ Advance
  <2>1. pc[c] = pc'[c]
    BY <1>1 DEF TypeOK, CamStep, Stop, Observe, Unseen, ReadLedger, AddOwn,
                Report, AddPeer, SweepNothing, TickOver, Credit, Drop, Advance
  <2>2. /\ total'[c] = total[c] /\ camDwell'[c] = camDwell[c]
        /\ time'[c] = time[c] /\ inside'[c] = inside[c] /\ entry'[c] = entry[c]
    BY <1>1, <2>1, OthersStep
  <2>3. Elapsed(c, c)' = Elapsed(c, c)
    BY <2>2 DEF Elapsed
  <2> QED
    BY <2>1, <2>2, <2>3 DEF OwnReading
<1>2. CASE c = d /\ ~Advance
  <2>1. CASE Stop(c)
    <3>1. UNCHANGED <<pc, total, camDwell, time, inside, entry>>
      BY <2>1 DEF Stop, visit, reading
    <3> QED
      BY <3>1 DEF OwnReading, Elapsed
  <2>2. CASE Observe(c) \/ Unseen(c) \/ SweepNothing(c) \/ Credit(c)
    BY <2>2 DEF TypeOK, Observe, Unseen, SweepNothing, TickOver, Credit
  <2>3. CASE Drop(c) \/ Report(c)
    BY <2>3 DEF TypeOK, Drop, TickOver, Report
  <2>4. CASE ReadLedger(c)
    <3>1. /\ pc[c] = "ledger" /\ pc'[c] = "own" /\ total'[c] = ledger
          /\ camDwell' = camDwell
      BY <2>4 DEF TypeOK, ReadLedger
    <3>2. Visits[c] = camDwell[c] /\ camDwell[c] \in Nat
      BY <3>1 DEF TypeOK, Visits
    <3>3. Visits[c] <= ledger
      BY VisitsType, DwellAssumption, SumCovers DEF LedgerConserved
    <3>4. ledger \in Nat
      BY DEF TypeOK
    <3> QED
      BY <3>1, <3>2, <3>3, <3>4
  <2>5. CASE AddOwn(c)
    <3>1. /\ pc[c] = "own" /\ pc'[c] = "peers"
          /\ total'[c] = total[c] + Elapsed(c, c)
          /\ UNCHANGED <<camDwell, time, inside, entry>>
      BY <2>5 DEF TypeOK, AddOwn, visit
    <3>2. total[c] >= camDwell[c] /\ Elapsed(c, c)' = Elapsed(c, c)
      BY <3>1 DEF OwnReading, Elapsed
    <3>3. total[c] \in Nat /\ camDwell[c] \in Nat /\ Elapsed(c, c) \in Nat
      BY ElapsedType DEF TypeOK
    <3> QED
      BY <3>1, <3>2, <3>3
  <2>6. ASSUME NEW p \in Cam, AddPeer(c, p)
        PROVE  pc'[c] = "peers" /\ total'[c] >= camDwell'[c] + Elapsed(c, c)'
    <3>1. /\ pc[c] = "peers" /\ pc'[c] = "peers"
          /\ total'[c] = total[c] + Elapsed(c, p)
          /\ UNCHANGED <<camDwell, time, inside, entry>>
      BY <2>6 DEF TypeOK, AddPeer, visit
    <3>2. /\ total[c] >= camDwell[c] + Elapsed(c, c)
          /\ Elapsed(c, c)' = Elapsed(c, c)
      BY <3>1 DEF OwnReading, Elapsed
    <3>3. /\ total[c] \in Nat /\ camDwell[c] \in Nat
          /\ Elapsed(c, c) \in Nat /\ Elapsed(c, p) \in Nat
      BY ElapsedType DEF TypeOK
    <3> QED
      BY <3>1, <3>2, <3>3
  <2> QED
    BY <1>2, <2>1, <2>2, <2>3, <2>4, <2>5, <2>6 DEF CamStep
<1> QED
  BY <1>1, <1>2

LEMMA InvInit == Init => IInv
<1>1. Init => QuietReading /\ OwnReading
  BY DEF Init, QuietReading, OwnReading
<1> QED
  BY <1>1, TypeInit, ConservedInit DEF IInv

LEMMA InvNext == IInv /\ [Next]_vars => IInv'
<1> SUFFICES ASSUME IInv, [Next]_vars PROVE IInv'
  OBVIOUS
<1> USE DEF IInv
<1>1. TypeOK' /\ LedgerConserved'
  BY TypeNext, ConservedNext
<1>2. ASSUME NEW d \in Cam, CamStep(d) \/ Advance PROVE QuietReading' /\ OwnReading'
  <2>1. \A c \in streaming' : c \in Cam
    BY <1>1 DEF TypeOK
  <2>2. QuietReading'
    BY <1>2, <2>1, QuietOthers, QuietOwn DEF QuietReading
  <2> QED
    BY <1>2, <2>2, OwnStep
<1>3. CASE Cam = {}
  BY <1>1, <1>3 DEF TypeOK, QuietReading, OwnReading
<1>4. CASE UNCHANGED vars
  <2>1. QuietReading' = QuietReading /\ OwnReading' = OwnReading
    BY <1>4 DEF vars, visit, reading, QuietReading, OwnReading, Session,
                InProgress, Elapsed
  <2> QED
    BY <1>1, <2>1
<1> QED
  BY <1>1, <1>2, <1>3, <1>4 DEF Next, CamStep

LEMMA InvCorrect == Spec => []IInv
BY InvInit, InvNext, PTL DEF Spec

\* A report nothing disturbed is the documented total over every camera of the
\* organisation, each visit once, if only cameras of the reporting session see
\* the person (lifetime_dwell_sec).
THEOREM ReportsExact == Spec => []QuietReportExact
<1>1. IInv => QuietReportExact
  <2> SUFFICES ASSUME IInv, NEW c \in streaming, Reported(c), quiet[c],
                      AllInSession(c)
               PROVE  total[c] = ledger + SumFunctionOnSet(InProgress(c), streaming)
    BY DEF QuietReportExact
  <2>1. SumFunctionOnSet(InProgress(c), peers[c]) = 0
    BY SumOfNone DEF Reported
  <2>2. /\ total[c] \in Nat /\ c \in Cam
        /\ streaming \subseteq Cam /\ IsFiniteSet(streaming)
    BY DwellAssumption, FS_Subset DEF IInv, TypeOK
  <2>3. total[c] = ledger + SumFunctionOnSet(InProgress(c), Session(c))
    BY <2>1, <2>2 DEF IInv, QuietReading, Reported
  <2>4. Session(c) \in SUBSET streaming
    BY DEF Session
  <2>5. \A p \in streaming : InProgress(c)[p] \in Nat
    BY <2>2, InProgressType DEF IInv
  <2>6. \A p \in streaming \ Session(c) : InProgress(c)[p] = 0
    BY <2>2 DEF AllInSession, InProgress, Elapsed
  <2> HIDE DEF AllInSession
  <2>7. SumFunctionOnSet(InProgress(c), streaming)
          = SumFunctionOnSet(InProgress(c), Session(c))
    BY <2>2, <2>4, <2>5, <2>6, SumWithoutZeros
  <2> QED
    BY <2>3, <2>7
<1> QED
  BY <1>1, InvCorrect, PTL

\* Whatever the other cameras do while a report is put together, it covers all
\* that the reporting camera has seen itself ("re-entries accumulate").
THEOREM ReportsCover == Spec => []ReportCoversOwnCamera
<1>1. IInv => ReportCoversOwnCamera
  BY DEF IInv, OwnReading, ReportCoversOwnCamera, Reported
<1> QED
  BY <1>1, InvCorrect, PTL
=============================================================================
