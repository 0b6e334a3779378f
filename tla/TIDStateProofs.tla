--------------------------- MODULE TIDStateProofs ---------------------------
(***************************************************************************)
(* Proofs about TIDState, for any set of raw ids, boxes and overlaps and   *)
(* any thresholds.  RemapFacts says what one remap_tids returns; the       *)
(* invariant, that the tables are in step, the mapping is one-to-one and   *)
(* no track is mapped from a raw id that does not hold it, is inductive.    *)
(***************************************************************************)
EXTENDS TIDState, TLAPS

IInv == TypeOK /\ StableDistinct /\ MappingCurrent

\* A new raw id r may continue track t: only by overlap or by number.
MayContinue(dets, r, t) ==
  t \in states =>
    \/ missing[t] \in 1..MaxMissing /\ IoU(dets[r], lastBox[t]) >= RecoverThr
    \/ t = r

-----------------------------------------------------------------------------
\* Step 3 gives each remaining detection an id of its own that nobody took,
\* and the id is the raw id or one without a state.
LEMMA NumbersFacts ==
  ASSUME NEW rest \in SUBSET Raw, NEW taken, NEW f \in Numbers(rest, taken)
  PROVE  /\ f \in [rest -> Tid]
         /\ Injective(f)
         /\ \A r \in rest : f[r] \notin taken
         /\ \A r \in rest : f[r] = r \/ f[r] \notin states
<1> DEFINE Used(pos, r) == taken \cup {f[q] : q \in {q \in rest : pos[q] < pos[r]}}
<1>1. /\ f \in [rest -> Tid]
      /\ \E pos \in [rest -> 1..Cardinality(rest)] :
           /\ Injective(pos)
           /\ \A r \in rest : IF r \in Used(pos, r) THEN IsFreshTid(f[r], Used(pos, r))
                              ELSE f[r] = r
  BY DEF Numbers
<1>2. PICK pos \in [rest -> 1..Cardinality(rest)] :
           /\ Injective(pos)
           /\ \A r \in rest : IF r \in Used(pos, r) THEN IsFreshTid(f[r], Used(pos, r))
                              ELSE f[r] = r
  BY <1>1
<1>3. \A r \in rest : f[r] \notin Used(pos, r) /\ (f[r] = r \/ f[r] \notin states)
  BY <1>2 DEF IsFreshTid
<1>4. \A r \in rest : pos[r] \in Int
  BY <1>2
<1>5. \A q, r \in rest : pos[q] < pos[r] => f[q] # f[r]
  BY <1>3
<1>6. \A q, r \in rest : q # r => pos[q] < pos[r] \/ pos[r] < pos[q]
  BY <1>2, <1>4 DEF Injective
<1>7. Injective(f)
  BY <1>1, <1>5, <1>6 DEF Injective
<1> QED
  BY <1>1, <1>3, <1>7

\* What remap_tids returns: distinct stable ids, the old ones kept, and a
\* known track handed to a new raw id only by overlap or by its number.
LEMMA RemapFacts ==
  ASSUME IInv, NEW R \in SUBSET Raw, NEW dets \in [R -> Box],
         NEW stable \in Remaps(dets)
  PROVE  /\ stable \in [R -> Tid]
         /\ Injective(stable)
         /\ \A r \in R \cap DOMAIN rawToStable : stable[r] = rawToStable[r]
         /\ \A r \in R \ DOMAIN rawToStable : MayContinue(dets, r, stable[r])
<1> DEFINE kept == Kept(dets)
           pairs == Pairs(dets, Candidates(Values(kept)))
           Rest(M) == Unresolved(dets) \ {p[1] : p \in M}
           Used(M) == Values(kept) \cup {p[2] : p \in M}
<1>0. kept = [r \in R \cap DOMAIN rawToStable |-> rawToStable[r]]
  BY DEF Kept
<1>a. PICK M \in Recoveries(dets, pairs) :
        \E f \in Numbers(Rest(M), Used(M)) : stable = Merged(dets, M, f)
  BY Zenon DEF Remaps
<1> DEFINE found == {p[1] : p \in M}
           taken == Used(M)
           rest  == Rest(M)
<1>b. PICK f \in Numbers(rest, taken) : stable = Merged(dets, M, f)
  BY <1>a
<1>1. stable = [r \in R |->
                  IF r \in DOMAIN kept THEN kept[r]
                  ELSE IF r \in DOMAIN f THEN f[r]
                  ELSE CHOOSE t \in states : <<r, t>> \in M]
  BY <1>b DEF Merged
<1>2. /\ M \in SUBSET pairs
      /\ \A p, q \in M : ~Clash(p, q)
  BY DEF Recoveries
<1>3. \A p \in M : /\ p = <<p[1], p[2]>>
                   /\ p[1] \in R \ DOMAIN rawToStable
                   /\ p[2] \in states \ Values(kept)
                   /\ missing[p[2]] \in 1..MaxMissing
                   /\ IoU(dets[p[1]], lastBox[p[2]]) >= RecoverThr
  BY <1>2 DEF Pairs, Candidates, Unresolved
<1>4. \A p, q \in M : (p[1] = q[1]) <=> (p[2] = q[2])
  BY <1>2 DEF Clash
<1>5. rest \in SUBSET Raw
  BY DEF Unresolved
<1>6. /\ f \in [rest -> Tid]
      /\ Injective(f)
      /\ \A r \in rest : f[r] \notin taken
      /\ \A r \in rest : f[r] = r \/ f[r] \notin states
  <2> HIDE DEF rest, taken
  <2> QED
    BY <1>5, <1>b, NumbersFacts
<1>7. \A r \in R \cap DOMAIN rawToStable :
        stable[r] = rawToStable[r] /\ stable[r] \in Tid /\ stable[r] \in Values(kept)
  BY <1>0, <1>1 DEF IInv, TypeOK, Values
<1>8. \A r \in rest : stable[r] = f[r] /\ stable[r] \in Tid
  BY <1>0, <1>1, <1>6 DEF Unresolved
<1>9. \A r \in found : <<r, stable[r]>> \in M /\ stable[r] \in states
  <2> TAKE r \in found
  <2>1. PICK p \in M : p[1] = r
    OBVIOUS
  <2>2. \E t \in states : <<r, t>> \in M
    BY <2>1, <1>3
  <2>3. r \in R /\ r \notin DOMAIN kept /\ r \notin DOMAIN f
    BY <2>1, <1>3, <1>0, <1>6
  <2> QED
    BY <2>2, <2>3, <1>1
<1>10. R = (R \cap DOMAIN rawToStable) \cup found \cup rest
  BY <1>3 DEF Unresolved
<1>11. stable \in [R -> Tid]
  <2>1. \A r \in R : stable[r] \in Tid
    BY <1>7, <1>8, <1>9, <1>10 DEF IInv, TypeOK
  <2> QED
    BY <2>1, <1>1
<1>12. \A r \in found : stable[r] \in taken /\ stable[r] \notin Values(kept)
  <2> TAKE r \in found
  <2>1. <<r, stable[r]>> \in M
    BY <1>9
  <2>2. stable[r] \in {p[2] : p \in M} /\ stable[r] \notin Values(kept)
    BY <2>1, <1>3
  <2> QED
    BY <2>2
<1>13. Injective(stable)
  <2> SUFFICES ASSUME NEW x \in R, NEW y \in R, stable[x] = stable[y]
               PROVE  x = y
    BY <1>11 DEF Injective
  <2>1. CASE x \in DOMAIN rawToStable /\ y \in DOMAIN rawToStable
    BY <2>1, <1>7 DEF IInv, StableDistinct, Injective
  <2>2. CASE x \in found /\ y \in found
    <3>1. <<x, stable[x]>> \in M /\ <<y, stable[y]>> \in M
      BY <2>2, <1>9
    <3> QED
      BY <3>1, <1>4
  <2>3. CASE x \in rest /\ y \in rest
    BY <2>3, <1>6, <1>8 DEF Injective
  <2>4. \A r \in R \cap DOMAIN rawToStable : stable[r] \in taken
    BY <1>7
  <2>5. \A r \in rest : stable[r] \notin taken
    BY <1>6, <1>8
  <2> QED
    BY <2>1, <2>2, <2>3, <2>4, <2>5, <1>7, <1>10, <1>12
<1>14. \A r \in R \ DOMAIN rawToStable : MayContinue(dets, r, stable[r])
  <2> TAKE r \in R \ DOMAIN rawToStable
  <2>1. CASE r \in found
    <3>1. <<r, stable[r]>> \in M
      BY <2>1, <1>9
    <3> QED
      BY <3>1, <1>3 DEF MayContinue
  <2>2. CASE r \in rest
    BY <2>2, <1>6, <1>8 DEF MayContinue
  <2> QED
    BY <2>1, <2>2, <1>10
<1> QED
  BY <1>7, <1>11, <1>13, <1>14

-----------------------------------------------------------------------------
LEMMA InitInv == Init => IInv
  BY TIDStateAssumption
  DEF Init, IInv, TypeOK, StableDistinct, MappingCurrent, Injective, Values, EmptyDict, Tid

\* A frame keeps the tables in step and the stable ids distinct.
LEMMA FrameInv ==
  ASSUME IInv, NEW R \in SUBSET Raw \ {{}}, NEW dets \in [R -> Box], Frame(dets)
  PROVE  IInv'
<1>1. PICK stable \in Remaps(dets) : Applied(dets, stable)
  BY DEF Frame
<1>a. /\ rawToStable' = stable
      /\ Forget(Values(stable), [t \in Values(stable) |-> dets[RawOf(stable, t)]])
      /\ holder' = [t \in states' |-> IF t \in Values(stable) THEN RawOf(stable, t)
                                      ELSE holder[t]]
  BY <1>1 DEF Applied
<1>b. PICK n \in {nextStable} \cup {t + 1 : t \in Values(stable)} :
        Claimed(n, Values(stable)) /\ nextStable' = n
  BY <1>1 DEF Applied
<1>2. stable \in [R -> Tid] /\ Injective(stable)
  BY RemapFacts
<1>3. \A t \in Values(stable) : t \in Tid /\ RawOf(stable, t) \in R
  BY <1>2 DEF Values, RawOf
<1>4. StableDistinct'
  BY <1>a, <1>2 DEF StableDistinct
<1>5. states' \in SUBSET Tid /\ states' \subseteq states \cup Values(stable)
  BY <1>a, <1>3 DEF IInv, TypeOK, Forget
<1>6. DOMAIN rawToStable' \in SUBSET Raw /\ rawToStable' \in [DOMAIN rawToStable' -> Tid]
  BY <1>a, <1>2
<1>7. lastBox' \in [states' -> Box]
  BY <1>a, <1>3, <1>5 DEF IInv, TypeOK, Forget
<1>8. missing' \in [states' -> 0..MaxMissing]
  <2>1. ASSUME NEW t \in states', t \notin Values(stable)
        PROVE  missing[t] + 1 \in 0..MaxMissing
    BY <2>1, <1>a, <1>5, TIDStateAssumption DEF IInv, TypeOK, Forget, Expired
  <2> QED
    BY <2>1, <1>a, TIDStateAssumption DEF Forget
<1>9. holder' \in [states' -> Raw]
  BY <1>a, <1>3, <1>5 DEF IInv, TypeOK
<1>10. /\ nextStable' \in 1..MaxTid + 1
       /\ nextStable' >= nextStable
       /\ \A t \in Values(stable) : t < nextStable'
  <2>1. n \in 1..MaxTid + 1
    BY <1>b, <1>3, TIDStateAssumption DEF IInv, TypeOK, Tid
  <2> QED
    BY <2>1, <1>b DEF Claimed
<1>11. \A t \in states' \cup Values(rawToStable') : t < nextStable'
  BY <1>a, <1>3, <1>5, <1>10, TIDStateAssumption DEF IInv, TypeOK, Tid
<1>12. MappingCurrent'
  <2>1. \A r \in R : stable[r] \in Values(stable) /\ RawOf(stable, stable[r]) = r
    BY <1>2 DEF Values, RawOf, Injective
  <2> QED
    BY <2>1, <1>2, <1>a DEF MappingCurrent
<1> QED
  BY <1>4, <1>5, <1>6, <1>7, <1>8, <1>9, <1>10, <1>11, <1>12 DEF IInv, TypeOK

LEMMA EmptyFrameInv ==
  ASSUME IInv, EmptyFrame
  PROVE  IInv'
<1>1. states' \subseteq states /\ nextStable' = nextStable /\ rawToStable' = rawToStable
  BY DEF EmptyFrame, Forget
<1>2. \A t \in states' : missing[t] + 1 \in 0..MaxMissing
  BY <1>1, TIDStateAssumption DEF IInv, TypeOK, EmptyFrame, Forget, Expired
<1>3. missing' \in [states' -> 0..MaxMissing]
  BY <1>2 DEF EmptyFrame, Forget
<1>4. lastBox' \in [states' -> Box] /\ holder' \in [states' -> Raw]
  BY <1>1 DEF IInv, TypeOK, EmptyFrame, Forget
<1>5. MappingCurrent'
  BY <1>1 DEF IInv, MappingCurrent, EmptyFrame
<1> QED
  BY <1>1, <1>3, <1>4, <1>5 DEF IInv, TypeOK, StableDistinct, Values

LEMMA StepInv == IInv /\ [Next]_vars => IInv'
<1> SUFFICES ASSUME IInv, [Next]_vars PROVE IInv'
  OBVIOUS
<1>1. CASE \E R \in SUBSET Raw \ {{}} : \E dets \in [R -> Box] : Frame(dets)
  BY <1>1, FrameInv
<1>2. CASE EmptyFrame
  BY <1>2, EmptyFrameInv
<1>3. CASE UNCHANGED vars
  BY <1>3 DEF vars, IInv, TypeOK, StableDistinct, MappingCurrent, Values, Injective
<1> QED
  BY <1>1, <1>2, <1>3 DEF Next

\* The invariant holds throughout.
LEMMA InvCorrect == Spec => []IInv
  BY InitInv, StepInv, PTL DEF Spec

\* Type correctness of the four tables.
THEOREM TypeCorrect == Spec => []TypeOK
<1>1. IInv => TypeOK
  BY DEF IInv
<1> QED
  BY <1>1, InvCorrect, PTL

\* No two people of a frame share a stable id, for any tracker.
THEOREM DistinctCorrect == Spec => []StableDistinct
<1>1. IInv => StableDistinct
  BY DEF IInv
<1> QED
  BY <1>1, InvCorrect, PTL

\* In a frame, a state passes on only by overlap or by number.
LEMMA FrameHandover ==
  ASSUME IInv, NEW R \in SUBSET Raw \ {{}}, NEW dets \in [R -> Box], Frame(dets)
  PROVE  \A r \in DOMAIN rawToStable' :
           LET t == rawToStable'[r] IN
           t \in states \cap states' /\ holder'[t] = r /\ holder[t] # r =>
             \/ missing[t] \in 1..MaxMissing /\ IoU(lastBox'[t], lastBox[t]) >= RecoverThr
             \/ t = r
<1>1. PICK stable \in Remaps(dets) : Applied(dets, stable)
  BY DEF Frame
<1>2. /\ stable \in [R -> Tid] /\ Injective(stable)
      /\ \A r \in R \cap DOMAIN rawToStable : stable[r] = rawToStable[r]
      /\ \A r \in R \ DOMAIN rawToStable : MayContinue(dets, r, stable[r])
  BY RemapFacts
<1>3. \A r \in R : stable[r] \in Values(stable) /\ RawOf(stable, stable[r]) = r
  BY <1>2 DEF Values, RawOf, Injective
<1>4. /\ rawToStable' = stable
      /\ \A r \in R : stable[r] \in states' => lastBox'[stable[r]] = dets[r]
  BY <1>1, <1>2, <1>3 DEF Applied, Forget
<1>5. \A r \in R \cap DOMAIN rawToStable : stable[r] \in states => holder[stable[r]] = r
  BY <1>2 DEF IInv, MappingCurrent
<1> QED
  BY <1>2, <1>4, <1>5 DEF MayContinue

\* A known track's state passes to another raw id only by overlap after a
\* short loss or through the number of the newcomer, for any tracker.
THEOREM HandoverCorrect == Spec => StateHandover
<1> DEFINE Handover ==
      \A r \in DOMAIN rawToStable' :
        LET t == rawToStable'[r] IN
        t \in states \cap states' /\ holder'[t] = r /\ holder[t] # r =>
          \/ missing[t] \in 1..MaxMissing /\ IoU(lastBox'[t], lastBox[t]) >= RecoverThr
          \/ t = r
<1>1. IInv /\ [Next]_vars => [Handover]_vars
  <2> SUFFICES ASSUME IInv, Next PROVE Handover
    BY DEF vars
  <2>1. ASSUME NEW R \in SUBSET Raw \ {{}}, NEW dets \in [R -> Box], Frame(dets)
        PROVE  Handover
    BY <2>1, FrameHandover
  <2>2. CASE EmptyFrame
    BY <2>2 DEF EmptyFrame
  <2> QED
    BY <2>1, <2>2 DEF Next
<1> QED
  BY <1>1, InvCorrect, PTL DEF Spec, StateHandover

\* The mapping never points at a track that someone else holds by now.
THEOREM MappingCorrect == Spec => []MappingCurrent
<1>1. IInv => MappingCurrent
  BY DEF IInv
<1> QED
  BY <1>1, InvCorrect, PTL

\* forget counts on or drops a track after exactly MaxMissing misses.
LEMMA ForgetRetires ==
  ASSUME IInv, NEW alive \in SUBSET Tid, NEW box, Forget(alive, box), NEW t \in states
  PROVE  IF t \in states' THEN missing'[t] \in {0, missing[t] + 1}
         ELSE missing[t] = MaxMissing
<1>1. CASE t \in states'
  BY <1>1 DEF Forget
<1>2. CASE t \notin states'
  <2>1. t \in Expired(alive)
    BY <1>2 DEF Forget
  <2> QED
    BY <1>2, <2>1, TIDStateAssumption DEF Expired, IInv, TypeOK
<1> QED
  BY <1>1, <1>2

\* A track's state is dropped after exactly MaxMissing missed frames in a row.
THEOREM RetirementCorrect == Spec => RetiredOnTime
<1> DEFINE Retired ==
      \A t \in states :
        IF t \in states' THEN missing'[t] \in {0, missing[t] + 1}
        ELSE missing[t] = MaxMissing
<1>1. IInv /\ [Next]_vars => [Retired]_vars
  <2> SUFFICES ASSUME IInv, Next PROVE Retired
    BY DEF vars
  <2>1. ASSUME NEW R \in SUBSET Raw \ {{}}, NEW dets \in [R -> Box], Frame(dets)
        PROVE  Retired
    <3>1. PICK stable \in Remaps(dets) : Applied(dets, stable)
      BY <2>1 DEF Frame
    <3>2. Values(stable) \in SUBSET Tid
      BY <2>1, <3>1, RemapFacts DEF Values
    <3>3. \E box : Forget(Values(stable), box)
      BY <3>1 DEF Applied
    <3> QED
      BY <3>2, <3>3, ForgetRetires
  <2>2. CASE EmptyFrame
    BY <2>2, ForgetRetires DEF EmptyFrame
  <2> QED
    BY <2>1, <2>2 DEF Next
<1> QED
  BY <1>1, InvCorrect, PTL DEF Spec, RetiredOnTime

=============================================================================
