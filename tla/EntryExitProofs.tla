--------------------------- MODULE EntryExitProofs ---------------------------
(***************************************************************************)
(* For every set of people, timeout, threshold, alert rate and clock bound *)
(* that EntryExitAssumption allows: the head count is correct.             *)
(***************************************************************************)
EXTENDS EntryExit, FiniteSetTheorems, SequenceTheorems, TLAPS

\* A dict of identities has finitely many keys.
LEMMA DictFinite ==
  ASSUME NEW D \in SUBSET SID
  PROVE  /\ IsFiniteSet(D)
         /\ Cardinality(D) \in Nat
BY EntryExitAssumption, FS_Subset, FS_CardinalityType DEF EntryExitAssumption

\* What observe() does to a well-formed track table.
LEMMA ObservedType ==
  ASSUME TypeOK, NEW visible \in SUBSET SID
  PROVE  /\ IsDict(Observed(visible), TrackInfo)
         /\ DOMAIN Observed(visible) = DOMAIN active \cup visible
         /\ \A s \in DOMAIN Observed(visible) :
              /\ Observed(visible)[s].entry <= Observed(visible)[s].last
              /\ Observed(visible)[s].last <= now
<1>1. /\ active \in [DOMAIN active -> TrackInfo]
      /\ DOMAIN active \in SUBSET SID
      /\ now \in Nat
  BY DEF TypeOK, IsDict
<1>2. DOMAIN Observed(visible) = DOMAIN active \cup visible
  BY DEF Observed
<1>3. ASSUME NEW s \in DOMAIN active \cup visible
      PROVE  /\ Observed(visible)[s] \in TrackInfo
             /\ Observed(visible)[s].entry <= Observed(visible)[s].last
             /\ Observed(visible)[s].last <= now
  <2>1. CASE s \in DOMAIN active
    BY <1>1, <2>1 DEF Observed, TrackInfo, TypeOK
  <2>2. CASE s \notin DOMAIN active
    BY <1>1, <1>3, <2>2 DEF Observed, TrackInfo
  <2> QED
    BY <2>1, <2>2
<1>4. Observed(visible) \in [DOMAIN active \cup visible -> TrackInfo]
  BY <1>3 DEF Observed
<1> QED
  BY <1>1, <1>2, <1>3, <1>4 DEF IsDict

\* The ring buffer keeps exit records only.
LEMMA LastNType ==
  ASSUME NEW T, NEW q \in Seq(T), NEW n \in Nat
  PROVE  LastN(q, n) \in Seq(T)
<1>1. CASE Len(q) <= n
  BY <1>1 DEF LastN
<1>2. CASE Len(q) > n
  <2>1. Len(q) - n + 1 \in 1..Len(q) + 1 /\ Len(q) \in Nat
    BY <1>2
  <2>2. SubSeq(q, Len(q) - n + 1, Len(q)) \in Seq(T)
    BY <2>1, SubSeqProperties
  <2> QED
    BY <1>2, <2>2 DEF LastN
<1> QED
  BY <1>1, <1>2

LEMMA RecordedType ==
  ASSUME NEW t, IsDict(t, TrackInfo), NEW gone \in SUBSET DOMAIN t,
         \A s \in DOMAIN t : t[s].entry <= t[s].last,
         recentExits \in Seq(ExitRecord),
         Recorded(t, gone)
  PROVE  recentExits' \in Seq(ExitRecord)
<1>1. t \in [DOMAIN t -> TrackInfo] /\ DOMAIN t \in SUBSET SID
  BY DEF IsDict
<1>2. Cardinality(gone) \in Nat
  BY <1>1, DictFinite
<1>3. PICK q \in SweepOrders(t, gone) :
        recentExits' = LastN(recentExits \o
          [i \in DOMAIN q |->
             [sid |-> q[i], dwell |-> Dwell(t[q[i]]), time |-> t[q[i]].last]],
          RecentCap)
  BY DEF Recorded
<1> DEFINE new == [i \in DOMAIN q |->
             [sid |-> q[i], dwell |-> Dwell(t[q[i]]), time |-> t[q[i]].last]]
<1>4. q \in [1..Cardinality(gone) -> gone]
  BY DEF SweepOrders
<1>5. ASSUME NEW i \in 1..Cardinality(gone) PROVE new[i] \in ExitRecord
  <2>1. t[q[i]] \in TrackInfo /\ t[q[i]].entry <= t[q[i]].last /\ q[i] \in SID
    BY <1>1, <1>4, <1>5
  <2> QED
    BY <1>4, <2>1 DEF Dwell, TrackInfo, ExitRecord
<1>6. new \in Seq(ExitRecord)
  BY <1>2, <1>4, <1>5
<1>7. recentExits \o new \in Seq(ExitRecord)
  BY <1>6
<1> QED
  BY <1>3, <1>7, LastNType, EntryExitAssumption DEF EntryExitAssumption

\* The completed dwell stays a number per identity.
LEMMA AddDwellType ==
  ASSUME IsDict(camDwell, Nat), NEW t, IsDict(t, TrackInfo),
         NEW gone \in SUBSET DOMAIN t,
         \A s \in DOMAIN t : t[s].entry <= t[s].last
  PROVE  IsDict(AddDwell(t, gone), Nat)
<1>1. \A s \in gone : Dwell(t[s]) \in Nat /\ s \in SID
  BY DEF Dwell, TrackInfo, IsDict
<1>2. AddDwell(t, gone) \in [DOMAIN camDwell \cup gone -> Nat]
  BY <1>1 DEF AddDwell, IsDict
<1> QED
  BY <1>1, <1>2 DEF IsDict

\* Alert levels are 0 to 3.
LEMMA LevelType == \A n \in Nat : Level(n) \in 0..3
BY DEF Level

LEMMA InitType == Init => TypeOK
<1> SUFFICES ASSUME Init PROVE TypeOK
  OBVIOUS
<1>1. IsDict(EmptyDict, TrackInfo) /\ IsDict(EmptyDict, Nat)
  BY DEF EmptyDict, IsDict
<1>2. DOMAIN active = {}
  BY DEF Init, EmptyDict
<1> QED
  BY <1>1, <1>2 DEF Init, TypeOK

\* A tick in terms of the table after observe(), which every later proof uses.
LEMMA TickFacts ==
  ASSUME TypeOK, NEW visible \in SUBSET SID, Tick(visible)
  PROVE  LET t    == Observed(visible)
             gone == TimedOut(t)
         IN  /\ IsDict(t, TrackInfo)
             /\ DOMAIN t = DOMAIN active \cup visible
             /\ \A s \in DOMAIN t : t[s].entry <= t[s].last /\ t[s].last <= now
             /\ gone \in SUBSET DOMAIN t
             /\ gone \cap visible = {}
             /\ active' = [s \in DOMAIN t \ gone |-> t[s]]
             /\ camDwell' = AddDwell(t, gone)
             /\ totalExits' = totalExits + Cardinality(gone)
             /\ totalEntries' = totalEntries
                                  + Cardinality(visible \ DOMAIN active)
             /\ Recorded(t, gone)
             /\ UpdateAlert(Cardinality(DOMAIN active'))
             /\ now' = now
<1>1. TimedOut(Observed(visible)) \cap visible = {}
  BY EntryExitAssumption
     DEF TimedOut, Observed, EntryExitAssumption, TypeOK
<1>2. TimedOut(Observed(visible)) \in SUBSET DOMAIN Observed(visible)
  BY DEF TimedOut
<1>3. /\ Sweep(Observed(visible))
      /\ UpdateAlert(Cardinality(DOMAIN active'))
      /\ totalEntries' = totalEntries + Cardinality(visible \ DOMAIN active)
      /\ now' = now
  BY DEF Tick
<1>4. /\ IsDict(Observed(visible), TrackInfo)
      /\ DOMAIN Observed(visible) = DOMAIN active \cup visible
      /\ \A s \in DOMAIN Observed(visible) :
           /\ Observed(visible)[s].entry <= Observed(visible)[s].last
           /\ Observed(visible)[s].last <= now
  BY ObservedType
<1> QED
  BY <1>1, <1>2, <1>3, <1>4 DEF Sweep

LEMMA TickType ==
  ASSUME TypeOK, NEW visible \in SUBSET SID, Tick(visible)
  PROVE  TypeOK'
<1> DEFINE t == Observed(visible)
           gone == TimedOut(t)
<1> HIDE DEF t, gone
<1>1. /\ IsDict(t, TrackInfo)
      /\ \A s \in DOMAIN t : t[s].entry <= t[s].last /\ t[s].last <= now
      /\ gone \in SUBSET DOMAIN t
      /\ active' = [s \in DOMAIN t \ gone |-> t[s]]
      /\ camDwell' = AddDwell(t, gone)
      /\ totalExits' = totalExits + Cardinality(gone)
      /\ totalEntries' = totalEntries + Cardinality(visible \ DOMAIN active)
      /\ Recorded(t, gone)
      /\ UpdateAlert(Cardinality(DOMAIN active'))
      /\ now' = now
  BY TickFacts DEF t, gone
<1>2. /\ IsDict(active', TrackInfo)
      /\ \A s \in DOMAIN active' : /\ active'[s].entry <= active'[s].last
                                   /\ active'[s].last <= now'
  BY <1>1 DEF IsDict
<1>3. IsDict(camDwell', Nat)
  BY <1>1, AddDwellType DEF TypeOK
<1>4. recentExits' \in Seq(ExitRecord)
  BY <1>1, RecordedType DEF TypeOK
<1>5. /\ Cardinality(gone) \in Nat
      /\ Cardinality(visible \ DOMAIN active) \in Nat
      /\ Cardinality(DOMAIN active') \in Nat
  BY <1>1, <1>2, DictFinite DEF IsDict
<1>6. Level(Cardinality(DOMAIN active')) \in 0..3
  BY <1>5, LevelType
<1>7. lastFired' \in 0..3 /\ alert' \in 0..3
  BY <1>1, <1>6 DEF UpdateAlert, NextFired, TypeOK
<1>8. totalEntries' \in Nat /\ totalExits' \in Nat
  BY <1>1, <1>5 DEF TypeOK
<1> QED
  BY <1>1, <1>2, <1>3, <1>4, <1>7, <1>8 DEF TypeOK

LEMMA AdvanceType ==
  ASSUME TypeOK, Advance
  PROVE  TypeOK' /\ now <= now'
<1>1. now' \in Nat /\ now <= now'
  BY EntryExitAssumption DEF Advance, TypeOK, EntryExitAssumption
<1>2. \A s \in DOMAIN active : active[s].last \in Nat
  BY DEF TypeOK, IsDict, TrackInfo
<1> QED
  BY <1>1, <1>2 DEF Advance, TypeOK, IsDict

LEMMA StepType == TypeOK /\ [Next]_vars => TypeOK'
<1> SUFFICES ASSUME TypeOK, [Next]_vars PROVE TypeOK'
  OBVIOUS
<1>1. ASSUME NEW visible \in SUBSET SID, Tick(visible) PROVE TypeOK'
  BY <1>1, TickType
<1>2. CASE Advance
  BY <1>2, AdvanceType
<1>3. CASE UNCHANGED vars
  BY <1>3 DEF vars, TypeOK, IsDict
<1> QED
  BY <1>1, <1>2, <1>3 DEF Next

\* Every variable keeps its type, whatever the constants (entry_exit.py and
\* occupancy.py, the attributes of the two trackers).
THEOREM TypeCorrect == Spec => []TypeOK
BY InitType, StepType, PTL DEF Spec

-----------------------------------------------------------------------------
\* Arrivals from outside add, departures from inside subtract.
LEMMA MoveCardinality ==
  ASSUME NEW D \in SUBSET SID, NEW A \in SUBSET SID, NEW G \in SUBSET D,
         D \cap A = {}
  PROVE  Cardinality((D \cup A) \ G)
           = Cardinality(D) + Cardinality(A) - Cardinality(G)
<1>1. /\ IsFiniteSet(D) /\ IsFiniteSet(A) /\ IsFiniteSet(D \cup A)
      /\ Cardinality(D) \in Nat /\ Cardinality(A) \in Nat
      /\ Cardinality(G) \in Nat
  BY DictFinite
<1>2. Cardinality(D \cup A) = Cardinality(D) + Cardinality(A)
  <2>1. Cardinality(D \cup A)
          = Cardinality(D) + Cardinality(A) - Cardinality(D \cap A)
    BY <1>1, FS_Union
  <2>2. Cardinality(D \cap A) = 0
    BY FS_EmptySet
  <2> QED
    BY <1>1, <2>1, <2>2
<1>3. Cardinality((D \cup A) \ G) = Cardinality(D \cup A) - Cardinality(G)
  <2>1. (D \cup A) \cap G = G
    OBVIOUS
  <2>2. Cardinality((D \cup A) \ G)
          = Cardinality(D \cup A) - Cardinality((D \cup A) \cap G)
    BY <1>1, FS_Difference
  <2> QED
    BY <2>1, <2>2
<1> QED
  BY <1>1, <1>2, <1>3

\* How a tick changes the track table: arrivals enter, departures leave.
LEMMA TickCardinality ==
  ASSUME TypeOK, NEW visible \in SUBSET SID, Tick(visible)
  PROVE  LET arrive == visible \ DOMAIN active
             gone   == TimedOut(Observed(visible))
         IN  /\ gone \subseteq DOMAIN active
             /\ DOMAIN active' = (DOMAIN active \cup arrive) \ gone
             /\ Cardinality(DOMAIN active')
                  = Cardinality(DOMAIN active) + Cardinality(arrive)
                                               - Cardinality(gone)
<1> DEFINE t == Observed(visible)
           gone == TimedOut(t)
<1>1. DOMAIN active \in SUBSET SID
  BY DEF TypeOK, IsDict
<1>2. /\ DOMAIN t = DOMAIN active \cup visible
      /\ gone \in SUBSET DOMAIN t
      /\ gone \cap visible = {}
      /\ active' = [s \in DOMAIN t \ gone |-> t[s]]
  BY TickFacts
<1> HIDE DEF t, gone
<1>3. /\ gone \in SUBSET DOMAIN active
      /\ DOMAIN active' = (DOMAIN active \cup (visible \ DOMAIN active)) \ gone
  BY <1>2
<1>4. Cardinality(DOMAIN active')
        = Cardinality(DOMAIN active) + Cardinality(visible \ DOMAIN active)
                                     - Cardinality(gone)
  BY <1>1, <1>3, MoveCardinality
<1> QED
  BY <1>3, <1>4 DEF gone, t

\* Net_count = Current_occupancy in every payload: the totals and the track
\* table never drift apart (entry_exit.py, net_count and current_occupancy).
THEOREM NetCountCorrect == Spec => []NetCountIsOccupancy
<1>1. Init => NetCountIsOccupancy
  BY FS_EmptySet DEF Init, NetCountIsOccupancy, EmptyDict
<1>2. TypeOK /\ NetCountIsOccupancy /\ [Next]_vars => NetCountIsOccupancy'
  <2> SUFFICES ASSUME TypeOK, NetCountIsOccupancy, [Next]_vars
               PROVE  NetCountIsOccupancy'
    OBVIOUS
  <2>1. ASSUME NEW visible \in SUBSET SID, Tick(visible)
        PROVE  NetCountIsOccupancy'
    <3> DEFINE arrive == visible \ DOMAIN active
               gone   == TimedOut(Observed(visible))
    <3>1. /\ totalEntries' = totalEntries + Cardinality(arrive)
          /\ totalExits' = totalExits + Cardinality(gone)
          /\ gone \subseteq DOMAIN active
      BY <2>1, TickFacts, TickCardinality
    <3>2. Cardinality(DOMAIN active')
            = Cardinality(DOMAIN active) + Cardinality(arrive)
                                         - Cardinality(gone)
      BY <2>1, TickCardinality
    <3>3. /\ Cardinality(arrive) \in Nat
          /\ Cardinality(gone) \in Nat
          /\ Cardinality(DOMAIN active) \in Nat
          /\ totalEntries \in Nat /\ totalExits \in Nat
      BY <3>1, DictFinite DEF TypeOK, IsDict
    <3> HIDE DEF arrive, gone
    <3> QED
      BY <3>1, <3>2, <3>3 DEF NetCountIsOccupancy
  <2>2. CASE Advance
    BY <2>2 DEF Advance, NetCountIsOccupancy
  <2>3. CASE UNCHANGED vars
    BY <2>3 DEF vars, NetCountIsOccupancy
  <2> QED
    BY <2>1, <2>2, <2>3 DEF Next
<1> QED
  BY <1>1, <1>2, TypeCorrect, PTL DEF Spec

\* The instance's copy of Cardinality is the library's.
LEMMA SameCardinality == \A S : HC!Cardinality(S) = Cardinality(S)
BY DEF HC!Cardinality, Cardinality

\* The tracker implements the abstract head count: every tick is one Move,
\* every clock step a stutter (entry_exit.py, observe and sweep).
THEOREM HeadCountRefined == Spec => ImplementsHeadCount
<1>1. Init => HC!Init
  BY DEF Init, HC!Init, EmptyDict
<1>2. TypeOK /\ [Next]_vars => [HC!Next]_(HC!hcVars)
  <2> SUFFICES ASSUME TypeOK, [Next]_vars PROVE [HC!Next]_(HC!hcVars)
    OBVIOUS
  <2>1. ASSUME NEW visible \in SUBSET SID, Tick(visible) PROVE HC!Next
    <3> DEFINE arrive == visible \ DOMAIN active
               gone   == TimedOut(Observed(visible))
    <3>1. /\ totalEntries' = totalEntries + Cardinality(arrive)
          /\ totalExits' = totalExits + Cardinality(gone)
      BY <2>1, TickFacts
    <3>2. /\ gone \subseteq DOMAIN active
          /\ DOMAIN active' = (DOMAIN active \cup arrive) \ gone
      BY <2>1, TickCardinality
    <3>3. arrive \in SUBSET SID /\ gone \in SUBSET SID
      BY <3>2 DEF TypeOK, IsDict
    <3>4. HC!Move(arrive, gone)
      BY <3>1, <3>2, SameCardinality DEF HC!Move
    <3> QED
      BY <3>3, <3>4 DEF HC!Next
  <2>2. CASE Advance
    BY <2>2 DEF Advance, HC!hcVars
  <2>3. CASE UNCHANGED vars
    BY <2>3 DEF vars, HC!hcVars
  <2> QED
    BY <2>1, <2>2, <2>3 DEF Next
<1> QED
  BY <1>1, <1>2, TypeCorrect, PTL DEF Spec, ImplementsHeadCount, HC!Spec

\* Visits of one person on one camera never overlap, so their total, the one
\* in progress included, stays within the time that has passed
\* (entry_exit.py, sweep and cam_visitor_dwell_sec).
THEOREM DwellBounded == Spec => []DwellWithinElapsed
<1>1. Init => DwellWithinElapsed
  BY DEF Init, DwellWithinElapsed, EmptyDict
<1>2. TypeOK /\ DwellWithinElapsed /\ [Next]_vars => DwellWithinElapsed'
  <2> SUFFICES ASSUME TypeOK, DwellWithinElapsed, [Next]_vars, NEW s \in SID
               PROVE  (IF s \in DOMAIN camDwell' THEN camDwell'[s] ELSE 0)
                        + (IF s \in DOMAIN active' THEN now' - active'[s].entry
                           ELSE 0) <= now'
    BY DEF DwellWithinElapsed
  <2>1. /\ now \in Nat
        /\ s \in DOMAIN camDwell => camDwell[s] \in Nat
        /\ s \in DOMAIN active =>
             /\ active[s].entry \in Nat /\ active[s].last \in Nat
             /\ active[s].entry <= active[s].last /\ active[s].last <= now
        /\ (IF s \in DOMAIN camDwell THEN camDwell[s] ELSE 0)
             + (IF s \in DOMAIN active THEN now - active[s].entry ELSE 0) <= now
    BY DEF TypeOK, IsDict, TrackInfo, DwellWithinElapsed
  <2>2. ASSUME NEW visible \in SUBSET SID, Tick(visible)
        PROVE  (IF s \in DOMAIN camDwell' THEN camDwell'[s] ELSE 0)
                 + (IF s \in DOMAIN active' THEN now' - active'[s].entry
                    ELSE 0) <= now'
    <3> DEFINE t == Observed(visible)
               gone == TimedOut(t)
    <3>1. /\ DOMAIN t = DOMAIN active \cup visible
          /\ s \in DOMAIN t => t[s].entry \in Nat /\ t[s].last \in Nat
          /\ s \in DOMAIN t => t[s].entry <= t[s].last /\ t[s].last <= now
          /\ s \in DOMAIN active => t[s].entry = active[s].entry
          /\ s \in DOMAIN t \ DOMAIN active => t[s].entry = now
      <4>1. IsDict(t, TrackInfo)
        BY <2>2, TickFacts
      <4>2. s \in DOMAIN t => t[s] \in TrackInfo
        BY <4>1 DEF IsDict
      <4>3. DOMAIN t = DOMAIN active \cup visible
        BY DEF Observed
      <4>4. /\ s \in DOMAIN active => t[s].entry = active[s].entry
            /\ s \in DOMAIN t \ DOMAIN active => t[s].entry = now
        BY <4>3 DEF Observed
      <4>5. \A x \in DOMAIN t : t[x].entry <= t[x].last /\ t[x].last <= now
        BY <2>2, TickFacts
      <4> QED
        BY <4>2, <4>3, <4>4, <4>5 DEF TrackInfo
    <3>2. /\ gone \in SUBSET DOMAIN t
          /\ active' = [x \in DOMAIN t \ gone |-> t[x]]
          /\ camDwell' = AddDwell(t, gone)
          /\ now' = now
      BY <2>2, TickFacts
    <3> HIDE DEF t, gone
    <3>3. DOMAIN camDwell' = DOMAIN camDwell \cup gone
      BY <3>2 DEF AddDwell
    <3>4. s \in DOMAIN camDwell' =>
            camDwell'[s] = (IF s \in DOMAIN camDwell THEN camDwell[s] ELSE 0)
                             + (IF s \in gone THEN t[s].last - t[s].entry ELSE 0)
      BY <3>2, <3>3 DEF AddDwell, Dwell
    <3>5. CASE s \in gone
      BY <2>1, <3>1, <3>2, <3>3, <3>4, <3>5
    <3>6. CASE s \notin gone
      BY <2>1, <3>1, <3>2, <3>3, <3>4, <3>6
    <3> QED
      BY <3>5, <3>6
  <2>3. CASE Advance
    <3>1. now' \in Nat /\ now <= now'
      BY <2>3, AdvanceType DEF TypeOK
    <3> QED
      BY <2>1, <2>3, <3>1 DEF Advance
  <2>4. CASE UNCHANGED vars
    BY <2>1, <2>4 DEF vars
  <2> QED
    BY <2>2, <2>3, <2>4 DEF Next
<1> QED
  BY <1>1, <1>2, TypeCorrect, PTL DEF Spec

\* Nobody seen within the timeout is dropped and nobody unseen for longer
\* stays (entry_exit.py, the rules of the header).
THEOREM ExitTimingCorrect == Spec => ExitExactlyOnTimeout
<1> DEFINE A == now' = now =>
       /\ \A s \in DOMAIN active :
            now - active[s].last <= ExitTimeout => s \in DOMAIN active'
       /\ \A s \in DOMAIN active' : now - active'[s].last <= ExitTimeout
<1>1. TypeOK /\ [Next]_vars => [A]_vars
  <2> SUFFICES ASSUME TypeOK, Next PROVE A
    OBVIOUS
  <2>1. ASSUME NEW visible \in SUBSET SID, Tick(visible) PROVE A
    <3> DEFINE t == Observed(visible)
    <3>1. /\ DOMAIN t = DOMAIN active \cup visible
          /\ IsDict(t, TrackInfo)
          /\ active' = [s \in DOMAIN t \ TimedOut(t) |-> t[s]]
      BY <2>1, TickFacts
    <3>2. now \in Nat /\ ExitTimeout \in Nat
      BY EntryExitAssumption DEF TypeOK, EntryExitAssumption
    <3>3. \A s \in DOMAIN active :
            t[s].last = (IF s \in visible THEN now ELSE active[s].last)
      BY DEF Observed
    <3>4. \A s \in DOMAIN active : active[s].last \in Nat
      BY DEF TypeOK, IsDict, TrackInfo
    <3> HIDE DEF t
    <3>5. \A s \in DOMAIN t : t[s].last \in Nat
      BY <3>1 DEF IsDict, TrackInfo
    <3>6. \A s \in DOMAIN active :
            now - active[s].last <= ExitTimeout => s \notin TimedOut(t)
      BY <3>2, <3>3, <3>4 DEF TimedOut
    <3>7. \A s \in DOMAIN t \ TimedOut(t) : now - t[s].last <= ExitTimeout
      BY <3>2, <3>5 DEF TimedOut
    <3> QED
      BY <3>1, <3>6, <3>7
  <2>2. CASE Advance
    BY <2>2, EntryExitAssumption DEF Advance, TypeOK, EntryExitAssumption
  <2> QED
    BY <2>1, <2>2 DEF Next
<1> QED
  BY <1>1, TypeCorrect, PTL DEF Spec, ExitExactlyOnTimeout

-----------------------------------------------------------------------------
\* What the alerts rest on: the level fired last is the level of the
\* occupancy in the last payload.
FiredIsCurrent == lastFired = Level(Cardinality(DOMAIN active))

LEMMA EmptyViewIsNormal == AlertRate > 0 => Level(0) = 0
<1> SUFFICES ASSUME AlertRate > 0, Threshold > 0 PROVE ~(100 * 0 >= Threshold * AlertRate)
  BY EntryExitAssumption DEF Level, EntryExitAssumption
<1>1. Threshold * AlertRate > 0
  BY EntryExitAssumption, SMTT(20) DEF EntryExitAssumption
<1> QED
  BY <1>1, EntryExitAssumption DEF EntryExitAssumption

\* For every positive alert rate, an alert is sent exactly on a rising edge
\* of the occupancy level (occupancy.py, header and update).
THEOREM AlertsCorrect == AlertRate > 0 /\ Spec => AlertOnRisingEdge
<1> DEFINE A == now' = now =>
       LET before == Level(Cardinality(DOMAIN active))
           after  == Level(Cardinality(DOMAIN active'))
       IN  alert' = IF after > before THEN after ELSE 0
<1>1. AlertRate > 0 /\ Init => FiredIsCurrent
  BY EmptyViewIsNormal, FS_EmptySet DEF Init, FiredIsCurrent, EmptyDict
<1>2. TypeOK /\ FiredIsCurrent /\ [Next]_vars => FiredIsCurrent' /\ [A]_vars
  <2> SUFFICES ASSUME TypeOK, FiredIsCurrent, [Next]_vars
               PROVE  FiredIsCurrent' /\ [A]_vars
    OBVIOUS
  <2>1. ASSUME NEW visible \in SUBSET SID, Tick(visible)
        PROVE  FiredIsCurrent' /\ A
    <3>1. UpdateAlert(Cardinality(DOMAIN active'))
      BY <2>1 DEF Tick
    <3>2. Cardinality(DOMAIN active') \in Nat
      <4>1. IsDict(active', TrackInfo)
        BY <2>1, TickType DEF TypeOK
      <4> QED
        BY <4>1, DictFinite DEF IsDict
    <3>3. Level(Cardinality(DOMAIN active')) \in 0..3 /\ lastFired \in 0..3
      BY <3>2, LevelType DEF TypeOK
    <3> QED
      BY <3>1, <3>3 DEF UpdateAlert, NextFired, FiredIsCurrent
  <2>2. CASE Advance
    BY <2>2, EntryExitAssumption
       DEF Advance, FiredIsCurrent, TypeOK, EntryExitAssumption
  <2>3. CASE UNCHANGED vars
    BY <2>3 DEF vars, FiredIsCurrent
  <2> QED
    BY <2>1, <2>2, <2>3 DEF Next
<1> QED
  BY <1>1, <1>2, TypeCorrect, PTL DEF Spec, AlertOnRisingEdge

-----------------------------------------------------------------------------
(* Exits reach the payload *)

\* Cutting a list to its last n keeps those n, as far from the end as before.
LEMMA LastNKeeps ==
  ASSUME NEW T, NEW q \in Seq(T), NEW n \in Nat,
         NEW i \in 1..Len(q), Len(q) - i < n
  PROVE  \E j \in 1..Len(LastN(q, n)) :
           /\ LastN(q, n)[j] = q[i]
           /\ Len(LastN(q, n)) - j = Len(q) - i
<1>1. CASE Len(q) <= n
  BY <1>1 DEF LastN
<1>2. CASE Len(q) > n
  <2>1. /\ Len(q) \in Nat /\ Len(q) - n + 1 \in 1..Len(q) + 1
        /\ i - (Len(q) - n) \in 1..n
    BY <1>2
  <2>2. /\ Len(SubSeq(q, Len(q) - n + 1, Len(q))) = n
        /\ SubSeq(q, Len(q) - n + 1, Len(q))[i - (Len(q) - n)] = q[i]
    BY <2>1, SubSeqProperties
  <2>3. LastN(q, n) = SubSeq(q, Len(q) - n + 1, Len(q))
    BY <1>2, <2>1 DEF LastN
  <2> WITNESS i - (Len(q) - n) \in 1..Len(LastN(q, n))
  <2> QED
    BY <2>1, <2>2, <2>3
<1> QED
  BY <1>1, <1>2

\* Of a sweep that records no more than a payload quotes, every exit is quoted.
LEMMA RecordedQuoted ==
  ASSUME NEW t, IsDict(t, TrackInfo), NEW gone \in SUBSET DOMAIN t,
         \A s \in DOMAIN t : t[s].entry <= t[s].last,
         recentExits \in Seq(ExitRecord), Recorded(t, gone),
         Cardinality(gone) <= ReportN, NEW s \in gone
  PROVE  \E j \in DOMAIN ReportedExits' :
           /\ ReportedExits'[j].sid = s
           /\ ReportedExits'[j].time = t[s].last
<1> DEFINE n == Cardinality(gone)
<1>1. n \in Nat /\ ReportN \in Nat /\ RecentCap \in Nat /\ ReportN <= RecentCap
  BY DictFinite, EntryExitAssumption DEF IsDict
<1>2. PICK q \in SweepOrders(t, gone) :
        recentExits' = LastN(recentExits \o
          [i \in DOMAIN q |->
             [sid |-> q[i], dwell |-> Dwell(t[q[i]]), time |-> t[q[i]].last]],
          RecentCap)
  BY DEF Recorded
<1> DEFINE new == [i \in DOMAIN q |->
             [sid |-> q[i], dwell |-> Dwell(t[q[i]]), time |-> t[q[i]].last]]
           all == recentExits \o new
<1>3. DOMAIN q = 1..n
  BY DEF SweepOrders
<1>4. PICK i \in 1..n : q[i] = s
  BY <1>3 DEF SweepOrders
<1>5. new[i].sid = s /\ new[i].time = t[s].last
  BY <1>3, <1>4
<1>6. new \in Seq(ExitRecord) /\ Len(new) = n
  <2>1. ASSUME NEW k \in 1..n PROVE new[k] \in ExitRecord
    <3>1. q[k] \in gone /\ t[q[k]] \in TrackInfo /\ q[k] \in SID
      BY DEF SweepOrders, IsDict
    <3> QED
      BY <1>3, <3>1 DEF Dwell, TrackInfo, ExitRecord
  <2> HIDE DEF n
  <2>2. new \in [1..n -> ExitRecord]
    BY <1>3, <2>1
  <2> HIDE DEF new
  <2> QED
    BY <1>1, <2>2
<1> HIDE DEF n, new
<1>7. /\ all \in Seq(ExitRecord) /\ Len(all) = Len(recentExits) + n
      /\ Len(recentExits) \in Nat
  <2>1. /\ all \in Seq(ExitRecord)
        /\ Len(all) = Len(recentExits) + Len(new)
    BY <1>6, ConcatProperties, Zenon
  <2>2. Len(recentExits) \in Nat
    OBVIOUS
  <2> QED
    BY <1>6, <2>1, <2>2
<1>8. all[Len(recentExits) + i] = new[i]
  <2>1. Len(recentExits) + i \in 1..Len(recentExits) + Len(new)
    BY <1>1, <1>6, <1>7
  <2> QED
    BY <1>1, <1>6, <1>7, <2>1, ConcatProperties
<1> DEFINE p == Len(recentExits) + i
<1> HIDE DEF all
<1>9. recentExits' = LastN(all, RecentCap)
  BY <1>2 DEF all, new
<1>10. recentExits' \in Seq(ExitRecord)
  BY <1>1, <1>7, <1>9, LastNType
<1>11. n <= ReportN
  BY DEF n
<1>12. /\ p \in 1..Len(all) /\ all[p] = new[i]
       /\ Len(all) - p < n /\ Len(all) - p < RecentCap
  BY <1>1, <1>4, <1>7, <1>8, <1>11
<1> HIDE DEF p
<1>13. PICK j \in 1..Len(recentExits') :
         /\ recentExits'[j] = new[i]
         /\ Len(recentExits') - j < n
  BY <1>1, <1>7, <1>9, <1>12, LastNKeeps
<1>14. Len(recentExits') - j < ReportN
  BY <1>1, <1>10, <1>11, <1>13
<1>15. PICK k \in 1..Len(LastN(recentExits', ReportN)) :
         LastN(recentExits', ReportN)[k] = new[i]
  BY <1>1, <1>10, <1>13, <1>14, LastNKeeps
<1>16. DOMAIN LastN(recentExits', ReportN) = 1..Len(LastN(recentExits', ReportN))
  BY <1>1, <1>10, LastNType
<1> QED
  BY <1>5, <1>15, <1>16 DEF ReportedExits

\* A payload quotes every exit of its own tick unless more people left at once
\* than it quotes, however full the list was (recent_exits, _recent_exit_cap).
THEOREM ExitsReportedCorrect == Spec => ExitsReported
<1> DEFINE gone == DOMAIN active \ DOMAIN active'
           A == Cardinality(gone) <= ReportN =>
                  \A s \in gone : \E i \in DOMAIN ReportedExits' :
                    /\ ReportedExits'[i].sid = s
                    /\ ReportedExits'[i].time = active[s].last
<1>1. TypeOK /\ [Next]_vars => [A]_vars
  <2> SUFFICES ASSUME TypeOK, Next PROVE A
    OBVIOUS
  <2>1. ASSUME NEW visible \in SUBSET SID, Tick(visible) PROVE A
    <3> DEFINE t == Observed(visible)
    <3> HIDE DEF t
    <3>1. /\ IsDict(t, TrackInfo)
          /\ DOMAIN t = DOMAIN active \cup visible
          /\ \A s \in DOMAIN t : t[s].entry <= t[s].last
          /\ TimedOut(t) \in SUBSET DOMAIN t
          /\ TimedOut(t) \cap visible = {}
          /\ DOMAIN active' = DOMAIN t \ TimedOut(t)
          /\ Recorded(t, TimedOut(t))
      BY <2>1, TickFacts DEF t
    <3>2. gone = TimedOut(t)
      BY <3>1
    <3>3. \A s \in gone : t[s].last = active[s].last
      BY <3>1, <3>2 DEF t, Observed
    <3>4. SUFFICES ASSUME Cardinality(TimedOut(t)) <= ReportN,
                          NEW s \in TimedOut(t)
                   PROVE  \E i \in DOMAIN ReportedExits' :
                            /\ ReportedExits'[i].sid = s
                            /\ ReportedExits'[i].time = active[s].last
      BY <3>2
    <3>5. recentExits \in Seq(ExitRecord)
      BY DEF TypeOK
    <3>6. \E i \in DOMAIN ReportedExits' :
            /\ ReportedExits'[i].sid = s
            /\ ReportedExits'[i].time = t[s].last
      BY <3>1, <3>4, <3>5, RecordedQuoted
    <3> QED
      BY <3>2, <3>3, <3>4, <3>6
  <2>2. CASE Advance
    <3>1. gone = {}
      BY <2>2 DEF Advance
    <3> QED
      BY <3>1
  <2> QED
    BY <2>1, <2>2 DEF Next
<1> QED
  BY <1>1, TypeCorrect, PTL DEF Spec, ExitsReported

=============================================================================
