------------------------------ MODULE EntryExit ------------------------------
(***************************************************************************)
(* One camera's head count: EntryExitTracker (entry_exit.py) driven by the *)
(* worker's processing tick (people_counting_runner.py), with the          *)
(* OccupancyTracker (occupancy.py) that turns the count into alerts.       *)
(*                                                                         *)
(* A tick is one pass of the worker loop that processes a frame: observe   *)
(* every identified person, sweep the ones unseen for too long, update the *)
(* alert level.  The tracker belongs to one thread, so a tick is one step. *)
(* Times are whole units of the wall clock, which is taken not to go back. *)
(***************************************************************************)
EXTENDS Integers, FiniteSets, Sequences

CONSTANTS SID,          \* global identities
          ExitTimeout,  \* exit_timeout_sec
          Threshold,    \* occupancy threshold; 0 switches alerts off
          AlertRate,    \* alert_rate, in percent
          RecentCap,    \* _recent_exit_cap (32 in the code)
          ReportN,      \* exits quoted in a payload (10 in the code)
          MaxTime       \* bound on the clock

ASSUME EntryExitAssumption ==
  /\ IsFiniteSet(SID)
  /\ ExitTimeout \in Nat
  /\ Threshold \in Nat
  /\ AlertRate \in 0..100
  /\ ReportN \in Nat \ {0}
  /\ RecentCap \in Nat
  /\ ReportN <= RecentCap
  /\ MaxTime \in Nat

VARIABLES now,          \* the clock the worker reads once per tick
          active,       \* _active: identity -> entry and last-seen times
          totalEntries,
          totalExits,
          camDwell,     \* _cam_lifetime_dwell_sec: completed dwell here
          recentExits,  \* _recent_exits: the last exits, oldest first
          lastFired,    \* _last_fired_level
          alert         \* alert level in the last payload, 0 for none

vars == <<now, active, totalEntries, totalExits, camDwell, recentExits,
          lastFired, alert>>

TrackInfo == [entry : Nat, last : Nat]
ExitRecord == [sid : SID, dwell : Nat, time : Nat]

\* f is a dict from some identities to members of T.
IsDict(f, T) == DOMAIN f \in SUBSET SID /\ f \in [DOMAIN f -> T]
EmptyDict == [s \in {} |-> 0]

-----------------------------------------------------------------------------
(* EntryExitTracker *)

\* Seeded fault: a sighting refreshes the entry time, not the last-seen time.
ObservedSwapped(visible) ==
  [s \in DOMAIN active \cup visible |->
     [entry |-> IF s \in visible THEN now ELSE active[s].entry,
      last  |-> IF s \in DOMAIN active THEN active[s].last ELSE now]]

\* observe() for every identified person of the frame.
Observed(visible) ==
  [s \in DOMAIN active \cup visible |->
     [entry |-> IF s \in DOMAIN active THEN active[s].entry ELSE now,
      last  |-> IF s \in visible THEN now ELSE active[s].last]]

\* Seeded fault: off by one at the timeout.
TimedOutEarly(t) == {s \in DOMAIN t : t[s].last <= now - ExitTimeout}

\* The identities sweep() drops from the track table t.
TimedOut(t) == {s \in DOMAIN t : t[s].last < now - ExitTimeout}

Dwell(info) == info.last - info.entry

\* sweep() walks the dict, i.e. in order of entry; equal times in any order.
SweepOrders(t, gone) ==
  {q \in [1..Cardinality(gone) -> gone] :
     /\ \A s \in gone : \E i \in DOMAIN q : q[i] = s
     /\ \A i, j \in DOMAIN q : i < j => t[q[i]].entry <= t[q[j]].entry}

LastN(q, n) == IF Len(q) <= n THEN q ELSE SubSeq(q, Len(q) - n + 1, Len(q))

\* Seeded fault: the oldest exits are quoted instead of the newest.
ReportedOldest == [i \in DOMAIN recentExits \cap 1..ReportN |-> recentExits[i]]

\* recent_exits(10): what the payload quotes.
ReportedExits == LastN(recentExits, ReportN)

\* One completed visit is added to the per-camera dwell of each leaver.
AddDwell(t, gone) ==
  [s \in DOMAIN camDwell \cup gone |->
     (IF s \in DOMAIN camDwell THEN camDwell[s] ELSE 0)
       + (IF s \in gone THEN Dwell(t[s]) ELSE 0)]

Recorded(t, gone) ==
  \E q \in SweepOrders(t, gone) :
    recentExits' = LastN(recentExits \o
      [i \in DOMAIN q |->
         [sid |-> q[i], dwell |-> Dwell(t[q[i]]), time |-> t[q[i]].last]],
      RecentCap)

Sweep(t) ==
  LET gone == TimedOut(t) IN
  /\ active' = [s \in DOMAIN t \ gone |-> t[s]]
  /\ totalExits' = totalExits + Cardinality(gone)
  /\ camDwell' = AddDwell(t, gone)
  /\ Recorded(t, gone)

-----------------------------------------------------------------------------
(* OccupancyTracker *)

\* 0 normal, 1 approaching, 2 at capacity, 3 over capacity.
Level(n) ==
  IF Threshold = 0 THEN 0
  ELSE IF n > Threshold THEN 3
  ELSE IF n = Threshold THEN 2
  ELSE IF 100 * n >= Threshold * AlertRate THEN 1
  ELSE 0

\* Seeded fault: the fired level never comes down again.
NextFiredNoDecay(level) == IF level > lastFired THEN level ELSE lastFired

\* A drop lowers the fired level, so that the next rise fires again.
NextFired(level) ==
  IF level < lastFired \/ level > lastFired THEN level ELSE lastFired

UpdateAlert(n) ==
  /\ lastFired' = NextFired(Level(n))
  /\ alert' = IF Level(n) > lastFired THEN Level(n) ELSE 0

-----------------------------------------------------------------------------
Init ==
  /\ now = 0
  /\ active = EmptyDict
  /\ totalEntries = 0
  /\ totalExits = 0
  /\ camDwell = EmptyDict
  /\ recentExits = <<>>
  /\ lastFired = 0
  /\ alert = 0

\* Seeded fault: every sighting counts as an entry.
TickRecounts(visible) ==
  /\ totalEntries' = totalEntries + Cardinality(visible)
  /\ Sweep(Observed(visible))
  /\ UpdateAlert(Cardinality(DOMAIN active'))
  /\ UNCHANGED now

\* Seeded fault: sweep before observe, so that someone who comes back after
\* a long absence leaves and enters in one tick.
TickSweepFirst(visible) ==
  LET stay == DOMAIN active \ TimedOut(active) IN
  /\ totalEntries' = totalEntries + Cardinality(visible \ stay)
  /\ totalExits' = totalExits + Cardinality(TimedOut(active))
  /\ active' = [s \in stay \cup visible |->
                  IF s \in visible \ stay THEN [entry |-> now, last |-> now]
                  ELSE Observed(visible)[s]]
  /\ UNCHANGED <<now, camDwell, recentExits, lastFired, alert>>

\* One processed frame in which exactly the people in visible are identified.
Tick(visible) ==
  /\ totalEntries' = totalEntries + Cardinality(visible \ DOMAIN active)
  /\ Sweep(Observed(visible))
  /\ UpdateAlert(Cardinality(DOMAIN active'))
  /\ UNCHANGED now

Advance ==
  /\ now < MaxTime
  /\ \E t \in now+1..MaxTime : now' = t
  /\ UNCHANGED <<active, totalEntries, totalExits, camDwell, recentExits,
                 lastFired, alert>>

Next ==
  \/ \E visible \in SUBSET SID : Tick(visible)
  \/ Advance

Spec == Init /\ [][Next]_vars

-----------------------------------------------------------------------------
\* Every variable has the shape the tracker's attributes have, and an
\* identity never has a last sighting before its entry or in the future.
TypeOK ==
  /\ now \in Nat
  /\ IsDict(active, TrackInfo)
  /\ \A s \in DOMAIN active : /\ active[s].entry <= active[s].last
                              /\ active[s].last <= now
  /\ totalEntries \in Nat
  /\ totalExits \in Nat
  /\ IsDict(camDwell, Nat)
  /\ recentExits \in Seq(ExitRecord)
  /\ lastFired \in 0..3
  /\ alert \in 0..3

\* The three numbers of a payload agree: Net_count, computed from the two
\* totals, is always Current_occupancy, the size of the track table
\* (entry_exit.py, current_occupancy and net_count).
NetCountIsOccupancy == totalEntries - totalExits = Cardinality(DOMAIN active)

\* Completed visits of one identity on one camera do not overlap each other
\* or the visit in progress: its dwell, in-progress part included, never
\* exceeds the time that has passed (cam_visitor_dwell_sec).
DwellWithinElapsed ==
  \A s \in SID :
    (IF s \in DOMAIN camDwell THEN camDwell[s] ELSE 0)
      + (IF s \in DOMAIN active THEN now - active[s].entry ELSE 0) <= now

\* After a tick the people inside are exactly those seen within the timeout:
\* nobody visible or only briefly lost is dropped, nobody overstays
\* (entry_exit.py, rules of the header, sweep after observe in one tick).
ExitExactlyOnTimeout ==
  [][now' = now =>
       /\ \A s \in DOMAIN active :
            now - active[s].last <= ExitTimeout => s \in DOMAIN active'
       /\ \A s \in DOMAIN active' : now - active'[s].last <= ExitTimeout]_vars

\* A payload quotes every exit of its own tick, as long as no more people
\* leave at once than a payload quotes (runner: recent_exits(10)).
ExitsReported ==
  [][LET gone == DOMAIN active \ DOMAIN active' IN
       Cardinality(gone) <= ReportN =>
         \A s \in gone : \E i \in DOMAIN ReportedExits' :
           /\ ReportedExits'[i].sid = s
           /\ ReportedExits'[i].time = active[s].last]_vars

\* An alert is sent exactly when the occupancy level rises from one payload
\* to the next, at the level reached; staying at or falling to a level sends
\* none and a later rise to it fires again (occupancy.py, header).  The
\* statement needs level 0 for an empty view, i.e. AlertRate above 0.
AlertOnRisingEdge ==
  [][now' = now =>
       LET before == Level(Cardinality(DOMAIN active))
           after  == Level(Cardinality(DOMAIN active'))
       IN  alert' = IF after > before THEN after ELSE 0]_vars

-----------------------------------------------------------------------------
HC == INSTANCE HeadCount WITH inside  <- DOMAIN active,
                              entered <- totalEntries,
                              left    <- totalExits

\* The tracker implements the head count: within a tick nobody is counted
\* both in and out, no exit is counted for someone who never entered.
ImplementsHeadCount == HC!Spec

=============================================================================
