----------------------------- MODULE DwellLedger -----------------------------
(***************************************************************************)
(* How long one person has been seen across the cameras of an              *)
(* organisation: the completed visits every camera adds to the shared      *)
(* ledger (OrgResources.dwell_lifetime_sec, under dwell_lock), and the     *)
(* figure a camera reports, the ledger plus the visits in progress on the  *)
(* cameras of its session (EntryExitTracker.lifetime_dwell_sec,            *)
(* PeopleCountingSession._peer_active_for).                                *)
(*                                                                         *)
(* The ledger is locked for each access but the cameras' track tables are  *)
(* read without a lock, so a report is put together step by step while     *)
(* other cameras observe and sweep.  People do not interact here, so the   *)
(* model follows one of them; Entry/exit rules are those of EntryExit.     *)
(***************************************************************************)
EXTENDS Integers, FiniteSets, Functions

CONSTANTS Cam,
          SessionOf,    \* the connection each camera streams for
          ExitTimeout,
          MaxTime       \* bound on the clock

ASSUME DwellAssumption ==
  /\ IsFiniteSet(Cam)
  /\ ExitTimeout \in Nat /\ MaxTime \in Nat
  /\ DOMAIN SessionOf = Cam

VARIABLES now,          \* the wall clock
          streaming,    \* the cameras in their session's _workers
          pc,           \* where each camera's thread is in its tick
          time,         \* the clock as the thread read it for this tick
          inside,       \* is the person in _active?
          entry, last,  \* their entry and last-seen times there
          ledger,       \* dwell_lifetime_sec of the person
          camDwell,     \* _cam_lifetime_dwell_sec of the person
          total,        \* the figure lifetime_dwell_sec is adding up
          peers,        \* the workers it has yet to look at
          quiet         \* nothing it reads has changed since it began

visit == <<inside, entry, last>>
reading == <<total, peers>>
vars == <<now, streaming, pc, time, visit, ledger, camDwell, reading, quiet>>

NonNeg(n) == IF n < 0 THEN 0 ELSE n
Elapsed(c, p) == IF inside[p] THEN NonNeg(time[c] - entry[p]) ELSE 0
OnTime(c) == time[c] - ExitTimeout <= last[c]

Init ==
  /\ now = 0
  /\ streaming = Cam
  /\ pc = [c \in Cam |-> "idle"]
  /\ time = [c \in Cam |-> 0]
  /\ inside = [c \in Cam |-> FALSE]
  /\ entry = [c \in Cam |-> 0]
  /\ last = [c \in Cam |-> 0]
  /\ ledger = 0
  /\ camDwell = [c \in Cam |-> 0]
  /\ total = [c \in Cam |-> 0]
  /\ peers = [c \in Cam |-> {}]
  /\ quiet = [c \in Cam |-> TRUE]

\* What some camera reads has changed.
Disturbed == [c \in Cam |-> quiet[c] /\ pc[c] \notin {"own", "peers"}]
Disturb == quiet' = Disturbed

Advance ==
  /\ now < MaxTime
  /\ now' = now + 1
  /\ UNCHANGED <<streaming, pc, time, visit, ledger, camDwell, reading, quiet>>

\* stop_camera(): the camera is no peer any more; its thread finishes the tick
\* it is in, and the visit in progress is never completed.
Stop(c) ==
  /\ c \in streaming
  /\ streaming' = streaming \ {c}
  /\ Disturb
  /\ UNCHANGED <<now, pc, time, visit, ledger, camDwell, reading>>

-----------------------------------------------------------------------------
(* A tick in which the person is in view. *)

\* observe(): a new visit, or the running one is prolonged.
Observe(c) ==
  /\ pc[c] = "idle" /\ c \in streaming
  /\ time' = [time EXCEPT ![c] = now]
  /\ inside' = [inside EXCEPT ![c] = TRUE]
  /\ entry' = [entry EXCEPT ![c] = IF inside[c] THEN @ ELSE now]
  /\ last' = [last EXCEPT ![c] = now]
  /\ pc' = [pc EXCEPT ![c] = "ledger"]
  /\ quiet' = IF inside[c] THEN quiet ELSE Disturbed
  /\ UNCHANGED <<now, streaming, ledger, camDwell, reading>>

\* The completed visits, read under the lock.
ReadLedger(c) ==
  /\ pc[c] = "ledger"
  /\ total' = [total EXCEPT ![c] = ledger]
  /\ pc' = [pc EXCEPT ![c] = "own"]
  /\ UNCHANGED <<now, streaming, time, visit, ledger, camDwell, peers, quiet>>

\* Seeded fault: the caller is among its own peers.
PeersAndSelf(c) == {p \in streaming : SessionOf[p] = SessionOf[c]}

\* _peer_active_for(): the session's other workers, listed once.
Peers(c) == {p \in streaming \ {c} : SessionOf[p] = SessionOf[c]}

\* The visit in progress here, then the list of the other workers.
AddOwn(c) ==
  /\ pc[c] = "own"
  /\ total' = [total EXCEPT ![c] = @ + Elapsed(c, c)]
  /\ peers' = [peers EXCEPT ![c] = Peers(c)]
  /\ pc' = [pc EXCEPT ![c] = "peers"]
  /\ UNCHANGED <<now, streaming, time, visit, ledger, camDwell, quiet>>

\* Seeded fault: a visit that began after this tick counts negative.
AddPeerSigned(c, p) ==
  /\ pc[c] = "peers" /\ p \in peers[c]
  /\ total' = [total EXCEPT ![c] =
                 @ + IF inside[p] THEN time[c] - entry[p] ELSE 0]
  /\ peers' = [peers EXCEPT ![c] = @ \ {p}]
  /\ UNCHANGED <<now, streaming, pc, time, visit, ledger, camDwell, quiet>>

\* One other worker's track table is read, with no lock.
AddPeer(c, p) ==
  /\ pc[c] = "peers" /\ p \in peers[c]
  /\ total' = [total EXCEPT ![c] = @ + Elapsed(c, p)]
  /\ peers' = [peers EXCEPT ![c] = @ \ {p}]
  /\ UNCHANGED <<now, streaming, pc, time, visit, ledger, camDwell, quiet>>

Reported(c) == pc[c] = "peers" /\ peers[c] = {}

\* The figure goes into the payload; the tick goes on to sweep.
Report(c) ==
  /\ Reported(c)
  /\ total' = [total EXCEPT ![c] = 0]
  /\ quiet' = [quiet EXCEPT ![c] = TRUE]
  /\ pc' = [pc EXCEPT ![c] = "sweep"]
  /\ UNCHANGED <<now, streaming, time, visit, ledger, camDwell, peers>>

\* A tick in which the person is not in view goes straight to the sweep.
Unseen(c) ==
  /\ pc[c] = "idle" /\ c \in streaming
  /\ time' = [time EXCEPT ![c] = now]
  /\ pc' = [pc EXCEPT ![c] = "sweep"]
  /\ UNCHANGED <<now, streaming, visit, ledger, camDwell, reading, quiet>>

-----------------------------------------------------------------------------
(* sweep() *)

\* The thread's own reading of the clock is not used after the tick.
TickOver(c) ==
  /\ pc' = [pc EXCEPT ![c] = "idle"]
  /\ time' = [time EXCEPT ![c] = 0]

SweepNothing(c) ==
  /\ pc[c] = "sweep"
  /\ ~inside[c] \/ OnTime(c)
  /\ TickOver(c)
  /\ UNCHANGED <<now, streaming, visit, ledger, camDwell, reading, quiet>>

\* Seeded fault: the ledger is set to this camera's own total.
CreditOverwrites(c) ==
  /\ pc[c] = "sweep" /\ inside[c] /\ ~OnTime(c)
  /\ ledger' = camDwell[c] + last[c] - entry[c]
  /\ pc' = [pc EXCEPT ![c] = "credited"]
  /\ Disturb
  /\ UNCHANGED <<now, streaming, time, visit, camDwell, reading>>

\* The completed visit is added to the ledger, under the lock.
Credit(c) ==
  /\ pc[c] = "sweep" /\ inside[c] /\ ~OnTime(c)
  /\ ledger' = ledger + NonNeg(last[c] - entry[c])
  /\ pc' = [pc EXCEPT ![c] = "credited"]
  /\ Disturb
  /\ UNCHANGED <<now, streaming, time, visit, camDwell, reading>>

\* Then to the camera's own total, and the person leaves the track table.
Drop(c) ==
  /\ pc[c] = "credited"
  /\ camDwell' = [camDwell EXCEPT ![c] = @ + NonNeg(last[c] - entry[c])]
  /\ inside' = [inside EXCEPT ![c] = FALSE]
  /\ entry' = [entry EXCEPT ![c] = 0]
  /\ last' = [last EXCEPT ![c] = 0]
  /\ TickOver(c)
  /\ Disturb
  /\ UNCHANGED <<now, streaming, ledger, reading>>

Next ==
  \/ Advance
  \/ \E c \in Cam :
       \/ Stop(c) \/ Observe(c) \/ Unseen(c)
       \/ ReadLedger(c) \/ AddOwn(c) \/ Report(c)
       \/ \E p \in Cam : AddPeer(c, p)
       \/ SweepNothing(c) \/ Credit(c) \/ Drop(c)

Spec == Init /\ [][Next]_vars

-----------------------------------------------------------------------------
(* Properties *)

TypeOK ==
  /\ now \in 0..MaxTime
  /\ streaming \subseteq Cam
  /\ pc \in [Cam -> {"idle", "ledger", "own", "peers", "sweep", "credited"}]
  /\ time \in [Cam -> 0..now]
  /\ inside \in [Cam -> BOOLEAN]
  /\ entry \in [Cam -> 0..now] /\ last \in [Cam -> 0..now]
  /\ \A c \in Cam : entry[c] <= last[c]
  /\ ledger \in Nat
  /\ camDwell \in [Cam -> Nat]
  /\ total \in [Cam -> Nat]
  /\ peers \in [Cam -> SUBSET Cam]
  /\ quiet \in [Cam -> BOOLEAN]

Visits ==
  [c \in Cam |->
     camDwell[c] + IF pc[c] = "credited" THEN last[c] - entry[c] ELSE 0]

\* The shared ledger holds the completed visits of every camera once each:
\* none is lost to another camera's sweep and none is added twice (sweep,
\* dwell_lock).
LedgerConserved == ledger = SumFunctionOnSet(Visits, Cam)

\* The visits in progress as camera c sees them, and the cameras of its session.
InProgress(c) == [p \in Cam |-> Elapsed(c, p)]
Session(c) == {p \in streaming : SessionOf[p] = SessionOf[c]}

\* Every visit in progress is on a camera of c's session, and none is half-way
\* through the sweep that completes it.
AllInSession(c) ==
  \A p \in streaming : inside[p] => p \in Session(c) /\ pc[p] # "credited"

\* "The global cross-camera total: completed visits anywhere + in-progress visits
\* on every camera that currently sees the SID" (lifetime_dwell_sec), each counted
\* once and none negative.  A report is that total over all the cameras of the
\* organisation if nothing it reads changes while it is put together and no
\* camera of another connection sees the person.  If one does, the code leaves
\* its visit out, whatever the comment says (_peer_active_for asks the workers
\* of its own session), and a visit being swept is counted twice for a moment.
QuietReportExact ==
  \A c \in streaming :
    Reported(c) /\ quiet[c] /\ AllInSession(c) =>
      total[c] = ledger + SumFunctionOnSet(InProgress(c), streaming)

\* Whatever other cameras do meanwhile, a camera never reports less than it has
\* seen itself: "re-entries accumulate instead of resetting".
ReportCoversOwnCamera ==
  \A c \in Cam : Reported(c) => total[c] >= camDwell[c] + Elapsed(c, c)
=============================================================================
