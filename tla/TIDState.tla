------------------------------ MODULE TIDState ------------------------------
(***************************************************************************)
(* One camera's stable track ids: TIDStateManager (state.py) as the worker *)
(* drives it, remap_tids at the start of a frame and forget at its end.    *)
(*                                                                         *)
(* The tracker numbers people with raw ids and may renumber someone it     *)
(* lost for a moment; a stable id carries the per-person state (votes,     *)
(* embeddings, lock) across such a renumbering.  Boxes are members of a    *)
(* set with a given overlap; the overlap function itself is arithmetic on  *)
(* coordinates and is a constant here.                                     *)
(***************************************************************************)
EXTENDS Integers, FiniteSets

CONSTANTS Raw,          \* raw tracker ids
          Box,          \* detection boxes
          IoU(_, _),    \* overlap of two boxes, in percent
          RecoverThr,   \* tid_recover_iou_threshold, in percent
          MaxMissing,   \* tid_recover_max_missing_frames
          MaxTid        \* bound on the stable ids: a frame may not pass it

ASSUME TIDStateAssumption ==
  /\ MaxTid \in Nat
  /\ Raw \in SUBSET (1..MaxTid)
  /\ RecoverThr \in Int
  /\ MaxMissing \in Nat
  /\ \A a, b \in Box : IoU(a, b) \in 0..100

VARIABLES states,       \* keys of _states
          rawToStable,  \* _raw_to_stable
          lastBox,      \* _last_bbox
          missing,      \* _missing
          nextStable,   \* _next_stable_tid
          holder        \* history: the raw id a track was last seen under

vars == <<states, rawToStable, lastBox, missing, nextStable, holder>>

Tid == 1..MaxTid
EmptyDict == [t \in {} |-> 0]

Injective(f) == \A x, y \in DOMAIN f : f[x] = f[y] => x = y
Values(f) == {f[x] : x \in DOMAIN f}

-----------------------------------------------------------------------------
(* remap_tids *)

\* Step 1: raw ids seen in the last non-empty frame keep their stable id;
\* the mapping is one-to-one (StableDistinct), so no two claim the same id.
Kept(dets) ==
  [r \in DOMAIN dets \cap DOMAIN rawToStable |-> rawToStable[r]]

\* Seeded fault: a track is a candidate although it is held in this frame.
CandidatesHeld(held) ==
  {t \in states : missing[t] <= MaxMissing}

\* Step 2: tracks missed for a few frames and not held by anyone kept.
Candidates(held) ==
  {t \in states \ held : missing[t] \in 1..MaxMissing}

Unresolved(dets) == DOMAIN dets \ DOMAIN rawToStable

Pairs(dets, cand) ==
  IF RecoverThr <= 0 THEN {}
  ELSE {p \in Unresolved(dets) \X cand :
          IoU(dets[p[1]], lastBox[p[2]]) >= RecoverThr}

Overlap(dets, p) == IoU(dets[p[1]], lastBox[p[2]])
Clash(p, q) == (p[1] = q[1]) # (p[2] = q[2])

\* The recoveries a walk over the pairs by falling overlap can produce: no
\* two clash, and each pair passed over clashes with one taken before it.
\* Equal overlaps come in any order.
Recoveries(dets, pairs) ==
  {M \in SUBSET pairs :
     /\ \A p, q \in M : ~Clash(p, q)
     /\ \A p \in pairs \ M :
          \E q \in M : /\ Clash(p, q)
                       /\ Overlap(dets, q) >= Overlap(dets, p)}

\* _new_stable_tid: the first id from the counter on that is neither used in
\* this frame nor known.
IsFreshTid(t, used) ==
  /\ t >= nextStable
  /\ t \notin used \cup states
  /\ nextStable..t-1 \subseteq used \cup states

\* Seeded fault: the raw id is kept although another detection holds it.
NumbersKeepRaw(rest, taken) == {[r \in rest |-> r]}

\* Step 3: the rest, one after the other in some order, keep their raw id
\* unless it is taken, and otherwise get a fresh one.
Numbers(rest, taken) ==
  {f \in [rest -> Tid] :
     \E pos \in [rest -> 1..Cardinality(rest)] :
       /\ Injective(pos)
       /\ \A r \in rest :
            LET used == taken \cup {f[q] : q \in {q \in rest : pos[q] < pos[r]}}
            IN  IF r \in used THEN IsFreshTid(f[r], used) ELSE f[r] = r}

\* The result of the three steps: kept ids, recoveries M and numbers f.
Merged(dets, M, f) ==
  [r \in DOMAIN dets |->
     IF r \in DOMAIN Kept(dets) THEN Kept(dets)[r]
     ELSE IF r \in DOMAIN f THEN f[r]
     ELSE CHOOSE t \in states : <<r, t>> \in M]

\* remap_tids: the possible results for the detections dets.
Remaps(dets) ==
  LET held == Values(Kept(dets))
      Rest(M) == Unresolved(dets) \ {p[1] : p \in M}
      Used(M) == held \cup {p[2] : p \in M}
  IN  UNION {{Merged(dets, M, f) : f \in Numbers(Rest(M), Used(M))} :
             M \in Recoveries(dets, Pairs(dets, Candidates(held)))}

-----------------------------------------------------------------------------
(* get and forget *)

\* Seeded fault: the counter is not moved past the ids of the frame.
ClaimedStale(n, alive) == n = nextStable

\* get for every tid of the frame: n is the counter after it has been moved
\* just past every id of the frame.
Claimed(n, alive) ==
  /\ n >= nextStable
  /\ \A t \in alive : t < n

\* The tracks forget drops: missed for more than MaxMissing frames running.
Expired(alive) == {t \in states \ alive : missing[t] + 1 > MaxMissing}

Forget(alive, box) ==
  /\ states' = (states \cup alive) \ Expired(alive)
  /\ missing' = [t \in states' |-> IF t \in alive THEN 0 ELSE missing[t] + 1]
  /\ lastBox' = [t \in states' |-> IF t \in alive THEN box[t] ELSE lastBox[t]]

-----------------------------------------------------------------------------
Init ==
  /\ states = {}
  /\ rawToStable = EmptyDict
  /\ lastBox = EmptyDict
  /\ missing = EmptyDict
  /\ nextStable = 1
  /\ holder = EmptyDict

\* The raw id under which track t is seen.
RawOf(stable, t) == CHOOSE r \in DOMAIN stable : stable[r] = t

\* Seeded fault: mappings of people no longer in view are not cleared.
AppliedStale(dets, stable) ==
  LET alive == Values(stable) IN
  /\ rawToStable' = [r \in DOMAIN stable \cup DOMAIN rawToStable |->
                       IF r \in DOMAIN stable THEN stable[r] ELSE rawToStable[r]]
  /\ \E n \in {nextStable} \cup {t + 1 : t \in alive} :
       Claimed(n, alive) /\ nextStable' = n
  /\ Forget(alive, [t \in alive |-> dets[RawOf(stable, t)]])
  /\ holder' = [t \in states' |->
                  IF t \in alive THEN RawOf(stable, t) ELSE holder[t]]

\* The frame's ids are in use: the counter passes them, the boxes of the
\* people in view are noted, tracks unseen for too long are forgotten.
Applied(dets, stable) ==
  LET alive == Values(stable) IN
  /\ rawToStable' = stable
  /\ \E n \in {nextStable} \cup {t + 1 : t \in alive} :
       Claimed(n, alive) /\ nextStable' = n
  /\ Forget(alive, [t \in alive |-> dets[RawOf(stable, t)]])
  /\ holder' = [t \in states' |->
                  IF t \in alive THEN RawOf(stable, t) ELSE holder[t]]

\* A frame with detections dets, a function from raw ids to boxes.
Frame(dets) == \E stable \in Remaps(dets) : Applied(dets, stable)

\* A frame without detections skips remap_tids, so the last mapping stays.
EmptyFrame ==
  /\ Forget({}, EmptyDict)
  /\ holder' = [t \in states' |-> holder[t]]
  /\ UNCHANGED <<rawToStable, nextStable>>

Next ==
  \/ \E R \in SUBSET Raw \ {{}} : \E dets \in [R -> Box] : Frame(dets)
  \/ EmptyFrame

Spec == Init /\ [][Next]_vars

-----------------------------------------------------------------------------
\* The four tables are in step: every known track has a box, a miss count of
\* at most MaxMissing and a holder, and the counter is above every id handed
\* out, so that a fresh id never lands on a known track.
TypeOK ==
  /\ states \in SUBSET Tid
  /\ DOMAIN rawToStable \in SUBSET Raw
  /\ rawToStable \in [DOMAIN rawToStable -> Tid]
  /\ lastBox \in [states -> Box]
  /\ missing \in [states -> 0..MaxMissing]
  /\ holder \in [states -> Raw]
  /\ nextStable \in 1..MaxTid + 1
  /\ \A t \in states \cup Values(rawToStable) : t < nextStable

\* No two people of a frame share a stable id, and with it votes, embeddings
\* and lock (remap_tids: the taken set across its three steps).
StableDistinct == Injective(rawToStable)

\* The raw-to-stable mapping outlives empty frames, but never points at a
\* track that someone else holds by now (an empty frame skips remap_tids).
MappingCurrent ==
  \A r \in DOMAIN rawToStable :
    rawToStable[r] \in states => holder[rawToStable[r]] = r

\* The state of a known track passes to another raw id only by overlap with
\* its last box after a short loss, or because the newcomer's raw id happens
\* to be its number (remap_tids, steps 2 and 3).
StateHandover ==
  [][\A r \in DOMAIN rawToStable' :
       LET t == rawToStable'[r] IN
       t \in states \cap states' /\ holder'[t] = r /\ holder[t] # r =>
         \/ missing[t] \in 1..MaxMissing /\ IoU(lastBox'[t], lastBox[t]) >= RecoverThr
         \/ t = r]_vars

\* A track's state survives exactly MaxMissing missed frames in a row: it is
\* dropped at the next one and not before (forget; config.yaml, keep track
\* state alive for this many missed frames).
RetiredOnTime ==
  [][\A t \in states :
       IF t \in states' THEN missing'[t] \in {0, missing[t] + 1}
       ELSE missing[t] = MaxMissing]_vars

=============================================================================
