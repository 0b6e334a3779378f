------------------------------ MODULE Identity ------------------------------
(***************************************************************************)
(* Who is who: the per-track decision of processor.py (process_master,     *)
(* process_master_roi, process_slave), the shared SIDStore (store.py) and  *)
(* the per-frame conflict resolution of the people-counting worker.        *)
(*                                                                         *)
(* Each camera has a thread that takes one frame after the other.  The     *)
(* cameras share the store without a lock, so a search, the allocation of  *)
(* a SID, each upsert and the pruning are steps of their own.              *)
(*                                                                         *)
(* An embedding is abstracted to the person it shows and whether the crop  *)
(* was free of overlap.  The recogniser is taken to be ideal on clean      *)
(* crops of a person the gallery holds; an overlapped crop may miss; two   *)
(* people who look alike may be taken for each other.                      *)
(*                                                                         *)
(* Four callers share this step and do not call it alike: the people-      *)
(* counting worker tells it which crops overlap and resolves conflicts;    *)
(* reid_runner.py, hls_session.py and the desktop pipeline (pipeline.py,   *)
(* the only one with a region of interest) do neither.                     *)
(***************************************************************************)
EXTENDS Integers, Sequences, FiniteSets

CONSTANTS Cam,          \* cameras
          Role,         \* role of a camera: "MASTER", "ROI" or "SLAVE"
          Track,        \* stable track ids of a camera
          Person,
          Shows(_, _),  \* the people a track of a camera can show
          Alike(_, _),  \* people the recogniser may confuse
          View,         \* what the views of people can be, see Views
          QualifyFrames, EnrollFrames, MaxEmb, EarlyLock, Persist,
          Resolve,      \* does the caller resolve conflicts within a frame?
          Masks,        \* does it pass which crops overlap (and is
                        \* occlusion_freeze_embeddings on)?
          Crashes,      \* can a store or model call raise?
          MaxScore,     \* match scores are 1..MaxScore, MaxScore is 1.0
          MaxSid        \* bound on the identities

\* "bad" fails the keypoint gate, "nocrop" gives no usable crop or embedding,
\* "occluded" one in which another person is seen too.
Views == {"bad", "nocrop", "occluded", "clean"}

ASSUME IdentityAssumption ==
  /\ Role \in [Cam -> {"MASTER", "ROI", "SLAVE"}]
  /\ View \subseteq Views
  /\ QualifyFrames \in Nat \ {0}
  /\ EnrollFrames \in Nat \ {0}
  /\ MaxEmb \in Nat \ {0}
  /\ EarlyLock \in BOOLEAN
  /\ Persist \in BOOLEAN
  /\ Resolve \in BOOLEAN
  /\ Masks \in BOOLEAN
  /\ Crashes \in BOOLEAN
  /\ MaxScore \in Nat \ {0}
  /\ MaxSid \in Nat
  /\ \A c \in Cam, t \in Track : Shows(c, t) \subseteq Person

\* Only the people-counting worker masks or resolves, and it has no region.
ASSUME CallerAssumption ==
  /\ Masks => Resolve
  /\ Resolve => \A c \in Cam : Role[c] # "ROI"

VARIABLES nextSid,      \* _next_sid
          gallery,      \* SID -> the embeddings stored for it
          states,       \* camera -> track -> TIDState
          stage,        \* camera -> what its thread is doing
          dets,         \* camera -> track -> detection in the current frame
          pending,      \* camera -> tracks of the frame not yet processed
          recs,         \* camera -> track -> record of the (last) frame
          job           \* camera -> the enrolment under way

vars == <<nextSid, gallery, states, stage, dets, pending, recs, job>>

SID == 1..MaxSid
Score == 0..MaxScore    \* 0 is no score
None == 0               \* no SID: UNKNOWN, or no lock
Emb == [who : Person, clean : BOOLEAN]
MaxVotes == QualifyFrames     \* bound on the counted votes for a SID
Interval ==                   \* sample_interval
  IF QualifyFrames \div EnrollFrames > 1 THEN QualifyFrames \div EnrollFrames ELSE 1

Fresh == [qualified |-> 0, sid |-> None, score |-> 0,
          votes |-> [s \in SID |-> [n |-> 0, best |-> 0]], buffer |-> <<>>]
NoJob == [track |-> None, sid |-> None, queue |-> <<>>]
EmptyDict == [t \in {} |-> 0]

Members(q) == {q[i] : i \in DOMAIN q}
Enrolled == {s \in SID : gallery[s] # <<>>}

-----------------------------------------------------------------------------
(* SIDStore *)

Holders(S) == {s \in SID : \E d \in Members(gallery[s]) : d.who \in S}

\* search_top1: the possible SID and score of the nearest stored embedding,
\* with SID None for a miss or a score below match_thresh.
Search(e) ==
  [sid : Holders({e.who} \cup {p \in Person : Alike(p, e.who)}), score : 1..MaxScore]
  \cup (IF e.clean /\ Holders({e.who}) # {} THEN {}
        ELSE {[sid |-> None, score |-> 0]})

\* append: nothing is stored beyond the cap.
Stored(s, e) ==
  IF Len(gallery[s]) >= MaxEmb THEN gallery ELSE [gallery EXCEPT ![s] = Append(@, e)]

Without(q, i) == [j \in 1..Len(q)-1 |-> IF j < i THEN q[j] ELSE q[j + 1]]

\* Seeded fault: the outlier is deleted by its SID, not by its point id.
PrunedBySid(s) == {gallery, [gallery EXCEPT ![s] = <<>>]}

\* prune_outliers: of three or more embeddings at most one is deleted.
Pruned(s) ==
  {gallery} \cup
  IF Len(gallery[s]) < 3 THEN {}
  ELSE {[gallery EXCEPT ![s] = Without(@, i)] : i \in DOMAIN gallery[s]}

-----------------------------------------------------------------------------
(* TIDState *)

\* Seeded fault: frames are not counted.
BumpStuck(q) == q

\* state.qualified grows without bound under lasting occlusion; beyond
\* QualifyFrames only its residue modulo the sample interval matters.
Bump(q) == IF q + 1 < QualifyFrames + Interval THEN q + 1 ELSE q + 1 - Interval

Voted(votes, r) ==
  [votes EXCEPT ![r.sid] =
     [n    |-> IF @.n < MaxVotes THEN @.n + 1 ELSE @.n,
      best |-> IF @.best < r.score THEN r.score ELSE @.best]]

MinVotes == IF QualifyFrames \div 3 > 1 THEN QualifyFrames \div 3 ELSE 1

\* _pick_best_voted_sid: a SID with the most votes, and enough of them; the
\* code takes the first such in dict order.
BestVoted(votes) ==
  {s \in SID : /\ votes[s].n >= MinVotes
               /\ \A u \in SID : votes[u].n <= votes[s].n}

Locked(st, s, score) == [st EXCEPT !.sid = s, !.score = score]

\* A crop is sampled every Interval frames until there are enough.
Sampled(st, e) ==
  IF st.qualified % Interval = 0 /\ Len(st.buffer) < EnrollFrames
  THEN [st EXCEPT !.buffer = Append(@, e)]
  ELSE st

-----------------------------------------------------------------------------
(* One detection *)

NoRec == [sid |-> None, score |-> 0]
\* A record with the lock of an incumbent carries no score of its own.
RecOf(s) == [sid |-> s, score |-> 0]

\* The frame is done with track t: its state becomes st, its record r.
Done(c, t, st, r) ==
  /\ states' = [states EXCEPT ![c][t] = st]
  /\ recs' = [recs EXCEPT ![c][t] = r]
  /\ pending' = [pending EXCEPT ![c] = @ \ {t}]
  /\ stage' = [stage EXCEPT ![c] = "frame"]

Current(c, t) == stage[c] = "frame" /\ t \in pending[c]
Embedding(c, t) == [who |-> dets[c][t].who, clean |-> dets[c][t].view = "clean"]

\* The caller has marked the crop as overlapped: it is not to be stored.
Frozen(c, t) == Masks /\ dets[c][t].view = "occluded"

\* The detection is answered without an embedding: the keypoint gate fails,
\* or the track is locked, or there is no usable crop.
NoSearch(c, t) ==
  LET st == states[c][t] IN
  /\ Current(c, t)
  /\ \/ /\ dets[c][t].view = "bad"
        /\ Done(c, t, st, IF Persist THEN RecOf(st.sid) ELSE NoRec)
     \/ /\ dets[c][t].view # "bad"
        /\ st.sid # None
        /\ Done(c, t, st, RecOf(st.sid))
     \/ /\ dets[c][t].view = "nocrop"
        /\ st.sid = None
        /\ Done(c, t, st, NoRec)
  /\ UNCHANGED <<nextSid, gallery, dets, job>>

Searches(c, t) ==
  /\ Current(c, t)
  /\ dets[c][t].view \in {"occluded", "clean"}
  /\ states[c][t].sid = None

\* The buffered embeddings are to be stored under a new SID.
Enroll(c, t, st) ==
  /\ states' = [states EXCEPT ![c][t] = st]
  /\ job' = [job EXCEPT ![c] = [track |-> t, sid |-> None, queue |-> st.buffer]]
  /\ stage' = [stage EXCEPT ![c] = "alloc"]
  /\ UNCHANGED <<nextSid, gallery, dets, pending, recs>>

\* Seeded fault: marked crops are sampled like any other.
PreparedAny(c, t) ==
  IF dets[c][t].flow = "MASTER" THEN Sampled(states[c][t], Embedding(c, t))
  ELSE states[c][t]

\* process_master and process_slave, first half: what the track state is
\* after the sampling of a master.
Prepared(c, t) ==
  IF dets[c][t].flow = "MASTER" /\ ~Frozen(c, t)
  THEN Sampled(states[c][t], Embedding(c, t))
  ELSE states[c][t]

\* A match locks at once, in the ROI flow always and else with EarlyLock.
LockOnMatch(c, t) ==
  /\ Searches(c, t)
  /\ \E r \in Search(Embedding(c, t)) :
       /\ r.sid # None
       /\ \/ EarlyLock /\ dets[c][t].flow # "ROI"
             /\ Done(c, t, Locked(Prepared(c, t), r.sid, r.score), r)
          \/ dets[c][t].flow = "ROI"
             /\ Done(c, t, [Locked(states[c][t], r.sid, r.score) EXCEPT !.buffer = <<>>], r)
  /\ UNCHANGED <<nextSid, gallery, dets, job>>

\* The frame counts towards qualification: the possible track states.
Counted(c, t) ==
  {LET st == Prepared(c, t)
   IN  [st EXCEPT !.qualified = Bump(@),
                  !.votes = IF r.sid = None THEN @ ELSE Voted(@, r)] :
     r \in {x \in Search(Embedding(c, t)) : x.sid = None \/ ~EarlyLock}}

\* process_master and process_slave without an immediate lock: wait, or lock
\* to the voted SID, or (a master, on a crop not marked) enrol.
Qualify(c, t) ==
  /\ Searches(c, t)
  /\ dets[c][t].flow # "ROI"
  /\ \E st \in Counted(c, t) :
       \/ /\ \/ st.qualified < QualifyFrames
             \/ /\ BestVoted(st.votes) = {}
                /\ dets[c][t].flow = "SLAVE" \/ Frozen(c, t)
          /\ Done(c, t, st, NoRec)
          /\ UNCHANGED <<nextSid, gallery, dets, job>>
       \/ /\ st.qualified >= QualifyFrames
          /\ \E s \in BestVoted(st.votes) :
               Done(c, t, Locked(st, s, st.votes[s].best),
                    [sid |-> s, score |-> st.votes[s].best])
          /\ UNCHANGED <<nextSid, gallery, dets, job>>
       \/ /\ st.qualified >= QualifyFrames
          /\ BestVoted(st.votes) = {}
          /\ dets[c][t].flow = "MASTER"
          /\ ~Frozen(c, t)
          /\ Enroll(c, t, IF st.buffer = <<>>
                          THEN [st EXCEPT !.buffer = <<Embedding(c, t)>>] ELSE st)

\* Seeded fault: the search result is not looked at.
RoiMissBlind(c, t) ==
  LET st2 == [states[c][t] EXCEPT !.buffer = Append(@, Embedding(c, t))]
  IN  /\ Searches(c, t)
      /\ dets[c][t].flow = "ROI"
      /\ \/ /\ Len(st2.buffer) < EnrollFrames
            /\ Done(c, t, st2, NoRec)
            /\ UNCHANGED <<nextSid, gallery, dets, job>>
         \/ /\ Len(st2.buffer) >= EnrollFrames
            /\ Enroll(c, t, st2)

\* process_master_roi on a miss: buffer the crop, enrol when there are enough.
\* Its branch for a marked crop is left out: no caller takes it.
RoiMiss(c, t) ==
  LET st2 == [states[c][t] EXCEPT !.buffer = Append(@, Embedding(c, t))]
  IN  /\ Searches(c, t)
      /\ dets[c][t].flow = "ROI"
      /\ \E r \in Search(Embedding(c, t)) : r.sid = None
      /\ \/ /\ Len(st2.buffer) < EnrollFrames
            /\ Done(c, t, st2, NoRec)
            /\ UNCHANGED <<nextSid, gallery, dets, job>>
         \/ /\ Len(st2.buffer) >= EnrollFrames
            /\ Enroll(c, t, st2)

-----------------------------------------------------------------------------
(* Enrolment: new_sid, append, prune_outliers, lock *)

\* Seeded fault: the counter is not advanced, two threads get one SID.
AllocStuck(c) ==
  /\ stage[c] = "alloc"
  /\ nextSid <= MaxSid
  /\ job' = [job EXCEPT ![c].sid = nextSid]
  /\ stage' = [stage EXCEPT ![c] = "store"]
  /\ UNCHANGED <<nextSid, gallery, states, dets, pending, recs>>

\* new_sid takes the next SID; reading and advancing the counter is one step
\* (no call or loop between them at which the interpreter switches threads).
Alloc(c) ==
  /\ stage[c] = "alloc"
  /\ nextSid <= MaxSid
  /\ nextSid' = nextSid + 1
  /\ job' = [job EXCEPT ![c].sid = nextSid]
  /\ stage' = [stage EXCEPT ![c] = "store"]
  /\ UNCHANGED <<gallery, states, dets, pending, recs>>

Upsert(c) ==
  /\ stage[c] = "store"
  /\ job[c].queue # <<>>
  /\ gallery' = Stored(job[c].sid, Head(job[c].queue))
  /\ job' = [job EXCEPT ![c].queue = Tail(@)]
  /\ UNCHANGED <<nextSid, states, stage, dets, pending, recs>>

\* prune_outliers and the lock; the ROI flow has emptied the buffer before.
Finish(c) ==
  LET t == job[c].track
      st == IF dets[c][t].flow = "ROI" THEN [states[c][t] EXCEPT !.buffer = <<>>]
            ELSE states[c][t]
  IN  /\ stage[c] = "store"
      /\ job[c].queue = <<>>
      /\ gallery' \in Pruned(job[c].sid)
      /\ Done(c, t, Locked(st, job[c].sid, MaxScore), RecOf(job[c].sid))
      /\ job' = [job EXCEPT ![c] = NoJob]
      /\ UNCHANGED <<nextSid, dets>>

-----------------------------------------------------------------------------
(* One frame *)

Flows(c) == IF Role[c] = "ROI" THEN {"ROI", "SLAVE"} ELSE {Role[c]}

\* What the detector may find: every person at most once, each with the flow
\* its place in the picture selects.
Detections(c) ==
  {d \in UNION {[V -> [who : Person, view : View, flow : Flows(c)]] : V \in SUBSET Track} :
     /\ \A t \in DOMAIN d : d[t].who \in Shows(c, t)
     /\ \A t, u \in DOMAIN d : d[t].who = d[u].who => t = u}

StartFrame(c) ==
  /\ stage[c] = "idle"
  /\ \E d \in Detections(c) :
       /\ dets' = [dets EXCEPT ![c] = d]
       /\ pending' = [pending EXCEPT ![c] = DOMAIN d]
  /\ recs' = [recs EXCEPT ![c] = [t \in Track |-> NoRec]]
  /\ stage' = [stage EXCEPT ![c] = "frame"]
  /\ UNCHANGED <<nextSid, gallery, states, job>>

\* score_of: the record's own score, else the one noted with the lock.
ScoreOf(c, t) ==
  IF recs[c][t].score # 0 THEN recs[c][t].score ELSE states[c][t].score

Claimants(c, s) == {t \in Track : recs[c][t].sid = s}

\* Seeded fault: the holder with the lowest score wins.
WorstClaimants(c, s) ==
  {t \in Claimants(c, s) : \A u \in Claimants(c, s) : ScoreOf(c, t) <= ScoreOf(c, u)}

\* The holders that may win SID s; of equals the code takes the first.
BestClaimants(c, s) ==
  {t \in Claimants(c, s) : \A u \in Claimants(c, s) : ScoreOf(c, t) >= ScoreOf(c, u)}

\* _resolve_sid_conflicts: the possible sets of losers.
Losers(c) ==
  IF ~Resolve THEN {{}}
  ELSE {{t \in Track : recs[c][t].sid # None /\ win[recs[c][t].sid] # t} :
          win \in {w \in [SID -> Track \cup {None}] :
                     \A s \in SID : IF Claimants(c, s) = {} THEN w[s] = None
                                    ELSE w[s] \in BestClaimants(c, s)}}

\* Seeded fault: a loser keeps its lock and only its record is reverted.
EndFrameKeepsLock(c) ==
  /\ stage[c] = "frame"
  /\ pending[c] = {}
  /\ \E lost \in SUBSET (Track \ DOMAIN dets[c]), lose \in Losers(c) :
       /\ states' = [states EXCEPT ![c] =
            [t \in Track |-> IF t \in lost THEN Fresh ELSE @[t]]]
       /\ recs' = [recs EXCEPT ![c] =
            [t \in Track |-> IF t \in lose THEN NoRec ELSE @[t]]]
  /\ stage' = [stage EXCEPT ![c] = "idle"]
  /\ UNCHANGED <<nextSid, gallery, dets, pending, job>>

\* forget (a track out of view may be dropped, TIDState tells when), then
\* the conflict resolution: losers revert to UNKNOWN and are unlocked, but
\* keep their votes, buffer and qualification.
EndFrame(c) ==
  /\ stage[c] = "frame"
  /\ pending[c] = {}
  /\ \E lost \in SUBSET (Track \ DOMAIN dets[c]), lose \in Losers(c) :
       /\ states' = [states EXCEPT ![c] =
            [t \in Track |-> IF t \in lost THEN Fresh
                             ELSE IF t \in lose THEN Locked(@[t], None, 0)
                             ELSE @[t]]]
       /\ recs' = [recs EXCEPT ![c] =
            [t \in Track |-> IF t \in lose THEN NoRec ELSE @[t]]]
  /\ stage' = [stage EXCEPT ![c] = "idle"]
  /\ UNCHANGED <<nextSid, gallery, dets, pending, job>>

\* A store or model call raises: the thread ends and its state with it, an
\* enrolment stays as far as it got (_run_safe).
Crash(c) ==
  /\ Crashes
  /\ \/ stage[c] = "store"
     \/ \E t \in Track : Searches(c, t)
  /\ stage' = [stage EXCEPT ![c] = "dead"]
  /\ job' = [job EXCEPT ![c] = NoJob]
  /\ pending' = [pending EXCEPT ![c] = {}]
  /\ dets' = [dets EXCEPT ![c] = EmptyDict]
  /\ recs' = [recs EXCEPT ![c] = [t \in Track |-> NoRec]]
  /\ states' = [states EXCEPT ![c] = [t \in Track |-> Fresh]]
  /\ UNCHANGED <<nextSid, gallery>>

\* The client starts the camera again: a new worker on the same store.
Restart(c) ==
  /\ stage[c] = "dead"
  /\ stage' = [stage EXCEPT ![c] = "idle"]
  /\ UNCHANGED <<nextSid, gallery, states, dets, pending, recs, job>>

-----------------------------------------------------------------------------
Init ==
  /\ nextSid = 1
  /\ gallery = [s \in SID |-> <<>>]
  /\ states = [c \in Cam |-> [t \in Track |-> Fresh]]
  /\ stage = [c \in Cam |-> "idle"]
  /\ dets = [c \in Cam |-> EmptyDict]
  /\ pending = [c \in Cam |-> {}]
  /\ recs = [c \in Cam |-> [t \in Track |-> NoRec]]
  /\ job = [c \in Cam |-> NoJob]

Work(c) ==
  \/ StartFrame(c)
  \/ \E t \in Track : \/ NoSearch(c, t)
                      \/ LockOnMatch(c, t)
                      \/ Qualify(c, t)
                      \/ RoiMiss(c, t)
  \/ Alloc(c)
  \/ Upsert(c)
  \/ Finish(c)
  \/ EndFrame(c)

Next == \E c \in Cam : Work(c) \/ Crash(c) \/ Restart(c)

Spec == Init /\ [][Next]_vars

\* Each camera's thread keeps running.
FairSpec == Spec /\ \A c \in Cam : WF_vars(Work(c))

-----------------------------------------------------------------------------
TIDStateRec ==
  [qualified : 0..QualifyFrames + Interval, sid : SID \cup {None}, score : Score,
   votes : [SID -> [n : 0..MaxVotes, best : Score]], buffer : Seq(Emb)]

\* Every variable has the shape of the code's state, and an enrolment under
\* way belongs to a detection of the current frame.
TypeOK ==
  /\ nextSid \in 1..MaxSid + 1
  /\ gallery \in [SID -> Seq(Emb)]
  /\ states \in [Cam -> [Track -> TIDStateRec]]
  /\ stage \in [Cam -> {"idle", "frame", "alloc", "store", "dead"}]
  /\ recs \in [Cam -> [Track -> [sid : SID \cup {None}, score : Score]]]
  /\ \A c \in Cam :
       /\ pending[c] \subseteq DOMAIN dets[c]
       /\ stage[c] \in {"alloc", "store"} =>
            job[c].track \in pending[c] /\ job[c].queue \in Seq(Emb)
       /\ stage[c] = "store" => job[c].sid \in 1..nextSid - 1

\* In a published frame no two detections carry the same SID, and no two tracks
\* in view stay locked to one: the losers are unlocked, or the next frame would
\* show the conflict again (_resolve_sid_conflicts: enforce one-SID-per-frame).
\* Without sid_persist_on_kp_loss a lock behind a failed keypoint gate is not
\* seen by the resolution.
OneSidPerFrame ==
  Resolve => \A c \in Cam : stage[c] = "idle" =>
    \A t, u \in Track : t # u =>
      /\ recs[c][t].sid = recs[c][u].sid => recs[c][t].sid = None
      /\ Persist /\ {t, u} \subseteq DOMAIN dets[c]
           /\ states[c][t].sid = states[c][u].sid => states[c][t].sid = None

\* Where the caller marks the crops that overlap, none of them ever enters the
\* gallery (config.yaml, occlusion_freeze_embeddings), in whichever frame of an
\* enrolment the overlap begins.  The other three callers mark none.
GalleryClean ==
  Masks => \A s \in SID : \A e \in Members(gallery[s]) : e.clean

\* A track is only ever locked to, and a frame only ever shows, a SID that
\* the gallery holds embeddings for, even after a crash half-way through an
\* enrolment and after pruning.
LocksEnrolled ==
  \A c \in Cam, t \in Track :
    /\ states[c][t].sid # None => states[c][t].sid \in Enrolled
    /\ recs[c][t].sid # None => recs[c][t].sid \in Enrolled

\* A person has one identity, whichever camera sees them.
OnePersonOneSid ==
  \A p \in Person : Cardinality(Holders({p})) <= 1

\* And a SID stands for one person, although several threads take numbers and
\* store embeddings: identities and people correspond.  Claimed where overlapped
\* crops do not occur or are marked, for an unmarked one may enrol anew.
SidsArePeople ==
  /\ OnePersonOneSid
  /\ \A s \in SID : \A d, e \in Members(gallery[s]) : d.who = e.who

\* Resolving a conflict does not lose the identity: one of the detections
\* that claimed it keeps it, and none of the others scored higher.
ConflictKeepsBest ==
  [][\A c \in Cam : stage[c] = "frame" /\ stage'[c] = "idle" =>
       \A t \in Track : recs[c][t].sid # None =>
         \E w \in Track : /\ recs[c][w].sid = recs[c][t].sid
                          /\ recs'[c][w].sid = recs[c][t].sid
                          /\ ScoreOf(c, w) >= ScoreOf(c, t)]_vars

\* Someone who stays in clear view of a camera that enrols is identified for
\* good, also after enrolments that died half-way and left a SID nobody holds.
\* (The bound on SIDs may only stop who is not enrolled yet.)
InClearView(c, t) ==
  /\ stage[c] # "dead"
  /\ t \in DOMAIN dets[c]
  /\ nextSid <= MaxSid \/ Holders({dets[c][t].who}) # {}
  /\ dets[c][t].view = "clean"
  /\ dets[c][t].flow # "SLAVE"

Identified ==
  \A c \in Cam, t \in Track :
    <>[]InClearView(c, t) => <>[](states[c][t].sid # None)

=============================================================================
