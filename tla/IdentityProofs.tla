--------------------------- MODULE IdentityProofs ---------------------------
(***************************************************************************)
(* Proofs about Identity, for any cameras, tracks, people and parameters:  *)
(* typing, that locks are of enrolled identities, that crops marked as     *)
(* overlapped are not stored, that a frame shows an identity once, that a  *)
(* conflict leaves it to the best claimant and, where no two cameras enrol *)
(* the same person and the recogniser confuses nobody, that identities are *)
(* people.                                                                 *)
(***************************************************************************)
EXTENDS Identity, SequenceTheorems, FiniteSetTheorems, TLAPS

-----------------------------------------------------------------------------
(* The inductive invariant *)

Detection(c) == [who : Person, view : View, flow : Flows(c)]

\* What the code holds beyond TypeOK: a worker's frame is a table of what its
\* detector can find, and its enrolment is of one of its tracks.
Shape ==
  /\ TypeOK
  /\ job \in [Cam -> [track : Track \cup {None}, sid : SID \cup {None},
                      queue : Seq(Emb)]]
  /\ pending \in [Cam -> SUBSET Track]
  /\ dets = [c \in Cam |-> dets[c]]
  /\ \A c \in Cam :
       /\ DOMAIN dets[c] \subseteq Track
       /\ \A t \in DOMAIN dets[c] : /\ dets[c][t] \in Detection(c)
                                    /\ dets[c][t].who \in Shows(c, t)

\* Votes are for enrolled identities too, and an enrolment leaves an embedding.
KnownAt(c) ==
  /\ \A t \in Track :
       /\ states[c][t].sid # None => states[c][t].sid \in Enrolled
       /\ recs[c][t].sid # None => recs[c][t].sid \in Enrolled
       /\ \A s \in SID : states[c][t].votes[s].n > 0 => s \in Enrolled
  /\ stage[c] = "alloc" => job[c].queue # <<>>
  /\ stage[c] = "store" /\ job[c].queue = <<>> => job[c].sid \in Enrolled

Known == \A c \in Cam : KnownAt(c)

\* Where overlapped crops are marked, what is stored or to be stored is clean
\* all the way from the buffer of a track to the gallery.
CleanAt(c) ==
  Masks =>
  /\ \A t \in Track : \A e \in Members(states[c][t].buffer) : e.clean
  /\ \A e \in Members(job[c].queue) : e.clean

Clean == GalleryClean /\ \A c \in Cam : CleanAt(c)

\* The record of a detection that is done with agrees with the track's lock, and
\* so in the published frame, where no two agree.
ShownAt(c) ==
  /\ stage[c] = "dead" => /\ DOMAIN dets[c] = {}
                          /\ \A t \in Track : recs[c][t].sid = None
  /\ Persist /\ stage[c] \in {"frame", "alloc", "store"} =>
       \A t \in DOMAIN dets[c] \ pending[c] : recs[c][t].sid = states[c][t].sid
  /\ Resolve /\ stage[c] = "idle" =>
       \A t, u \in Track : t # u =>
         /\ recs[c][t].sid = recs[c][u].sid => recs[c][t].sid = None
         /\ Persist /\ {t, u} \subseteq DOMAIN dets[c]
              /\ states[c][t].sid = states[c][u].sid => states[c][t].sid = None

Shown == \A c \in Cam : ShownAt(c)

\* Every track that may be enrolled is of one person, whom no other camera that
\* enrols can see; nobody is taken for another; a match locks at once; and
\* crops that overlap are marked, if there are any.
Apart ==
  /\ \A c \in Cam, t \in Track : Role[c] # "SLAVE" =>
       \A p, q \in Shows(c, t) : p = q
  /\ \A c, d \in Cam : c # d /\ Role[c] # "SLAVE" /\ Role[d] # "SLAVE" =>
       \A t, u \in Track : Shows(c, t) \cap Shows(d, u) = {}
  /\ \A p, q \in Person : Alike(p, q) => p = q
  /\ EarlyLock \/ \A c \in Cam : Role[c] # "MASTER"
  /\ Masks \/ "occluded" \notin View

\* A camera that enrols has collected crops of the one person of the track, and
\* that person has no identity but the one under way ...
Collected(c) ==
  /\ \A t \in Track : \A e \in Members(states[c][t].buffer) :
       Role[c] # "SLAVE" /\ e.who \in Shows(c, t)
  /\ stage[c] \in {"alloc", "store"} =>
       /\ Role[c] # "SLAVE"
       /\ \A e \in Members(job[c].queue) : e.who \in Shows(c, job[c].track)

Named(c) ==
  /\ stage[c] = "alloc" => Holders(Shows(c, job[c].track)) = {}
  /\ stage[c] = "store" =>
       /\ Holders(Shows(c, job[c].track)) \subseteq {job[c].sid}
       /\ \A e \in Members(gallery[job[c].sid]) : e.who \in Shows(c, job[c].track)

PeopleAt(c) == Collected(c) /\ Named(c)

\* ... whose number no other camera has.
Numbers ==
  /\ \A s \in SID : s >= nextSid => gallery[s] = <<>>
  /\ \A c, d \in Cam : /\ stage[c] = "store" /\ stage[d] = "store"
                        /\ job[c].sid = job[d].sid
                        => c = d

OneEach ==
  /\ \A p \in Person : \A s, u \in Holders({p}) : s = u
  /\ \A s \in SID : \A d, e \in Members(gallery[s]) : d.who = e.who

People == Apart => Numbers /\ OneEach /\ \A c \in Cam : PeopleAt(c)

IInv == Shape /\ Known /\ Clean /\ Shown /\ People

-----------------------------------------------------------------------------
(* Lemmas about sequences and the operators of the model *)

LEMMA MembersOf ==
  ASSUME NEW S, NEW q \in Seq(S)
  PROVE  /\ Members(q) \in SUBSET S
         /\ q = <<>> <=> Members(q) = {}
         /\ \A e \in S : /\ Append(q, e) \in Seq(S)
                         /\ Append(q, e) # <<>>
                         /\ Members(Append(q, e)) = Members(q) \cup {e}
<1>1. Members(q) \in SUBSET S
  BY DEF Members
<1>2. q = <<>> <=> Members(q) = {}
  BY DEF Members
<1>3. ASSUME NEW e \in S
      PROVE  /\ Append(q, e) \in Seq(S)
             /\ Append(q, e) # <<>>
             /\ Members(Append(q, e)) = Members(q) \cup {e}
  <2>1. /\ Append(q, e) \in Seq(S)
        /\ Len(Append(q, e)) = Len(q) + 1
        /\ Append(q, e)[Len(q) + 1] = e
        /\ \A i \in 1..Len(q) : Append(q, e)[i] = q[i]
    OBVIOUS
  <2>2. /\ Len(q) \in Nat
        /\ DOMAIN q = 1..Len(q)
        /\ DOMAIN Append(q, e) = 1..Len(q) + 1
    BY <2>1
  <2> QED
    BY <2>1, <2>2 DEF Members
<1> QED
  BY <1>1, <1>2, <1>3

LEMMA MembersOfTail ==
  ASSUME NEW S, NEW q \in Seq(S), q # <<>>
  PROVE  /\ Head(q) \in Members(q)
         /\ Tail(q) \in Seq(S)
         /\ Members(Tail(q)) \subseteq Members(q)
<1>1. /\ Len(q) \in Nat \ {0}
      /\ Head(q) = q[1]
      /\ Tail(q) \in Seq(S)
      /\ Len(Tail(q)) = Len(q) - 1
      /\ \A i \in 1..Len(q) - 1 : Tail(q)[i] = q[i + 1]
  OBVIOUS
<1>2. DOMAIN q = 1..Len(q) /\ DOMAIN Tail(q) = 1..Len(q) - 1
  BY <1>1
<1> QED
  BY <1>1, <1>2 DEF Members

LEMMA MembersWithout ==
  ASSUME NEW S, NEW q \in Seq(S), Len(q) >= 3, NEW i \in DOMAIN q
  PROVE  /\ Without(q, i) \in Seq(S)
         /\ Without(q, i) # <<>>
         /\ Members(Without(q, i)) \subseteq Members(q)
<1> DEFINE w == Without(q, i)
<1>1. Len(q) \in Nat /\ DOMAIN q = 1..Len(q) /\ i \in 1..Len(q)
  OBVIOUS
<1>2. /\ DOMAIN w = 1..Len(q) - 1
      /\ \A j \in 1..Len(q) - 1 : w[j] = IF j < i THEN q[j] ELSE q[j + 1]
  BY DEF Without
<1>3. \A j \in 1..Len(q) - 1 : w[j] \in Members(q) /\ w[j] \in S
  BY <1>1, <1>2 DEF Members
<1>4. w = [j \in 1..Len(q) - 1 |-> w[j]]
  BY DEF Without
<1> HIDE DEF w
<1>5. w \in Seq(S)
  BY <1>1, <1>3, <1>4
<1>6. Members(w) \subseteq Members(q)
  BY <1>2, <1>3 DEF Members
<1>7. w # <<>>
  BY <1>1, <1>2
<1> QED
  BY <1>5, <1>6, <1>7 DEF w

LEMMA IntervalType == Interval \in Nat \ {0}
<1>1. QualifyFrames \div EnrollFrames \in Int
  BY IdentityAssumption
<1> QED
  BY <1>1 DEF Interval

LEMMA MinVotesType == MinVotes \in Nat \ {0}
<1>1. QualifyFrames \div 3 \in Int
  BY IdentityAssumption
<1> QED
  BY <1>1 DEF MinVotes

LEMMA BumpType ==
  ASSUME NEW q \in 0..QualifyFrames + Interval
  PROVE  Bump(q) \in 0..QualifyFrames + Interval
BY IntervalType, IdentityAssumption DEF Bump

Votes == [SID -> [n : 0..MaxVotes, best : Score]]
Rec == [sid : SID \cup {None}, score : Score]

LEMMA VotedFacts ==
  ASSUME NEW votes \in Votes, NEW r \in Rec, r.sid # None
  PROVE  /\ Voted(votes, r) \in Votes
         /\ \A s \in SID : Voted(votes, r)[s].n > 0 => votes[s].n > 0 \/ s = r.sid
<1>1. r.sid \in SID /\ r.score \in Score /\ MaxVotes \in Nat
  BY IdentityAssumption DEF Rec, MaxVotes
<1>2. votes[r.sid].n \in 0..MaxVotes /\ votes[r.sid].best \in Score
  BY <1>1 DEF Votes
<1> DEFINE new == [n    |-> IF votes[r.sid].n < MaxVotes
                              THEN votes[r.sid].n + 1 ELSE votes[r.sid].n,
                   best |-> IF votes[r.sid].best < r.score
                              THEN r.score ELSE votes[r.sid].best]
<1>3. new \in [n : 0..MaxVotes, best : Score]
  BY <1>1, <1>2
<1>4. Voted(votes, r) = [votes EXCEPT ![r.sid] = new]
  BY DEF Voted
<1> HIDE DEF new
<1> QED
  BY <1>1, <1>3, <1>4 DEF Votes

LEMMA FreshFacts ==
  /\ Fresh \in TIDStateRec
  /\ Fresh.sid = None /\ Fresh.buffer = <<>>
  /\ \A s \in SID : Fresh.votes[s].n = 0
<1>1. Fresh.votes \in Votes
  BY IdentityAssumption DEF Fresh, Votes, MaxVotes, Score
<1>2. 0 \in 0..QualifyFrames + Interval /\ 0 \in Score
  BY IntervalType, IdentityAssumption DEF Score
<1> QED
  BY <1>1, <1>2 DEF Fresh, TIDStateRec, Votes

LEMMA EmbeddingFacts ==
  ASSUME NEW c \in Cam, NEW t \in DOMAIN dets[c], dets[c][t] \in Detection(c)
  PROVE  /\ Embedding(c, t) \in Emb
         /\ Embedding(c, t).who = dets[c][t].who
         /\ Embedding(c, t).clean <=> dets[c][t].view = "clean"
<1>1. (dets[c][t].view = "clean") \in BOOLEAN
  OBVIOUS
<1>2. dets[c][t].who \in Person
  BY DEF Detection
<1> DEFINE b == dets[c][t].view = "clean"
<1>3. Embedding(c, t) = [who |-> dets[c][t].who, clean |-> b]
  BY DEF Embedding
<1> HIDE DEF b
<1>4. b \in BOOLEAN
  BY <1>1 DEF b
<1>5. /\ Embedding(c, t) \in Emb
      /\ Embedding(c, t).who = dets[c][t].who
      /\ Embedding(c, t).clean = b
  BY <1>2, <1>3, <1>4 DEF Emb
<1> QED
  BY <1>5 DEF b

\* A match is of an identity the gallery holds; only someone it does not hold
\* can be missed on a clean crop.
LEMMA SearchFacts ==
  ASSUME NEW e \in Emb, NEW r \in Search(e), gallery \in [SID -> Seq(Emb)]
  PROVE  /\ r \in Rec
         /\ r.sid # None => r.sid \in Enrolled
         /\ e.clean /\ r.sid = None => Holders({e.who}) = {}
<1>1. Holders({e.who} \cup {p \in Person : Alike(p, e.who)}) \subseteq Enrolled
  BY MembersOf DEF Holders, Enrolled
<1>2. 0 \in Score /\ 1..MaxScore \subseteq Score /\ None \notin SID
  BY IdentityAssumption DEF Score, None, SID
<1>3. Enrolled \subseteq SID
  BY DEF Enrolled
<1> DEFINE H == Holders({e.who} \cup {p \in Person : Alike(p, e.who)})
<1>4. \/ r \in [sid : H, score : 1..MaxScore]
      \/ /\ ~(e.clean /\ Holders({e.who}) # {})
         /\ r = [sid |-> None, score |-> 0]
  BY DEF Search
<1>5. H \subseteq Enrolled
  BY <1>1
<1> HIDE DEF H
<1>6. CASE r \in [sid : H, score : 1..MaxScore]
  BY <1>2, <1>3, <1>5, <1>6 DEF Rec
<1>7. CASE ~(e.clean /\ Holders({e.who}) # {}) /\ r = [sid |-> None, score |-> 0]
  BY <1>2, <1>7 DEF Rec
<1> QED
  BY <1>4, <1>6, <1>7

-----------------------------------------------------------------------------
(* What is decided about a detection *)

\* A crop that is searched for and not marked.
Usable(c, t) == Searches(c, t) /\ ~Frozen(c, t)

\* The votes and the buffer of a track grow by what is seen of it.
Kept(c, t, st) ==
  /\ st \in TIDStateRec
  /\ \A s \in SID : st.votes[s].n > 0 =>
       states[c][t].votes[s].n > 0 \/ s \in Enrolled
  /\ \A e \in Members(st.buffer) :
       \/ e \in Members(states[c][t].buffer)
       \/ e = Embedding(c, t) /\ (Masks => e.clean) /\ dets[c][t].flow # "SLAVE"

\* A detection is answered, and the lock of its track is old or enrolled ...
Reply(c, t, st, r) ==
  /\ Current(c, t)
  /\ Done(c, t, st, r)
  /\ UNCHANGED <<nextSid, gallery, dets, job>>
  /\ Kept(c, t, st)
  /\ r \in Rec
  /\ st.sid # states[c][t].sid => st.sid \in Enrolled
  /\ r.sid # None \/ Persist => r.sid = st.sid

\* ... or its track is to be enrolled.
Applies(c, t, st) ==
  /\ Current(c, t)
  /\ Enroll(c, t, st)
  /\ Kept(c, t, st)
  /\ st.sid = None /\ st.buffer # <<>>
  /\ dets[c][t].flow # "SLAVE"
  /\ Usable(c, t)
  /\ /\ dets[c][t].flow = "ROI" \/ EarlyLock
     /\ dets[c][t].view = "clean"
     => Holders({dets[c][t].who}) = {}

LEMMA UsableIsClean ==
  ASSUME NEW c \in Cam, NEW t \in DOMAIN dets[c], dets[c][t] \in Detection(c),
         Usable(c, t)
  PROVE  /\ Masks => Embedding(c, t).clean
         /\ "occluded" \notin View => dets[c][t].view = "clean"
         /\ Masks => dets[c][t].view = "clean"
<1>1. /\ dets[c][t].view \in {"occluded", "clean"}
      /\ ~(Masks /\ dets[c][t].view = "occluded")
  BY DEF Usable, Searches, Frozen
<1>2. dets[c][t].view \in View
  BY DEF Detection
<1> QED
  BY <1>1, <1>2, EmbeddingFacts

LEMMA CurrentFacts ==
  ASSUME Shape, NEW c \in Cam, NEW t, Current(c, t)
  PROVE  /\ t \in DOMAIN dets[c] /\ t \in Track
         /\ dets[c][t] \in Detection(c)
         /\ dets[c][t].who \in Shows(c, t)
         /\ states[c][t] \in TIDStateRec
         /\ Kept(c, t, states[c][t])
         /\ Embedding(c, t) \in Emb
         /\ Embedding(c, t).who = dets[c][t].who
         /\ Embedding(c, t).clean <=> dets[c][t].view = "clean"
<1>1. t \in DOMAIN dets[c] /\ t \in Track
  BY DEF Current, Shape, TypeOK
<1>2. dets[c][t] \in Detection(c) /\ dets[c][t].who \in Shows(c, t)
  BY <1>1 DEF Shape
<1>3. states[c][t] \in TIDStateRec
  BY <1>1 DEF Shape, TypeOK
<1> QED
  BY <1>1, <1>2, <1>3, EmbeddingFacts DEF Kept

\* What a lock, a sample or an emptied buffer makes of a track's state.
LEMMA StateUpdate ==
  ASSUME NEW st \in TIDStateRec
  PROVE  /\ \A r \in Rec : Locked(st, r.sid, r.score) \in TIDStateRec
         /\ [st EXCEPT !.buffer = <<>>] \in TIDStateRec
         /\ \A e \in Emb : /\ Sampled(st, e) \in TIDStateRec
                           /\ [st EXCEPT !.buffer = Append(@, e)] \in TIDStateRec
                           /\ [st EXCEPT !.buffer = <<e>>] \in TIDStateRec
         /\ \A q \in 0..QualifyFrames + Interval, v \in Votes :
              [st EXCEPT !.qualified = q, !.votes = v] \in TIDStateRec
<1> USE DEF TIDStateRec, Rec, Votes
<1>1. \A r \in Rec : Locked(st, r.sid, r.score) \in TIDStateRec
  BY DEF Locked
<1>2. [st EXCEPT !.buffer = <<>>] \in TIDStateRec
  <2>1. <<>> \in Seq(Emb)
    OBVIOUS
  <2> QED
    BY <2>1
<1>3. ASSUME NEW e \in Emb
      PROVE  /\ Sampled(st, e) \in TIDStateRec
             /\ [st EXCEPT !.buffer = Append(@, e)] \in TIDStateRec
             /\ [st EXCEPT !.buffer = <<e>>] \in TIDStateRec
  <2>1. Append(st.buffer, e) \in Seq(Emb) /\ <<e>> \in Seq(Emb)
    OBVIOUS
  <2> QED
    BY <2>1 DEF Sampled
<1>4. \A q \in 0..QualifyFrames + Interval, v \in Votes :
        [st EXCEPT !.qualified = q, !.votes = v] \in TIDStateRec
  OBVIOUS
<1> QED
  BY <1>1, <1>2, <1>3, <1>4

\* The sampling of a master adds a crop that is not marked at most.
LEMMA PreparedFacts ==
  ASSUME Shape, NEW c \in Cam, NEW t, Searches(c, t), dets[c][t].flow # "ROI"
  PROVE  /\ Kept(c, t, Prepared(c, t))
         /\ Prepared(c, t).sid = None
         /\ Prepared(c, t).votes = states[c][t].votes
<1>1. Current(c, t) /\ states[c][t].sid = None
  BY DEF Searches
<1> DEFINE old == states[c][t]  e == Embedding(c, t)
<1>2. old \in TIDStateRec /\ e \in Emb /\ Kept(c, t, old)
  BY <1>1, CurrentFacts
<1>3. CASE Prepared(c, t) = old
  BY <1>1, <1>2, <1>3
<1>4. CASE /\ dets[c][t].flow = "MASTER" /\ ~Frozen(c, t)
           /\ Prepared(c, t) = [old EXCEPT !.buffer = Append(@, e)]
  <2>1. old.buffer \in Seq(Emb)
    BY <1>2 DEF TIDStateRec
  <2>2. Members(Append(old.buffer, e)) = Members(old.buffer) \cup {e}
    BY <1>2, <2>1, MembersOf
  <2>3. Prepared(c, t) \in TIDStateRec
    BY <1>2, <1>4, StateUpdate
  <2>4. /\ Prepared(c, t).votes = old.votes
        /\ Prepared(c, t).sid = old.sid
        /\ Prepared(c, t).buffer = Append(old.buffer, e)
    BY <1>2, <1>4 DEF TIDStateRec
  <2>5. Masks => e.clean
    BY <1>1, <1>4, UsableIsClean, CurrentFacts DEF Usable
  <2> QED
    BY <1>1, <1>4, <2>2, <2>3, <2>4, <2>5 DEF Kept
<1> QED
  BY <1>3, <1>4 DEF Prepared, Sampled

LEMMA NoneIsNoSID == None \notin SID /\ NoRec \in Rec /\ NoRec.sid = None
BY IdentityAssumption DEF None, SID, NoRec, Rec, Score

LEMMA NoSearchReplies ==
  ASSUME Shape, NEW c \in Cam, NEW t, NoSearch(c, t)
  PROVE  \E st, r : Reply(c, t, st, r)
<1> DEFINE old == states[c][t]
<1>1. Current(c, t) /\ UNCHANGED <<nextSid, gallery, dets, job>>
  BY DEF NoSearch
<1>2. Kept(c, t, old) /\ old \in TIDStateRec
  BY <1>1, CurrentFacts
<1>3. RecOf(old.sid) \in Rec /\ RecOf(old.sid).sid = old.sid
  BY <1>2, IdentityAssumption DEF RecOf, Rec, TIDStateRec, Score
<1>4. PICK r \in {NoRec, RecOf(old.sid)} :
        /\ Done(c, t, old, r)
        /\ r = NoRec /\ Persist => old.sid = None
  BY DEF NoSearch, NoRec, RecOf
<1>5. Reply(c, t, old, r)
  BY <1>1, <1>2, <1>3, <1>4, NoneIsNoSID DEF Reply
<1> QED
  BY <1>5

LEMMA LockOnMatchReplies ==
  ASSUME Shape, NEW c \in Cam, NEW t, LockOnMatch(c, t)
  PROVE  \E st, r : Reply(c, t, st, r)
<1>1. /\ Searches(c, t) /\ Current(c, t)
      /\ UNCHANGED <<nextSid, gallery, dets, job>>
  BY DEF LockOnMatch, Searches
<1>2. PICK r \in Search(Embedding(c, t)) :
        /\ r.sid # None
        /\ \/ /\ dets[c][t].flow # "ROI"
              /\ Done(c, t, Locked(Prepared(c, t), r.sid, r.score), r)
           \/ Done(c, t, [Locked(states[c][t], r.sid, r.score)
                            EXCEPT !.buffer = <<>>], r)
  BY DEF LockOnMatch
<1>3. r \in Rec /\ r.sid \in Enrolled
  BY <1>1, <1>2, CurrentFacts, SearchFacts DEF Shape, TypeOK
<1>4. ASSUME NEW st, Kept(c, t, st)
      PROVE  LET new == Locked(st, r.sid, r.score)
             IN  new \in TIDStateRec /\ Kept(c, t, new) /\ new.sid = r.sid
  <2>1. st \in TIDStateRec
    BY <1>4 DEF Kept
  <2>2. Locked(st, r.sid, r.score) \in TIDStateRec
    BY <1>3, <2>1, StateUpdate
  <2>3. /\ Locked(st, r.sid, r.score).sid = r.sid
        /\ Locked(st, r.sid, r.score).votes = st.votes
        /\ Locked(st, r.sid, r.score).buffer = st.buffer
    BY <2>1 DEF Locked, TIDStateRec
  <2> QED
    BY <1>4, <2>2, <2>3 DEF Kept
<1>5. CASE /\ dets[c][t].flow # "ROI"
           /\ Done(c, t, Locked(Prepared(c, t), r.sid, r.score), r)
  <2>1. Kept(c, t, Prepared(c, t))
    BY <1>1, <1>5, PreparedFacts
  <2> QED
    BY <1>1, <1>3, <1>4, <1>5, <2>1 DEF Reply
<1>6. CASE Done(c, t, [Locked(states[c][t], r.sid, r.score) EXCEPT !.buffer = <<>>], r)
  <2> DEFINE lk == Locked(states[c][t], r.sid, r.score)
             st == [lk EXCEPT !.buffer = <<>>]
  <2>1. lk \in TIDStateRec /\ Kept(c, t, lk) /\ lk.sid = r.sid
    BY <1>1, <1>4, CurrentFacts
  <2> HIDE DEF lk
  <2>2. st \in TIDStateRec
    BY <2>1, StateUpdate
  <2>3. st.sid = r.sid /\ st.votes = lk.votes /\ st.buffer = <<>>
    BY <2>1 DEF TIDStateRec
  <2>4. Members(<<>>) = {}
    BY DEF Members
  <2>5. Kept(c, t, st)
    BY <2>1, <2>2, <2>3, <2>4 DEF Kept
  <2>6. Done(c, t, st, r)
    BY <1>6 DEF lk
  <2> QED
    BY <1>1, <1>3, <2>3, <2>5, <2>6 DEF Reply
<1> QED
  BY <1>2, <1>5, <1>6

\* A counted frame adds a vote for an enrolled identity at most.
LEMMA CountedFacts ==
  ASSUME Shape, NEW c \in Cam, NEW t, Searches(c, t), dets[c][t].flow # "ROI",
         NEW st \in Counted(c, t)
  PROVE  /\ Kept(c, t, st)
         /\ st.sid = None
         /\ st.buffer = Prepared(c, t).buffer
         /\ EarlyLock /\ dets[c][t].view = "clean" => Holders({dets[c][t].who}) = {}
<1> DEFINE prep == Prepared(c, t)
<1>1. /\ Kept(c, t, prep) /\ prep.sid = None
      /\ prep.votes = states[c][t].votes
  BY PreparedFacts
<1>2. PICK r \in Search(Embedding(c, t)) :
        /\ r.sid = None \/ ~EarlyLock
        /\ st = [prep EXCEPT !.qualified = Bump(@),
                             !.votes = IF r.sid = None THEN @ ELSE Voted(@, r)]
  BY DEF Counted
<1>3. /\ prep \in TIDStateRec /\ prep.votes \in Votes
      /\ prep.qualified \in 0..QualifyFrames + Interval
  BY <1>1 DEF Kept, TIDStateRec, Votes
<1>4. /\ r \in Rec
      /\ r.sid # None => r.sid \in Enrolled
      /\ Embedding(c, t).clean /\ r.sid = None =>
           Holders({Embedding(c, t).who}) = {}
  BY CurrentFacts, SearchFacts DEF Shape, TypeOK, Searches
<1> DEFINE v == IF r.sid = None THEN prep.votes ELSE Voted(prep.votes, r)
<1>5. /\ v \in Votes
      /\ \A s \in SID : v[s].n > 0 => prep.votes[s].n > 0 \/ s \in Enrolled
  BY <1>3, <1>4, VotedFacts
<1>6. st = [prep EXCEPT !.qualified = Bump(prep.qualified), !.votes = v]
  BY <1>2
<1>7. Bump(prep.qualified) \in 0..QualifyFrames + Interval
  BY <1>3, BumpType
<1> HIDE DEF prep, v
<1>8. /\ st \in TIDStateRec
  BY <1>3, <1>5, <1>6, <1>7, StateUpdate
<1>9. st.votes = v /\ st.sid = prep.sid /\ st.buffer = prep.buffer
  BY <1>3, <1>6 DEF TIDStateRec
<1>10. Kept(c, t, st)
  BY <1>1, <1>5, <1>8, <1>9 DEF Kept
<1>11. EarlyLock /\ dets[c][t].view = "clean" => Holders({dets[c][t].who}) = {}
  BY <1>2, <1>4, CurrentFacts DEF Searches
<1> QED
  BY <1>1, <1>9, <1>10, <1>11 DEF prep

\* Without an immediate lock a detection waits, is locked to a voted identity
\* (votes are for enrolled ones only), or is to be enrolled.
LEMMA QualifyDecides ==
  ASSUME Shape, Known, NEW c \in Cam, NEW t, Qualify(c, t)
  PROVE  \/ \E st, r : Reply(c, t, st, r)
         \/ \E st : Applies(c, t, st)
<1>1. Searches(c, t) /\ Current(c, t) /\ dets[c][t].flow # "ROI"
  BY DEF Qualify, Searches
<1>2. PICK st \in Counted(c, t) :
       \/ /\ Done(c, t, st, NoRec)
          /\ UNCHANGED <<nextSid, gallery, dets, job>>
       \/ /\ \E s \in BestVoted(st.votes) :
               Done(c, t, Locked(st, s, st.votes[s].best),
                    [sid |-> s, score |-> st.votes[s].best])
          /\ UNCHANGED <<nextSid, gallery, dets, job>>
       \/ /\ dets[c][t].flow = "MASTER"
          /\ ~Frozen(c, t)
          /\ Enroll(c, t, IF st.buffer = <<>>
                          THEN [st EXCEPT !.buffer = <<Embedding(c, t)>>] ELSE st)
  BY DEF Qualify
<1>3. /\ Kept(c, t, st) /\ st.sid = None /\ st \in TIDStateRec
      /\ EarlyLock /\ dets[c][t].view = "clean" => Holders({dets[c][t].who}) = {}
  BY <1>1, CountedFacts DEF Kept
<1>4. t \in Track /\ states[c][t].sid = None
  BY <1>1, CurrentFacts DEF Searches
<1>5. CASE /\ Done(c, t, st, NoRec)
           /\ UNCHANGED <<nextSid, gallery, dets, job>>
  BY <1>1, <1>3, <1>4, <1>5, NoneIsNoSID DEF Reply
<1>6. ASSUME NEW s \in BestVoted(st.votes),
             Done(c, t, Locked(st, s, st.votes[s].best),
                  [sid |-> s, score |-> st.votes[s].best]),
             UNCHANGED <<nextSid, gallery, dets, job>>
      PROVE  \E u, r : Reply(c, t, u, r)
  <2> DEFINE r == [sid |-> s, score |-> st.votes[s].best]
             new == Locked(st, s, st.votes[s].best)
  <2>1. s \in SID /\ st.votes[s].n >= MinVotes
    BY DEF BestVoted
  <2>3. st.votes \in Votes
    BY <1>3 DEF TIDStateRec, Votes
  <2>4. st.votes[s].n \in Nat /\ st.votes[s].best \in Score
    BY <2>1, <2>3, IdentityAssumption DEF Votes, MaxVotes
  <2>5. st.votes[s].n > 0
    BY <2>1, <2>4, MinVotesType
  <2>6. s \in Enrolled
    BY <1>3, <1>4, <2>1, <2>5 DEF Kept, Known, KnownAt
  <2>7. r \in Rec /\ r.sid = s
    BY <2>1, <2>4 DEF Rec
  <2>8. new \in TIDStateRec
    BY <1>3, <2>7, StateUpdate
  <2>9. new.sid = s /\ new.votes = st.votes /\ new.buffer = st.buffer
    BY <1>3 DEF Locked, TIDStateRec
  <2>10. Kept(c, t, new)
    BY <1>3, <2>8, <2>9 DEF Kept
  <2>11. Done(c, t, new, r)
    BY <1>6
  <2> HIDE DEF new, r
  <2> QED
    BY <1>1, <1>6, <2>6, <2>7, <2>9, <2>10, <2>11 DEF Reply
<1>7. ASSUME dets[c][t].flow = "MASTER", ~Frozen(c, t),
             Enroll(c, t, IF st.buffer = <<>>
                          THEN [st EXCEPT !.buffer = <<Embedding(c, t)>>] ELSE st)
      PROVE  \E u : Applies(c, t, u)
  <2> Usable(c, t)
    BY <1>1, <1>7 DEF Usable
  <2>1. CASE st.buffer # <<>>
    BY <1>1, <1>3, <1>7, <2>1 DEF Applies
  <2>2. CASE st.buffer = <<>>
    <3> DEFINE new == [st EXCEPT !.buffer = <<Embedding(c, t)>>]
    <3>1. Embedding(c, t) \in Emb /\ (Masks => Embedding(c, t).clean)
      BY <1>1, UsableIsClean, CurrentFacts
    <3>2. new \in TIDStateRec
      BY <1>3, <3>1, StateUpdate
    <3>3. new.sid = st.sid /\ new.votes = st.votes /\ new.buffer = <<Embedding(c, t)>>
      BY <1>3 DEF TIDStateRec
    <3>4. Members(<<Embedding(c, t)>>) = {Embedding(c, t)}
      BY DEF Members
    <3>5. Kept(c, t, new)
      BY <1>3, <1>7, <3>1, <3>2, <3>3, <3>4 DEF Kept
    <3>6. Enroll(c, t, new)
      BY <1>7, <2>2
    <3>7. new.buffer # <<>>
      BY <3>3
    <3> HIDE DEF new
    <3> QED
      BY <1>1, <1>3, <1>7, <3>3, <3>5, <3>6, <3>7 DEF Applies
  <2> QED
    BY <2>1, <2>2
<1> QED
  BY <1>2, <1>5, <1>6, <1>7

LEMMA RoiMissDecides ==
  ASSUME Shape, NEW c \in Cam, NEW t, RoiMiss(c, t)
  PROVE  \/ \E st, r : Reply(c, t, st, r)
         \/ \E st : Applies(c, t, st)
<1> DEFINE old == states[c][t]
           e == Embedding(c, t)
           new == [old EXCEPT !.buffer = Append(@, e)]
<1>1. /\ Searches(c, t) /\ Current(c, t)
      /\ dets[c][t].flow = "ROI" /\ old.sid = None
  BY DEF RoiMiss, Searches
<1>2. PICK r \in Search(e) : r.sid = None
  BY DEF RoiMiss
<1>3. /\ old \in TIDStateRec /\ Kept(c, t, old)
      /\ e \in Emb /\ e.who = dets[c][t].who
      /\ e.clean <=> dets[c][t].view = "clean"
  BY <1>1, CurrentFacts
<1>4. Usable(c, t)
  <2>1. ~Masks
    <3>1. dets[c][t].flow \in Flows(c)
      BY <1>1, CurrentFacts DEF Detection
    <3>2. Role[c] = "ROI"
      BY <1>1, <3>1, IdentityAssumption DEF Flows
    <3> QED
      BY <3>2, CallerAssumption
  <2> QED
    BY <1>1, <2>1 DEF Usable, Frozen
<1>5. /\ Kept(c, t, new) /\ new.sid = None /\ new.buffer # <<>>
      /\ dets[c][t].view = "clean" => Holders({dets[c][t].who}) = {}
  <2>1. old.buffer \in Seq(Emb)
    BY <1>3 DEF TIDStateRec
  <2>2. /\ Members(Append(old.buffer, e)) = Members(old.buffer) \cup {e}
        /\ Append(old.buffer, e) # <<>>
    BY <1>3, <2>1, MembersOf
  <2>3. new \in TIDStateRec
    BY <1>3, StateUpdate
  <2>4. new.sid = old.sid /\ new.votes = old.votes /\ new.buffer = Append(old.buffer, e)
    BY <1>3 DEF TIDStateRec
  <2>5. Masks => e.clean
    BY <1>1, <1>4, UsableIsClean, CurrentFacts
  <2>6. Kept(c, t, new)
    BY <1>1, <1>3, <2>2, <2>3, <2>4, <2>5 DEF Kept
  <2>7. e.clean => Holders({e.who}) = {}
    BY <1>2, <1>3, SearchFacts DEF Shape, TypeOK
  <2> QED
    BY <1>1, <1>3, <2>2, <2>4, <2>6, <2>7
<1>6. CASE /\ Done(c, t, new, NoRec)
           /\ UNCHANGED <<nextSid, gallery, dets, job>>
  <2> HIDE DEF new
  <2> QED
    BY <1>1, <1>5, <1>6, NoneIsNoSID DEF Reply
<1>7. CASE Enroll(c, t, new)
  <2> HIDE DEF new
  <2> QED
    BY <1>1, <1>4, <1>5, <1>7 DEF Applies
<1> QED
  BY <1>6, <1>7 DEF RoiMiss

\* The steps of a worker and of its crashes and restarts.
Step(c) ==
  \/ StartFrame(c) \/ Alloc(c) \/ Upsert(c) \/ Finish(c) \/ EndFrame(c)
  \/ Crash(c) \/ Restart(c)
  \/ \E t, st, r : Reply(c, t, st, r)
  \/ \E t, st : Applies(c, t, st)

LEMMA NextSteps ==
  ASSUME Shape, Known, [Next]_vars
  PROVE  (\E c \in Cam : Step(c)) \/ UNCHANGED vars
<1>1. CASE UNCHANGED vars
  BY <1>1
<1>2. ASSUME NEW c \in Cam, Work(c) \/ Crash(c) \/ Restart(c)
      PROVE  Step(c)
  <2>1. ASSUME NEW t \in Track,
               NoSearch(c, t) \/ LockOnMatch(c, t) \/ Qualify(c, t) \/ RoiMiss(c, t)
        PROVE  Step(c)
    BY <2>1, NoSearchReplies, LockOnMatchReplies, QualifyDecides, RoiMissDecides
       DEF Step
  <2> QED
    BY <1>2, <2>1 DEF Work, Step
<1> QED
  BY <1>1, <1>2 DEF Next

-----------------------------------------------------------------------------
(* The gallery *)

\* Storing and pruning: no identity loses its last embedding, and a member is
\* added only where it is stored.
Extends(g, s, new) ==
  /\ g \in [SID -> Seq(Emb)]
  /\ \A u \in SID : gallery[u] # <<>> => g[u] # <<>>
  /\ \A u \in SID : Members(g[u]) \subseteq
       Members(gallery[u]) \cup (IF u = s THEN new ELSE {})

LEMMA StoredFacts ==
  ASSUME gallery \in [SID -> Seq(Emb)], NEW s \in SID, NEW e \in Emb
  PROVE  /\ Extends(Stored(s, e), s, {e})
         /\ Stored(s, e)[s] # <<>>
<1>1. /\ gallery[s] \in Seq(Emb)
      /\ Append(gallery[s], e) \in Seq(Emb)
      /\ Append(gallery[s], e) # <<>>
      /\ Members(Append(gallery[s], e)) = Members(gallery[s]) \cup {e}
  BY MembersOf
<1>2. CASE Len(gallery[s]) >= MaxEmb
  <2>1. Stored(s, e) = gallery
    BY <1>2 DEF Stored
  <2>2. gallery[s] # <<>>
    BY <1>1, <1>2, IdentityAssumption
  <2> QED
    BY <2>1, <2>2 DEF Extends
<1>3. CASE ~(Len(gallery[s]) >= MaxEmb)
  BY <1>1, <1>3 DEF Stored, Extends
<1> QED
  BY <1>2, <1>3

LEMMA PrunedFacts ==
  ASSUME gallery \in [SID -> Seq(Emb)], NEW s \in SID, NEW g \in Pruned(s)
  PROVE  Extends(g, s, {})
<1>1. CASE g = gallery
  BY <1>1 DEF Extends
<1>2. ASSUME Len(gallery[s]) >= 3, NEW i \in DOMAIN gallery[s],
             g = [gallery EXCEPT ![s] = Without(@, i)]
      PROVE  Extends(g, s, {})
  <2>1. gallery[s] \in Seq(Emb)
    OBVIOUS
  <2>2. /\ Without(gallery[s], i) \in Seq(Emb)
        /\ Without(gallery[s], i) # <<>>
        /\ Members(Without(gallery[s], i)) \subseteq Members(gallery[s])
    BY <1>2, <2>1, MembersWithout
  <2>3. g = [gallery EXCEPT ![s] = Without(gallery[s], i)]
    BY <1>2
  <2> QED
    BY <2>2, <2>3 DEF Extends
<1> QED
  BY <1>1, <1>2 DEF Pruned

\* Only an upsert adds an embedding, to the identity of the worker's enrolment.
LEMMA GalleryStep ==
  ASSUME Shape, NEW c \in Cam, Step(c)
  PROVE  /\ ~Upsert(c) => Extends(gallery', job[c].sid, {})
         /\ Upsert(c) => /\ Extends(gallery', job[c].sid, {Head(job[c].queue)})
                         /\ gallery'[job[c].sid] # <<>>
<1> USE DEF Step
<1>1. gallery \in [SID -> Seq(Emb)]
  BY DEF Shape, TypeOK
<1>2. stage[c] = "store" => job[c].sid \in SID
  BY IdentityAssumption DEF Shape, TypeOK, SID
<1>3. CASE Upsert(c)
  <2>1. Head(job[c].queue) \in Emb
    BY <1>3 DEF Upsert, Shape, TypeOK
  <2> QED
    BY <1>1, <1>2, <1>3, <2>1, StoredFacts DEF Upsert
<1>4. CASE Finish(c)
  <2>1. gallery' \in Pruned(job[c].sid) /\ stage[c] = "store" /\ job[c].queue = <<>>
    BY <1>4 DEF Finish
  <2>2. Extends(gallery', job[c].sid, {})
    BY <1>1, <1>2, <2>1, PrunedFacts
  <2> QED
    BY <2>1, <2>2 DEF Upsert
<1>5. CASE ~Upsert(c) /\ ~Finish(c)
  <2>1. gallery' = gallery
    BY <1>5 DEF StartFrame, Alloc, EndFrame, Crash, Restart, Reply, Applies, Enroll
  <2> QED
    BY <1>1, <1>5, <2>1 DEF Extends
<1> QED
  BY <1>3, <1>4, <1>5

LEMMA EnrolledStep ==
  ASSUME Shape, NEW c \in Cam, Step(c)
  PROVE  Enrolled \subseteq Enrolled'
BY GalleryStep DEF Enrolled, Extends

-----------------------------------------------------------------------------
(* Typing *)

LEMMA EndFrameFacts ==
  ASSUME NEW c, EndFrame(c)
  PROVE  \E lost \in SUBSET (Track \ DOMAIN dets[c]), lose \in Losers(c) :
           /\ states' = [states EXCEPT ![c] =
                [t \in Track |-> IF t \in lost THEN Fresh
                                 ELSE IF t \in lose THEN Locked(states[c][t], None, 0)
                                 ELSE states[c][t]]]
           /\ recs' = [recs EXCEPT ![c] =
                [t \in Track |-> IF t \in lose THEN NoRec ELSE recs[c][t]]]
           /\ stage[c] = "frame" /\ pending[c] = {}
           /\ stage' = [stage EXCEPT ![c] = "idle"]
           /\ UNCHANGED <<nextSid, gallery, dets, pending, job>>
BY DEF EndFrame

Stage == {"idle", "frame", "alloc", "store", "dead"}

\* A step of one camera leaves the tables of the others alone.
OnlyAt(c) ==
  /\ states' = [states EXCEPT ![c] = states'[c]]
  /\ stage' = [stage EXCEPT ![c] = stage'[c]]
  /\ recs' = [recs EXCEPT ![c] = recs'[c]]
  /\ pending' = [pending EXCEPT ![c] = pending'[c]]
  /\ job' = [job EXCEPT ![c] = job'[c]]
  /\ dets' = [dets EXCEPT ![c] = dets'[c]]

LEMMA ShapeOfOne ==
  ASSUME Shape, NEW c \in Cam, OnlyAt(c),
         nextSid' \in nextSid..MaxSid + 1,
         gallery' \in [SID -> Seq(Emb)],
         states'[c] \in [Track -> TIDStateRec],
         stage'[c] \in Stage,
         recs'[c] \in [Track -> Rec],
         pending'[c] \in SUBSET Track,
         job'[c] \in [track : Track \cup {None}, sid : SID \cup {None},
                      queue : Seq(Emb)],
         pending'[c] \subseteq DOMAIN dets'[c], DOMAIN dets'[c] \subseteq Track,
         \A t \in DOMAIN dets'[c] : /\ dets'[c][t] \in Detection(c)
                                    /\ dets'[c][t].who \in Shows(c, t),
         stage'[c] \in {"alloc", "store"} => job'[c].track \in pending'[c],
         stage'[c] = "store" => job'[c].sid \in 1..nextSid' - 1
  PROVE  Shape'
<1> USE DEF Shape, TypeOK, OnlyAt
<1>a. nextSid' \in 1..MaxSid + 1
  BY IdentityAssumption
<1>b. states' \in [Cam -> [Track -> TIDStateRec]]
  OBVIOUS
<1>c. recs' \in [Cam -> [Track -> [sid : SID \cup {None}, score : Score]]]
  BY DEF Rec
<1>d. pending' \in [Cam -> SUBSET Track]
  OBVIOUS
<1>2. stage' \in [Cam -> Stage]
  BY DEF Stage
<1>3. job' \in [Cam -> [track : Track \cup {None}, sid : SID \cup {None},
                        queue : Seq(Emb)]]
  OBVIOUS
<1>4. dets' = [x \in Cam |-> dets'[x]]
  OBVIOUS
<1>5. ASSUME NEW x \in Cam
      PROVE  /\ pending'[x] \subseteq DOMAIN dets'[x]
             /\ DOMAIN dets'[x] \subseteq Track
             /\ \A t \in DOMAIN dets'[x] : /\ dets'[x][t] \in Detection(x)
                                           /\ dets'[x][t].who \in Shows(x, t)
             /\ stage'[x] \in {"alloc", "store"} => job'[x].track \in pending'[x]
             /\ stage'[x] = "store" => job'[x].sid \in 1..nextSid' - 1
  <2>1. CASE x = c
    BY <2>1
  <2>2. CASE x # c
    <3>1. /\ pending'[x] = pending[x] /\ dets'[x] = dets[x]
          /\ stage'[x] = stage[x] /\ job'[x] = job[x]
      BY <2>2
    <3>2. stage[x] = "store" => job[x].sid \in 1..nextSid' - 1
      BY IdentityAssumption
    <3> QED
      BY <3>1, <3>2
  <2> QED
    BY <2>1, <2>2
<1>6. \A x \in Cam : job'[x].queue \in Seq(Emb)
  BY <1>3
<1> QED
  BY <1>a, <1>b, <1>c, <1>d, <1>2, <1>3, <1>4, <1>5, <1>6 DEF Stage, Detection, Flows

\* The variables of one camera.
LEMMA ShapeOfCamera ==
  ASSUME Shape, NEW c \in Cam
  PROVE  /\ states[c] \in [Track -> TIDStateRec]
         /\ stage[c] \in Stage
         /\ recs[c] \in [Track -> Rec]
         /\ pending[c] \in SUBSET Track
         /\ job[c] \in [track : Track \cup {None}, sid : SID \cup {None},
                        queue : Seq(Emb)]
         /\ pending[c] \subseteq DOMAIN dets[c] /\ DOMAIN dets[c] \subseteq Track
         /\ \A t \in DOMAIN dets[c] : /\ dets[c][t] \in Detection(c)
                                      /\ dets[c][t].who \in Shows(c, t)
         /\ stage[c] \in {"alloc", "store"} => job[c].track \in pending[c]
         /\ stage[c] = "store" => job[c].sid \in 1..nextSid - 1 /\ job[c].sid \in SID
         /\ nextSid \in 1..MaxSid + 1
<1>1. stage[c] = "store" => job[c].sid \in SID
  BY IdentityAssumption DEF Shape, TypeOK, SID
<1> QED
  BY <1>1 DEF Shape, TypeOK, Stage, Rec

\* What Done and Enroll write at the camera, and that they do only there.
DoneAt(c, t, st, r) ==
  /\ states'[c] = [states[c] EXCEPT ![t] = st]
  /\ recs'[c] = [recs[c] EXCEPT ![t] = r]
  /\ pending'[c] = pending[c] \ {t}
  /\ stage'[c] = "frame"

DoneAlone(c) ==
  /\ states' = [states EXCEPT ![c] = states'[c]]
  /\ recs' = [recs EXCEPT ![c] = recs'[c]]
  /\ pending' = [pending EXCEPT ![c] = pending'[c]]
  /\ stage' = [stage EXCEPT ![c] = stage'[c]]

LEMMA DoneFacts ==
  ASSUME Shape, NEW c \in Cam, NEW t \in Track, NEW st, NEW r, Done(c, t, st, r)
  PROVE  DoneAt(c, t, st, r) /\ DoneAlone(c)
BY DEF Done, DoneAt, DoneAlone, Shape, TypeOK

EnrollAt(c, t, st) ==
  /\ states'[c] = [states[c] EXCEPT ![t] = st]
  /\ job'[c] = [track |-> t, sid |-> None, queue |-> st.buffer]
  /\ stage'[c] = "alloc"
  /\ UNCHANGED <<nextSid, gallery, dets, pending, recs>>

EnrollAlone(c) ==
  /\ states' = [states EXCEPT ![c] = states'[c]]
  /\ job' = [job EXCEPT ![c] = job'[c]]
  /\ stage' = [stage EXCEPT ![c] = stage'[c]]

LEMMA EnrollFacts ==
  ASSUME Shape, NEW c \in Cam, NEW t \in Track, NEW st, Enroll(c, t, st)
  PROVE  EnrollAt(c, t, st) /\ EnrollAlone(c)
BY DEF Enroll, EnrollAt, EnrollAlone, Shape, TypeOK

LEMMA OnlyOneMoves ==
  ASSUME Shape, NEW c \in Cam, Step(c)
  PROVE  OnlyAt(c)
<1> USE DEF Shape, TypeOK, OnlyAt
<1>1. CASE StartFrame(c)
  BY <1>1 DEF StartFrame
<1>2. CASE Alloc(c)
  BY <1>2 DEF Alloc
<1>3. CASE Upsert(c)
  BY <1>3 DEF Upsert
<1>4. CASE Finish(c)
  <2>1. job[c].track \in Track
    BY <1>4 DEF Finish
  <2>2. \E st, r : Done(c, job[c].track, st, r)
    BY <1>4 DEF Finish
  <2>3. UNCHANGED dets /\ job' = [job EXCEPT ![c] = NoJob]
    BY <1>4 DEF Finish
  <2> QED
    BY <2>1, <2>2, <2>3, DoneFacts DEF DoneAlone
<1>5. CASE EndFrame(c)
  BY <1>5, EndFrameFacts
<1>6. CASE Crash(c)
  BY <1>6 DEF Crash
<1>7. CASE Restart(c)
  BY <1>7 DEF Restart
<1>8. ASSUME NEW t, NEW st, NEW r, Reply(c, t, st, r) PROVE OnlyAt(c)
  <2>1. t \in Track
    BY <1>8, CurrentFacts DEF Reply
  <2>2. Done(c, t, st, r) /\ UNCHANGED <<job, dets>>
    BY <1>8 DEF Reply
  <2> QED
    BY <2>1, <2>2, DoneFacts DEF DoneAlone
<1>9. ASSUME NEW t, NEW st, Applies(c, t, st) PROVE OnlyAt(c)
  <2>1. t \in Track /\ Enroll(c, t, st)
    BY <1>9, CurrentFacts DEF Applies
  <2> QED
    BY <2>1, EnrollFacts DEF EnrollAlone, EnrollAt
<1> QED
  BY <1>1, <1>2, <1>3, <1>4, <1>5, <1>6, <1>7, <1>8, <1>9 DEF Step

\* Done and Enroll give the camera tables of the right type.
LEMMA TrackType ==
  ASSUME Shape, NEW c \in Cam, NEW t \in Track
  PROVE  /\ \A st \in TIDStateRec :
              [states[c] EXCEPT ![t] = st] \in [Track -> TIDStateRec]
         /\ \A r \in Rec : [recs[c] EXCEPT ![t] = r] \in [Track -> Rec]
BY ShapeOfCamera

LEMMA NoJobType ==
  NoJob \in [track : Track \cup {None}, sid : SID \cup {None}, queue : Seq(Emb)]
<1>1. <<>> \in Seq(Emb)
  OBVIOUS
<1> QED
  BY <1>1 DEF NoJob

\* The identity of an enrolment, with the score of a first match, as a record.
LEMMA FinishFacts ==
  ASSUME Shape, NEW c \in Cam, Finish(c)
  PROVE  \E t \in Track, st \in TIDStateRec, r \in Rec :
           /\ Done(c, t, st, r)
           /\ st.sid = job[c].sid /\ r.sid = job[c].sid
           /\ st.votes = states[c][t].votes
           /\ st.buffer \in {states[c][t].buffer, <<>>}
           /\ stage[c] = "store" /\ job[c].queue = <<>>
           /\ job' = [job EXCEPT ![c] = NoJob]
           /\ UNCHANGED <<nextSid, dets>>
<1> DEFINE t == job[c].track
           old == states[c][t]
           st == IF dets[c][t].flow = "ROI" THEN [old EXCEPT !.buffer = <<>>] ELSE old
           new == Locked(st, job[c].sid, MaxScore)
<1>1. /\ stage[c] = "store" /\ job[c].queue = <<>>
      /\ Done(c, t, new, RecOf(job[c].sid))
      /\ job' = [job EXCEPT ![c] = NoJob]
      /\ UNCHANGED <<nextSid, dets>>
  BY DEF Finish
<1>2. t \in Track /\ job[c].sid \in SID
  BY <1>1, ShapeOfCamera
<1>3. old \in TIDStateRec
  BY <1>2, ShapeOfCamera
<1>4. /\ st \in TIDStateRec /\ st.votes = old.votes
      /\ st.buffer \in {old.buffer, <<>>}
  BY <1>3, StateUpdate DEF TIDStateRec
<1>5. [sid |-> job[c].sid, score |-> MaxScore] \in Rec
  BY <1>2, IdentityAssumption DEF Rec, Score
<1> HIDE DEF st
<1>6. new \in TIDStateRec
  BY <1>4, <1>5, StateUpdate
<1>7. new.sid = job[c].sid /\ new.votes = st.votes /\ new.buffer = st.buffer
  BY <1>4 DEF Locked, TIDStateRec
<1>8. RecOf(job[c].sid) \in Rec /\ RecOf(job[c].sid).sid = job[c].sid
  BY <1>2, IdentityAssumption DEF RecOf, Rec, Score
<1> HIDE DEF new
<1> QED
  BY <1>1, <1>2, <1>4, <1>6, <1>7, <1>8

LEMMA ShapeStep ==
  ASSUME Shape, NEW c \in Cam, Step(c)
  PROVE  Shape'
<1>0. gallery' \in [SID -> Seq(Emb)] /\ OnlyAt(c)
  BY GalleryStep, OnlyOneMoves DEF Extends
<1>1. CASE StartFrame(c)
  <2>1. PICK d \in Detections(c) :
          /\ dets' = [dets EXCEPT ![c] = d]
          /\ pending' = [pending EXCEPT ![c] = DOMAIN d]
    BY <1>1 DEF StartFrame
  <2>2. PICK V \in SUBSET Track : d \in [V -> Detection(c)]
    BY DEF Detections, Detection
  <2>3. \A t \in DOMAIN d : d[t] \in Detection(c) /\ d[t].who \in Shows(c, t)
    BY <2>2 DEF Detections
  <2>4. [t \in Track |-> NoRec] \in [Track -> Rec]
    BY NoneIsNoSID
  <2>5. "frame" \in Stage /\ "frame" \notin {"alloc", "store"}
    BY DEF Stage
  <2>6. /\ recs' = [recs EXCEPT ![c] = [t \in Track |-> NoRec]]
        /\ stage' = [stage EXCEPT ![c] = "frame"]
        /\ UNCHANGED <<nextSid, gallery, states, job>>
    BY <1>1 DEF StartFrame
  <2>7. dets'[c] = d /\ pending'[c] = DOMAIN d
    BY <2>1 DEF Shape
  <2>8. recs'[c] = [t \in Track |-> NoRec] /\ stage'[c] = "frame"
    BY <2>6 DEF Shape, TypeOK
  <2> QED
    BY <1>0, <2>2, <2>3, <2>4, <2>5, <2>6, <2>7, <2>8, ShapeOfOne, ShapeOfCamera
<1>2. CASE Alloc(c)
  <2>1. /\ nextSid <= MaxSid /\ nextSid' = nextSid + 1 /\ stage[c] = "alloc"
        /\ UNCHANGED <<gallery, states, dets, pending, recs>>
    BY <1>2 DEF Alloc
  <2>2. stage'[c] = "store" /\ job'[c] = [job[c] EXCEPT !.sid = nextSid]
    BY <1>2 DEF Alloc, Shape, TypeOK
  <2>3. nextSid \in SID /\ nextSid' \in nextSid..MaxSid + 1 /\ nextSid \in 1..nextSid' - 1
    BY <2>1, ShapeOfCamera, IdentityAssumption DEF SID
  <2>4. /\ job'[c] \in [track : Track \cup {None}, sid : SID \cup {None},
                        queue : Seq(Emb)]
        /\ job'[c].track = job[c].track /\ job'[c].sid = nextSid
    BY <2>2, <2>3, ShapeOfCamera
  <2> QED
    BY <1>0, <2>1, <2>2, <2>3, <2>4, ShapeOfOne, ShapeOfCamera DEF Stage
<1>3. CASE Upsert(c)
  <2>1. /\ stage[c] = "store" /\ job[c].queue # <<>>
        /\ UNCHANGED <<nextSid, states, stage, dets, pending, recs>>
    BY <1>3 DEF Upsert
  <2>2. job'[c] = [job[c] EXCEPT !.queue = Tail(job[c].queue)]
    BY <1>3 DEF Upsert, Shape
  <2>3. Tail(job[c].queue) \in Seq(Emb)
    BY <2>1, ShapeOfCamera
  <2>4. /\ job'[c] \in [track : Track \cup {None}, sid : SID \cup {None},
                        queue : Seq(Emb)]
        /\ job'[c].track = job[c].track /\ job'[c].sid = job[c].sid
    BY <2>2, <2>3, ShapeOfCamera
  <2>5. nextSid' \in nextSid..MaxSid + 1
    BY <2>1, ShapeOfCamera, IdentityAssumption
  <2> QED
    BY <1>0, <2>1, <2>4, <2>5, ShapeOfOne, ShapeOfCamera
<1>4. CASE Finish(c)
  <2>1. PICK t \in Track, st \in TIDStateRec, r \in Rec :
           /\ Done(c, t, st, r)
           /\ job' = [job EXCEPT ![c] = NoJob]
           /\ UNCHANGED <<nextSid, dets>>
    BY <1>4, FinishFacts
  <2>2. /\ states'[c] = [states[c] EXCEPT ![t] = st]
        /\ recs'[c] = [recs[c] EXCEPT ![t] = r]
        /\ pending'[c] = pending[c] \ {t}
        /\ stage'[c] = "frame"
    <3>1. Done(c, t, st, r)
      BY <2>1
    <3> QED
      BY <3>1, DoneFacts DEF DoneAt
  <2>3. job'[c] = NoJob
    BY <2>1 DEF Shape
  <2>4. nextSid' \in nextSid..MaxSid + 1
    BY <2>1, ShapeOfCamera, IdentityAssumption
  <2>5. states'[c] \in [Track -> TIDStateRec] /\ recs'[c] \in [Track -> Rec]
    BY <2>1, <2>2, TrackType
  <2>6. job'[c] \in [track : Track \cup {None}, sid : SID \cup {None},
                     queue : Seq(Emb)]
    BY <2>3, NoJobType
  <2>7. /\ stage'[c] \in Stage /\ stage'[c] \notin {"alloc", "store"}
        /\ stage'[c] # "store"
    BY <2>2 DEF Stage
  <2>8. /\ pending'[c] \in SUBSET Track
        /\ pending'[c] \subseteq DOMAIN dets'[c] /\ DOMAIN dets'[c] \subseteq Track
        /\ \A x \in DOMAIN dets'[c] : /\ dets'[c][x] \in Detection(c)
                                      /\ dets'[c][x].who \in Shows(c, x)
    BY <2>1, <2>2, ShapeOfCamera
  <2> QED
    BY <1>0, <2>4, <2>5, <2>6, <2>7, <2>8, ShapeOfOne
<1>5. CASE EndFrame(c)
  <2>1. PICK lost \in SUBSET (Track \ DOMAIN dets[c]), lose \in Losers(c) :
           /\ states' = [states EXCEPT ![c] =
                [t \in Track |-> IF t \in lost THEN Fresh
                                 ELSE IF t \in lose THEN Locked(states[c][t], None, 0)
                                 ELSE states[c][t]]]
           /\ recs' = [recs EXCEPT ![c] =
                [t \in Track |-> IF t \in lose THEN NoRec ELSE recs[c][t]]]
           /\ stage' = [stage EXCEPT ![c] = "idle"]
           /\ UNCHANGED <<nextSid, gallery, dets, pending, job>>
    BY <1>5, EndFrameFacts
  <2>2. NoRec.sid = None /\ NoRec.score = 0
    BY DEF NoRec
  <2>3. \A t \in Track : Locked(states[c][t], None, 0) \in TIDStateRec
    BY <2>2, NoneIsNoSID, StateUpdate, ShapeOfCamera
  <2>4. states'[c] \in [Track -> TIDStateRec]
    <3>1. states'[c] =
            [t \in Track |-> IF t \in lost THEN Fresh
                             ELSE IF t \in lose THEN Locked(states[c][t], None, 0)
                             ELSE states[c][t]]
      BY <2>1 DEF Shape, TypeOK
    <3> QED
      BY <2>3, <3>1, FreshFacts, ShapeOfCamera
  <2>5. recs'[c] \in [Track -> Rec]
    <3>1. recs'[c] = [t \in Track |-> IF t \in lose THEN NoRec ELSE recs[c][t]]
      BY <2>1 DEF Shape, TypeOK
    <3> QED
      BY <3>1, NoneIsNoSID, ShapeOfCamera
  <2>6. stage'[c] = "idle"
    BY <2>1 DEF Shape, TypeOK
  <2>7. nextSid' \in nextSid..MaxSid + 1
    BY <2>1, ShapeOfCamera, IdentityAssumption
  <2> QED
    BY <1>0, <2>1, <2>4, <2>5, <2>6, <2>7, ShapeOfOne, ShapeOfCamera DEF Stage
<1>6. CASE Crash(c)
  <2>1. /\ stage'[c] = "dead" /\ job'[c] = NoJob
        /\ pending'[c] = {} /\ dets'[c] = EmptyDict
        /\ recs'[c] = [t \in Track |-> NoRec]
        /\ states'[c] = [t \in Track |-> Fresh]
        /\ UNCHANGED <<nextSid, gallery>>
    BY <1>6 DEF Crash, Shape, TypeOK
  <2>2. DOMAIN EmptyDict = {}
    BY DEF EmptyDict
  <2>3. nextSid' \in nextSid..MaxSid + 1
    BY <2>1, ShapeOfCamera, IdentityAssumption
  <2>4. recs'[c] \in [Track -> Rec] /\ states'[c] \in [Track -> TIDStateRec]
    BY <2>1, NoneIsNoSID, FreshFacts
  <2> QED
    BY <1>0, <2>1, <2>2, <2>3, <2>4, NoJobType, ShapeOfOne DEF Stage
<1>7. CASE Restart(c)
  <2>1. /\ stage'[c] = "idle"
        /\ UNCHANGED <<nextSid, gallery, states, dets, pending, recs, job>>
    BY <1>7 DEF Restart, Shape, TypeOK
  <2>2. nextSid' \in nextSid..MaxSid + 1
    BY <2>1, ShapeOfCamera, IdentityAssumption
  <2> QED
    BY <1>0, <2>1, <2>2, ShapeOfOne, ShapeOfCamera DEF Stage
<1>8. ASSUME NEW t, NEW st, NEW r, Reply(c, t, st, r) PROVE Shape'
  <2>1. /\ t \in Track /\ Done(c, t, st, r) /\ r \in Rec /\ st \in TIDStateRec
        /\ UNCHANGED <<nextSid, gallery, dets, job>> /\ stage[c] = "frame"
    BY <1>8, CurrentFacts DEF Reply, Kept, Current
  <2>2. /\ states'[c] = [states[c] EXCEPT ![t] = st]
        /\ recs'[c] = [recs[c] EXCEPT ![t] = r]
        /\ pending'[c] = pending[c] \ {t} /\ stage'[c] = "frame"
    BY <2>1, DoneFacts DEF DoneAt
  <2>3. nextSid' \in nextSid..MaxSid + 1
    BY <2>1, ShapeOfCamera, IdentityAssumption
  <2>4. states'[c] \in [Track -> TIDStateRec] /\ recs'[c] \in [Track -> Rec]
    BY <2>1, <2>2, TrackType
  <2> QED
    BY <1>0, <2>1, <2>2, <2>3, <2>4, ShapeOfOne, ShapeOfCamera DEF Stage
<1>9. ASSUME NEW t, NEW st, Applies(c, t, st) PROVE Shape'
  <2>1. /\ t \in Track /\ t \in pending[c] /\ Enroll(c, t, st) /\ st \in TIDStateRec
    BY <1>9, CurrentFacts DEF Applies, Kept, Current
  <2>2. /\ states'[c] = [states[c] EXCEPT ![t] = st]
        /\ job'[c] = [track |-> t, sid |-> None, queue |-> st.buffer]
        /\ stage'[c] = "alloc"
        /\ UNCHANGED <<nextSid, gallery, dets, pending, recs>>
    BY <2>1, EnrollFacts DEF EnrollAt
  <2>3. nextSid' \in nextSid..MaxSid + 1
    BY <2>2, ShapeOfCamera, IdentityAssumption
  <2>4. states'[c] \in [Track -> TIDStateRec]
    BY <2>1, <2>2, TrackType
  <2>5. /\ job'[c] \in [track : Track \cup {None}, sid : SID \cup {None},
                        queue : Seq(Emb)]
        /\ job'[c].track \in pending'[c]
    BY <2>1, <2>2 DEF TIDStateRec
  <2> QED
    BY <1>0, <2>2, <2>3, <2>4, <2>5, ShapeOfOne, ShapeOfCamera DEF Stage
<1> QED
  BY <1>1, <1>2, <1>3, <1>4, <1>5, <1>6, <1>7, <1>8, <1>9 DEF Step

-----------------------------------------------------------------------------
(* Steps at the camera that moves, and at the others *)

LEMMA OthersStay ==
  ASSUME Shape, NEW c \in Cam, OnlyAt(c), NEW x \in Cam, x # c
  PROVE  /\ states'[x] = states[x] /\ stage'[x] = stage[x]
         /\ recs'[x] = recs[x] /\ pending'[x] = pending[x]
         /\ job'[x] = job[x] /\ dets'[x] = dets[x]
BY DEF OnlyAt, Shape, TypeOK

LEMMA StartFrameAt ==
  ASSUME Shape, NEW c \in Cam, StartFrame(c)
  PROVE  /\ stage[c] = "idle" /\ stage'[c] = "frame"
         /\ recs'[c] = [t \in Track |-> NoRec]
         /\ pending'[c] = DOMAIN dets'[c]
         /\ UNCHANGED <<nextSid, gallery, states, job>>
BY DEF StartFrame, Shape, TypeOK

LEMMA AllocAt ==
  ASSUME Shape, NEW c \in Cam, Alloc(c)
  PROVE  /\ stage[c] = "alloc" /\ stage'[c] = "store"
         /\ nextSid \in SID /\ nextSid' = nextSid + 1
         /\ job'[c].sid = nextSid
         /\ job'[c].track = job[c].track /\ job'[c].queue = job[c].queue
         /\ UNCHANGED <<gallery, states, dets, pending, recs>>
<1>1. /\ stage[c] = "alloc" /\ nextSid <= MaxSid /\ nextSid' = nextSid + 1
      /\ UNCHANGED <<gallery, states, dets, pending, recs>>
  BY DEF Alloc
<1>2. stage'[c] = "store" /\ job'[c] = [job[c] EXCEPT !.sid = nextSid]
  BY DEF Alloc, Shape, TypeOK
<1>3. nextSid \in SID
  BY <1>1, ShapeOfCamera, IdentityAssumption DEF SID
<1> QED
  BY <1>1, <1>2, <1>3, ShapeOfCamera

LEMMA UpsertAt ==
  ASSUME Shape, NEW c \in Cam, Upsert(c)
  PROVE  /\ stage[c] = "store" /\ job[c].queue # <<>>
         /\ job'[c].queue = Tail(job[c].queue)
         /\ job'[c].track = job[c].track /\ job'[c].sid = job[c].sid
         /\ gallery' = Stored(job[c].sid, Head(job[c].queue))
         /\ UNCHANGED <<nextSid, states, stage, dets, pending, recs>>
<1>1. job'[c] = [job[c] EXCEPT !.queue = Tail(job[c].queue)]
  BY DEF Upsert, Shape
<1> QED
  BY <1>1, ShapeOfCamera DEF Upsert

LEMMA EndFrameAt ==
  ASSUME Shape, NEW c \in Cam, EndFrame(c)
  PROVE  /\ stage[c] = "frame" /\ pending[c] = {} /\ stage'[c] = "idle"
         /\ UNCHANGED <<nextSid, gallery, dets, pending, job>>
         /\ \E lost \in SUBSET (Track \ DOMAIN dets[c]), lose \in Losers(c) :
              \A t \in Track :
                /\ states'[c][t] \in {Fresh, states[c][t],
                                      Locked(states[c][t], None, 0)}
                /\ t \notin lost /\ t \notin lose => states'[c][t] = states[c][t]
                /\ t \notin lost /\ t \in lose =>
                     states'[c][t] = Locked(states[c][t], None, 0)
                /\ recs'[c][t] = IF t \in lose THEN NoRec ELSE recs[c][t]
<1>1. PICK lost \in SUBSET (Track \ DOMAIN dets[c]), lose \in Losers(c) :
           /\ states' = [states EXCEPT ![c] =
                [t \in Track |-> IF t \in lost THEN Fresh
                                 ELSE IF t \in lose THEN Locked(states[c][t], None, 0)
                                 ELSE states[c][t]]]
           /\ recs' = [recs EXCEPT ![c] =
                [t \in Track |-> IF t \in lose THEN NoRec ELSE recs[c][t]]]
           /\ stage[c] = "frame" /\ pending[c] = {}
           /\ stage' = [stage EXCEPT ![c] = "idle"]
           /\ UNCHANGED <<nextSid, gallery, dets, pending, job>>
  BY EndFrameFacts
<1>2. stage'[c] = "idle"
  BY <1>1 DEF Shape, TypeOK
<1>3. \A t \in Track :
        /\ states'[c][t] = IF t \in lost THEN Fresh
                           ELSE IF t \in lose THEN Locked(states[c][t], None, 0)
                           ELSE states[c][t]
        /\ recs'[c][t] = IF t \in lose THEN NoRec ELSE recs[c][t]
  BY <1>1 DEF Shape, TypeOK
<1> QED
  BY <1>1, <1>2, <1>3

LEMMA CrashAt ==
  ASSUME Shape, NEW c \in Cam, Crash(c)
  PROVE  /\ stage'[c] = "dead" /\ job'[c] = NoJob
         /\ DOMAIN dets'[c] = {} /\ pending'[c] = {}
         /\ \A t \in Track : recs'[c][t] = NoRec /\ states'[c][t] = Fresh
         /\ UNCHANGED <<nextSid, gallery>>
<1>1. /\ stage'[c] = "dead" /\ job'[c] = NoJob
      /\ dets'[c] = EmptyDict /\ pending'[c] = {}
      /\ recs'[c] = [t \in Track |-> NoRec]
      /\ states'[c] = [t \in Track |-> Fresh]
      /\ UNCHANGED <<nextSid, gallery>>
  BY DEF Crash, Shape, TypeOK
<1> QED
  BY <1>1 DEF EmptyDict

LEMMA RestartAt ==
  ASSUME Shape, NEW c \in Cam, Restart(c)
  PROVE  /\ stage[c] = "dead" /\ stage'[c] = "idle"
         /\ UNCHANGED <<nextSid, gallery, states, dets, pending, recs, job>>
BY DEF Restart, Shape, TypeOK

\* An answer touches one track of the frame.
LEMMA ReplyAt ==
  ASSUME Shape, NEW c \in Cam, NEW t, NEW st, NEW r, Reply(c, t, st, r)
  PROVE  /\ t \in Track /\ t \in pending[c]
         /\ stage[c] = "frame" /\ stage'[c] = "frame"
         /\ states'[c][t] = st /\ recs'[c][t] = r
         /\ pending'[c] = pending[c] \ {t}
         /\ \A u \in Track \ {t} : /\ states'[c][u] = states[c][u]
                                   /\ recs'[c][u] = recs[c][u]
         /\ UNCHANGED <<nextSid, gallery, dets, job>>
<1>1. /\ t \in Track /\ t \in pending[c] /\ stage[c] = "frame"
      /\ Done(c, t, st, r) /\ UNCHANGED <<nextSid, gallery, dets, job>>
  BY CurrentFacts DEF Reply, Current
<1>2. /\ states'[c] = [states[c] EXCEPT ![t] = st]
      /\ recs'[c] = [recs[c] EXCEPT ![t] = r]
      /\ pending'[c] = pending[c] \ {t} /\ stage'[c] = "frame"
  BY <1>1, DoneFacts DEF DoneAt
<1> QED
  BY <1>1, <1>2, ShapeOfCamera

LEMMA AppliesAt ==
  ASSUME Shape, NEW c \in Cam, NEW t, NEW st, Applies(c, t, st)
  PROVE  /\ t \in Track /\ t \in pending[c]
         /\ stage[c] = "frame" /\ stage'[c] = "alloc"
         /\ states'[c][t] = st
         /\ \A u \in Track \ {t} : states'[c][u] = states[c][u]
         /\ job'[c].track = t /\ job'[c].queue = st.buffer
         /\ UNCHANGED <<nextSid, gallery, dets, pending, recs>>
<1>1. /\ t \in Track /\ t \in pending[c] /\ stage[c] = "frame"
      /\ Enroll(c, t, st)
  BY CurrentFacts DEF Applies, Current
<1>2. /\ states'[c] = [states[c] EXCEPT ![t] = st]
      /\ job'[c] = [track |-> t, sid |-> None, queue |-> st.buffer]
      /\ stage'[c] = "alloc"
      /\ UNCHANGED <<nextSid, gallery, dets, pending, recs>>
  BY <1>1, EnrollFacts DEF EnrollAt
<1> QED
  BY <1>1, <1>2, ShapeOfCamera

LEMMA FinishAt ==
  ASSUME Shape, NEW c \in Cam, Finish(c)
  PROVE  /\ stage[c] = "store" /\ stage'[c] = "frame"
         /\ job[c].queue = <<>> /\ job'[c] = NoJob
         /\ UNCHANGED <<nextSid, dets>>
         /\ \E t \in Track :
              /\ states'[c][t].sid = job[c].sid /\ recs'[c][t].sid = job[c].sid
              /\ states'[c][t].votes = states[c][t].votes
              /\ states'[c][t].buffer \in {states[c][t].buffer, <<>>}
              /\ pending'[c] = pending[c] \ {t}
              /\ \A u \in Track \ {t} : /\ states'[c][u] = states[c][u]
                                        /\ recs'[c][u] = recs[c][u]
<1>1. PICK t \in Track, st \in TIDStateRec, r \in Rec :
           /\ Done(c, t, st, r)
           /\ st.sid = job[c].sid /\ r.sid = job[c].sid
           /\ st.votes = states[c][t].votes
           /\ st.buffer \in {states[c][t].buffer, <<>>}
           /\ stage[c] = "store" /\ job[c].queue = <<>>
           /\ job' = [job EXCEPT ![c] = NoJob]
           /\ UNCHANGED <<nextSid, dets>>
  BY FinishFacts
<1>2. /\ states'[c] = [states[c] EXCEPT ![t] = st]
      /\ recs'[c] = [recs[c] EXCEPT ![t] = r]
      /\ pending'[c] = pending[c] \ {t} /\ stage'[c] = "frame"
  <2>1. Done(c, t, st, r)
    BY <1>1
  <2> QED
    BY <2>1, DoneFacts DEF DoneAt
<1>3. job'[c] = NoJob
  BY <1>1 DEF Shape
<1>4. /\ states'[c][t] = st /\ recs'[c][t] = r
      /\ \A u \in Track \ {t} : /\ states'[c][u] = states[c][u]
                                /\ recs'[c][u] = recs[c][u]
  BY <1>2, ShapeOfCamera
<1> QED
  BY <1>1, <1>2, <1>3, <1>4

LEMMA LockedFacts ==
  ASSUME NEW st \in TIDStateRec, NEW s, NEW score
  PROVE  /\ Locked(st, s, score).sid = s
         /\ Locked(st, s, score).votes = st.votes
         /\ Locked(st, s, score).buffer = st.buffer
BY DEF Locked, TIDStateRec

-----------------------------------------------------------------------------
(* Locks are of enrolled identities *)

LEMMA KnownStep ==
  ASSUME Shape, Known, NEW c \in Cam, Step(c)
  PROVE  Known'
<1>1. Enrolled \subseteq Enrolled' /\ OnlyAt(c) /\ KnownAt(c)
  BY EnrolledStep, OnlyOneMoves DEF Known
<1>2. ASSUME NEW x \in Cam, x # c PROVE KnownAt(x)'
  BY <1>1, <1>2, OthersStay DEF Known, KnownAt
<1>3. CASE StartFrame(c)
  <2>1. KnownAt(c)'
    BY <1>1, <1>3, StartFrameAt, NoneIsNoSID DEF KnownAt
  <2> QED
    BY <1>2, <2>1 DEF Known
<1>4. CASE Alloc(c)
  <2>1. KnownAt(c)'
    BY <1>1, <1>4, AllocAt DEF KnownAt
  <2> QED
    BY <1>2, <2>1 DEF Known
<1>5. CASE Upsert(c)
  <2>1. job[c].sid \in Enrolled'
    BY <1>5, GalleryStep, ShapeOfCamera, UpsertAt DEF Enrolled
  <2>2. KnownAt(c)'
    BY <1>1, <1>5, <2>1, UpsertAt DEF KnownAt
  <2> QED
    BY <1>2, <2>2 DEF Known
<1>6. CASE Finish(c)
  <2>1. job[c].sid \in Enrolled
    BY <1>1, <1>6, FinishAt DEF KnownAt
  <2>2. KnownAt(c)'
    BY <1>1, <1>6, <2>1, FinishAt DEF KnownAt
  <2> QED
    BY <1>2, <2>2 DEF Known
<1>7. CASE EndFrame(c)
  <2>1. \A t \in Track :
          /\ states'[c][t] \in {Fresh, states[c][t], Locked(states[c][t], None, 0)}
          /\ recs'[c][t] \in {NoRec, recs[c][t]}
    BY <1>7, EndFrameAt
  <2>2. \A t \in Track : LET st == Locked(states[c][t], None, 0)
                         IN  st.sid = None /\ st.votes = states[c][t].votes
    BY LockedFacts, ShapeOfCamera
  <2>3. stage'[c] = "idle"
    BY <1>7, EndFrameAt
  <2>4. ASSUME NEW t \in Track
        PROVE  /\ states'[c][t].sid # None => states'[c][t].sid \in Enrolled
               /\ recs'[c][t].sid # None => recs'[c][t].sid \in Enrolled
               /\ \A s \in SID : states'[c][t].votes[s].n > 0 => s \in Enrolled
    BY <1>1, <2>1, <2>2, FreshFacts, NoneIsNoSID DEF KnownAt
  <2>5. KnownAt(c)'
    BY <1>1, <2>3, <2>4 DEF KnownAt
  <2> QED
    BY <1>2, <2>5 DEF Known
<1>8. CASE Crash(c)
  <2>1. KnownAt(c)'
    BY <1>8, CrashAt, FreshFacts, NoneIsNoSID DEF KnownAt
  <2> QED
    BY <1>2, <2>1 DEF Known
<1>9. CASE Restart(c)
  <2>1. KnownAt(c)'
    BY <1>1, <1>9, RestartAt DEF KnownAt
  <2> QED
    BY <1>2, <2>1 DEF Known
<1>10. ASSUME NEW t, NEW st, NEW r, Reply(c, t, st, r) PROVE Known'
  <2>1. /\ st.sid # None => st.sid \in Enrolled
        /\ r.sid # None => r.sid \in Enrolled
        /\ \A s \in SID : st.votes[s].n > 0 => s \in Enrolled
    BY <1>1, <1>10, ReplyAt DEF Reply, Kept, KnownAt
  <2>2. KnownAt(c)'
    BY <1>1, <1>10, <2>1, ReplyAt DEF KnownAt
  <2> QED
    BY <1>2, <2>2 DEF Known
<1>11. ASSUME NEW t, NEW st, Applies(c, t, st) PROVE Known'
  <2>1. /\ st.sid = None /\ st.buffer # <<>>
        /\ \A s \in SID : st.votes[s].n > 0 => s \in Enrolled
    BY <1>1, <1>11, AppliesAt DEF Applies, Kept, KnownAt
  <2>2. /\ stage'[c] = "alloc" /\ states'[c][t] = st /\ UNCHANGED <<gallery, recs>>
        /\ job'[c].track = t /\ job'[c].queue = st.buffer
        /\ \A u \in Track \ {t} : states'[c][u] = states[c][u]
    BY <1>11, AppliesAt
  <2>3. Enrolled' = Enrolled /\ job'[c].queue # <<>>
    BY <2>1, <2>2 DEF Enrolled
  <2>4. KnownAt(c)'
    BY <1>1, <2>1, <2>2, <2>3 DEF KnownAt
  <2> QED
    BY <1>2, <2>4 DEF Known
<1> QED
  BY <1>3, <1>4, <1>5, <1>6, <1>7, <1>8, <1>9, <1>10, <1>11 DEF Step

-----------------------------------------------------------------------------
(* Marked crops are not stored *)

LEMMA NoMembers == Members(<<>>) = {} /\ NoJob.queue = <<>>
BY DEF Members, NoJob

\* Of the buffers after a step: what a track's state holds, it held or it is the
\* crop of the detection.
LEMMA BufferStep ==
  ASSUME Shape, NEW c \in Cam, Step(c), NEW t \in Track,
         NEW e \in Members(states'[c][t].buffer)
  PROVE  \/ e \in Members(states[c][t].buffer)
         \/ /\ t \in pending[c] /\ e = Embedding(c, t) /\ (Masks => e.clean)
            /\ dets[c][t].flow # "SLAVE"
<1> DEFINE Goal == \/ e \in Members(states[c][t].buffer)
                   \/ /\ t \in pending[c] /\ e = Embedding(c, t) /\ (Masks => e.clean)
                      /\ dets[c][t].flow # "SLAVE"
<1>1. CASE StartFrame(c) \/ Alloc(c) \/ Upsert(c) \/ Restart(c)
  BY <1>1, StartFrameAt, AllocAt, UpsertAt, RestartAt
<1>2. CASE Finish(c)
  <2>1. states'[c][t].buffer \in {states[c][t].buffer, <<>>}
    BY <1>2, FinishAt
  <2> QED
    BY <2>1, NoMembers
<1>3. CASE EndFrame(c)
  <2>1. states'[c][t] \in {Fresh, states[c][t], Locked(states[c][t], None, 0)}
    BY <1>3, EndFrameAt
  <2>2. states[c][t] \in TIDStateRec
    BY ShapeOfCamera
  <2>3. states'[c][t].buffer \in {states[c][t].buffer, <<>>}
    BY <2>1, <2>2, LockedFacts, FreshFacts
  <2> QED
    BY <2>3, NoMembers
<1>4. CASE Crash(c)
  <2>1. states'[c][t].buffer = <<>>
    BY <1>4, CrashAt, FreshFacts
  <2> QED
    BY <2>1, NoMembers
<1>5. ASSUME NEW u, NEW st, Applies(c, u, st)
      PROVE  Goal
  <2>1. /\ states'[c][u] = st /\ u \in pending[c]
        /\ \A v \in Track \ {u} : states'[c][v] = states[c][v]
    BY <1>5, AppliesAt
  <2>2. Kept(c, u, st)
    BY <1>5 DEF Applies
  <2> QED
    BY <2>1, <2>2 DEF Kept
<1>6. ASSUME NEW u, NEW st, NEW r, Reply(c, u, st, r)
      PROVE  Goal
  <2>1. /\ states'[c][u] = st /\ u \in pending[c]
        /\ \A v \in Track \ {u} : states'[c][v] = states[c][v]
    BY <1>6, ReplyAt
  <2>2. Kept(c, u, st)
    BY <1>6 DEF Reply
  <2> QED
    BY <2>1, <2>2 DEF Kept
<1> QED
  BY <1>1, <1>2, <1>3, <1>4, <1>5, <1>6 DEF Step

\* And of the embeddings that wait to be stored: they waited, or they are the
\* buffer of a track that is to be enrolled.
LEMMA QueueStep ==
  ASSUME Shape, NEW c \in Cam, Step(c), NEW e \in Members(job'[c].queue)
  PROVE  \/ e \in Members(job[c].queue)
         \/ \E t \in Track : \E st :
              Applies(c, t, st) /\ e \in Members(states'[c][t].buffer)
<1>1. CASE StartFrame(c) \/ EndFrame(c) \/ Restart(c) \/ \E t, st, r : Reply(c, t, st, r)
  BY <1>1, StartFrameAt, EndFrameAt, RestartAt, ReplyAt
<1>2. CASE Alloc(c)
  BY <1>2, AllocAt
<1>3. CASE Upsert(c)
  <2>1. job[c].queue \in Seq(Emb)
    BY ShapeOfCamera
  <2> QED
    BY <1>3, <2>1, UpsertAt, MembersOfTail
<1>4. CASE Finish(c) \/ Crash(c)
  BY <1>4, FinishAt, CrashAt, NoMembers
<1>5. ASSUME NEW t, NEW st, Applies(c, t, st)
      PROVE  \E u \in Track : \E v :
               Applies(c, u, v) /\ e \in Members(states'[c][u].buffer)
  <2>1. /\ t \in Track /\ states'[c][t] = st
        /\ job'[c].track = t /\ job'[c].queue = st.buffer
    BY <1>5, AppliesAt
  <2>2. job'[c].queue = states'[c][t].buffer
    BY <2>1
  <2> QED
    BY <1>5, <2>1, <2>2
<1> QED
  BY <1>1, <1>2, <1>3, <1>4, <1>5 DEF Step

\* And of the gallery: it was there, or it is the next to be stored.
LEMMA StoredStep ==
  ASSUME Shape, NEW c \in Cam, Step(c), NEW s \in SID, NEW e \in Members(gallery'[s])
  PROVE  \/ e \in Members(gallery[s])
         \/ Upsert(c) /\ s = job[c].sid /\ e \in Members(job[c].queue)
<1>1. Upsert(c) => Head(job[c].queue) \in Members(job[c].queue)
  <2>1. job[c].queue \in Seq(Emb)
    BY ShapeOfCamera
  <2> QED
    BY <2>1, UpsertAt, MembersOfTail
<1> QED
  BY <1>1, GalleryStep DEF Extends

LEMMA CleanStep ==
  ASSUME Shape, Clean, NEW c \in Cam, Step(c)
  PROVE  Clean'
<1>1. OnlyAt(c) /\ CleanAt(c) /\ GalleryClean
  BY OnlyOneMoves DEF Clean
<1>2. ASSUME NEW x \in Cam, x # c PROVE CleanAt(x)'
  BY <1>1, <1>2, OthersStay DEF Clean, CleanAt
<1>3. Masks => \A t \in Track : \A e \in Members(states'[c][t].buffer) : e.clean
  BY <1>1, BufferStep DEF CleanAt
<1>4. Masks => \A e \in Members(job'[c].queue) : e.clean
  BY <1>1, <1>3, QueueStep DEF CleanAt
<1>5. Masks => \A s \in SID : \A e \in Members(gallery'[s]) : e.clean
  BY <1>1, StoredStep DEF CleanAt, GalleryClean
<1> QED
  BY <1>2, <1>3, <1>4, <1>5 DEF Clean, CleanAt, GalleryClean

-----------------------------------------------------------------------------
(* A frame shows an identity once *)

\* Conflict resolution picks one of the best claimants of every identity that
\* is claimed, and reverts the others.
LEMMA LosersFacts ==
  ASSUME Shape, NEW c \in Cam, Resolve, NEW lose \in Losers(c)
  PROVE  \E win \in [SID -> Track \cup {None}] :
           /\ lose = {t \in Track : recs[c][t].sid # None /\ win[recs[c][t].sid] # t}
           /\ \A t \in Track : recs[c][t].sid # None =>
                LET s == recs[c][t].sid IN s \in SID /\ win[s] \in BestClaimants(c, s)
<1>1. PICK win \in [SID -> Track \cup {None}] :
        /\ \A s \in SID : IF Claimants(c, s) = {} THEN win[s] = None
                          ELSE win[s] \in BestClaimants(c, s)
        /\ lose = {t \in Track : recs[c][t].sid # None /\ win[recs[c][t].sid] # t}
  BY DEF Losers
<1>2. ASSUME NEW t \in Track, recs[c][t].sid # None
      PROVE  /\ recs[c][t].sid \in SID
             /\ win[recs[c][t].sid] \in BestClaimants(c, recs[c][t].sid)
  <2>1. recs[c][t].sid \in SID
    BY <1>2, ShapeOfCamera DEF Rec
  <2>2. t \in Claimants(c, recs[c][t].sid)
    BY DEF Claimants
  <2> QED
    BY <1>1, <2>1, <2>2
<1> QED
  BY <1>1, <1>2

LEMMA ShownStep ==
  ASSUME Shape, Shown, NEW c \in Cam, Step(c)
  PROVE  Shown'
<1>1. OnlyAt(c) /\ ShownAt(c)
  BY OnlyOneMoves DEF Shown
<1>2. ASSUME NEW x \in Cam, x # c PROVE ShownAt(x)'
  BY <1>1, <1>2, OthersStay DEF Shown, ShownAt
<1> SUFFICES ShownAt(c)'
  BY <1>2 DEF Shown
<1>3. CASE StartFrame(c)
  BY <1>3, StartFrameAt DEF ShownAt
<1>4. CASE Alloc(c)
  BY <1>1, <1>4, AllocAt DEF ShownAt
<1>5. CASE Upsert(c)
  BY <1>1, <1>5, UpsertAt DEF ShownAt
<1>6. CASE Finish(c)
  <2>1. stage[c] = "store" /\ stage'[c] = "frame" /\ dets' = dets
    BY <1>6, FinishAt
  <2>2. PICK t \in Track :
          /\ states'[c][t].sid = job[c].sid /\ recs'[c][t].sid = job[c].sid
          /\ pending'[c] = pending[c] \ {t}
          /\ \A u \in Track \ {t} : /\ states'[c][u] = states[c][u]
                                    /\ recs'[c][u] = recs[c][u]
    BY <1>6, FinishAt
  <2>3. DOMAIN dets[c] \subseteq Track
    BY ShapeOfCamera
  <2> QED
    BY <1>1, <2>1, <2>2, <2>3 DEF ShownAt
<1>7. CASE EndFrame(c)
  <2>1. /\ stage[c] = "frame" /\ pending[c] = {} /\ stage'[c] = "idle" /\ dets' = dets
    BY <1>7, EndFrameAt
  <2>2. PICK lost \in SUBSET (Track \ DOMAIN dets[c]), lose \in Losers(c) :
              \A t \in Track :
                /\ t \notin lost /\ t \notin lose => states'[c][t] = states[c][t]
                /\ t \notin lost /\ t \in lose =>
                     states'[c][t] = Locked(states[c][t], None, 0)
                /\ recs'[c][t] = IF t \in lose THEN NoRec ELSE recs[c][t]
    BY <1>7, EndFrameAt
  <2> SUFFICES ASSUME Resolve, NEW t \in Track, NEW u \in Track, t # u
               PROVE  /\ recs'[c][t].sid = recs'[c][u].sid => recs'[c][t].sid = None
                      /\ Persist /\ {t, u} \subseteq DOMAIN dets[c]
                           /\ states'[c][t].sid = states'[c][u].sid =>
                             states'[c][t].sid = None
    BY <2>1 DEF ShownAt
  <2>3. recs'[c][t].sid = recs'[c][u].sid => recs'[c][t].sid = None
    <3>1. PICK win :
            lose = {x \in Track : recs[c][x].sid # None /\ win[recs[c][x].sid] # x}
      BY LosersFacts
    <3> QED
      BY <2>2, <3>1, NoneIsNoSID
  <2>4. ASSUME Persist, NEW x \in DOMAIN dets[c]
        PROVE  states'[c][x].sid = recs'[c][x].sid
    <3>1. x \in Track /\ x \notin lost /\ recs[c][x].sid = states[c][x].sid
      BY <1>1, <2>1, <2>4, ShapeOfCamera DEF ShownAt
    <3>2. Locked(states[c][x], None, 0).sid = None
      BY <3>1, LockedFacts, ShapeOfCamera
    <3> QED
      BY <2>2, <3>1, <3>2, NoneIsNoSID
  <2> QED
    BY <2>3, <2>4
<1>8. CASE Crash(c)
  BY <1>8, CrashAt, NoneIsNoSID DEF ShownAt
<1>9. CASE Restart(c)
  <2>1. stage'[c] = "idle" /\ dets' = dets /\ recs' = recs
    BY <1>9, RestartAt
  <2>2. DOMAIN dets[c] = {} /\ \A t \in Track : recs[c][t].sid = None
    BY <1>1, <1>9, RestartAt DEF ShownAt
  <2> QED
    BY <2>1, <2>2 DEF ShownAt
<1>10. ASSUME NEW t, NEW st, NEW r, Reply(c, t, st, r) PROVE ShownAt(c)'
  <2>1. Persist => r.sid = st.sid
    BY <1>10 DEF Reply
  <2>2. DOMAIN dets[c] \subseteq Track
    BY ShapeOfCamera
  <2> QED
    BY <1>1, <1>10, <2>1, <2>2, ReplyAt DEF ShownAt
<1>11. ASSUME NEW t, NEW st, Applies(c, t, st) PROVE ShownAt(c)'
  <2>1. DOMAIN dets[c] \subseteq Track
    BY ShapeOfCamera
  <2> QED
    BY <1>1, <1>11, <2>1, AppliesAt DEF ShownAt
<1> QED
  BY <1>3, <1>4, <1>5, <1>6, <1>7, <1>8, <1>9, <1>10, <1>11 DEF Step

\* A conflict that is resolved leaves the identity to a best claimant.
LEMMA KeepsBest ==
  ASSUME Shape, Known, [Next]_vars, NEW c \in Cam,
         stage[c] = "frame", stage'[c] = "idle",
         NEW t \in Track, recs[c][t].sid # None
  PROVE  \E w \in Track : /\ recs[c][w].sid = recs[c][t].sid
                          /\ recs'[c][w].sid = recs[c][t].sid
                          /\ ScoreOf(c, w) >= ScoreOf(c, t)
<1>1. PICK x \in Cam : Step(x)
  BY NextSteps DEF vars
<1>2. x = c
  BY <1>1, OnlyOneMoves, OthersStay
<1>3. EndFrame(c)
  BY <1>1, <1>2, StartFrameAt, AllocAt, UpsertAt, FinishAt, CrashAt, RestartAt,
     ReplyAt, AppliesAt DEF Step
<1>4. PICK lose \in Losers(c) :
        \A u \in Track : recs'[c][u] = IF u \in lose THEN NoRec ELSE recs[c][u]
  BY <1>3, EndFrameAt
<1>5. CASE ~Resolve
  <2>1. lose = {}
    BY <1>5 DEF Losers
  <2>2. ScoreOf(c, t) \in Nat
    BY ShapeOfCamera, IdentityAssumption DEF ScoreOf, Rec, TIDStateRec, Score
  <2> QED
    BY <1>4, <2>1, <2>2
<1>6. CASE Resolve
  <2>1. PICK win \in [SID -> Track \cup {None}] :
          /\ lose = {u \in Track : recs[c][u].sid # None /\ win[recs[c][u].sid] # u}
          /\ win[recs[c][t].sid] \in BestClaimants(c, recs[c][t].sid)
    BY <1>6, LosersFacts
  <2> DEFINE w == win[recs[c][t].sid]
  <2>2. /\ w \in Track /\ recs[c][w].sid = recs[c][t].sid
        /\ ScoreOf(c, w) >= ScoreOf(c, t)
    BY <2>1 DEF BestClaimants, Claimants
  <2>3. w \notin lose
    BY <2>1, <2>2
  <2> QED
    BY <1>4, <2>2, <2>3
<1> QED
  BY <1>5, <1>6

-----------------------------------------------------------------------------
(* Identities are people *)

\* The gallery after a step: who it holds, it held, or is shown to the camera
\* that stores.
LEMMA HoldersStep ==
  ASSUME Shape, NEW c \in Cam, PeopleAt(c), Step(c),
         NEW s \in SID, NEW e \in Members(gallery'[s])
  PROVE  \/ e \in Members(gallery[s])
         \/ /\ Upsert(c) /\ stage[c] = "store" /\ s = job[c].sid
            /\ Role[c] # "SLAVE" /\ e.who \in Shows(c, job[c].track)
BY StoredStep, UpsertAt DEF PeopleAt, Collected, Named

LEMMA OthersPeople ==
  ASSUME Shape, Apart, Numbers, NEW c \in Cam, PeopleAt(c), Step(c),
         NEW x \in Cam, x # c, PeopleAt(x)
  PROVE  PeopleAt(x)'
<1>1. /\ states'[x] = states[x] /\ stage'[x] = stage[x] /\ job'[x] = job[x]
  BY OnlyOneMoves, OthersStay
<1> DEFINE S == Shows(x, job[x].track)
<1>2. ASSUME stage[x] \in {"alloc", "store"}
      PROVE  Holders(S)' \subseteq Holders(S)
  <2>1. job[x].track \in Track /\ Role[x] # "SLAVE"
    BY <1>2, ShapeOfCamera DEF PeopleAt, Collected, Named
  <2>2. ASSUME NEW s \in SID, NEW e \in Members(gallery'[s]), e.who \in S
        PROVE  e \in Members(gallery[s])
    <3>1. CASE /\ stage[c] = "store" /\ Role[c] # "SLAVE"
               /\ e.who \in Shows(c, job[c].track)
      <4>1. job[c].track \in Track
        BY <3>1, ShapeOfCamera
      <4> QED
        BY <2>1, <2>2, <3>1, <4>1 DEF Apart
    <3> QED
      BY <3>1, <2>2, HoldersStep
  <2> QED
    BY <1>1, <2>2 DEF Holders
<1>3. ASSUME stage[x] = "store"
      PROVE  \A e \in Members(gallery'[job[x].sid]) : e.who \in S
  <2>1. job[x].sid \in SID
    BY <1>3, ShapeOfCamera
  <2>2. ~(stage[c] = "store" /\ job[x].sid = job[c].sid)
    BY <1>3 DEF Numbers
  <2> QED
    BY <1>3, <2>1, <2>2, HoldersStep DEF PeopleAt, Collected, Named
<1> QED
  BY <1>1, <1>2, <1>3 DEF PeopleAt, Collected, Named

\* The track that is to be enrolled is of one person, whom nobody is yet.
LEMMA NobodyYet ==
  ASSUME Shape, Apart, NEW c \in Cam, NEW t, NEW st, Applies(c, t, st)
  PROVE  Role[c] # "SLAVE" /\ Holders(Shows(c, t)) = {}
<1>1. /\ t \in DOMAIN dets[c] /\ t \in Track /\ dets[c][t] \in Detection(c)
      /\ dets[c][t].who \in Shows(c, t)
  BY CurrentFacts DEF Applies
<1>2. /\ dets[c][t].flow # "SLAVE"
      /\ Usable(c, t)
      /\ /\ dets[c][t].flow = "ROI" \/ EarlyLock
         /\ dets[c][t].view = "clean"
         => Holders({dets[c][t].who}) = {}
  BY DEF Applies
<1>3. dets[c][t].flow \in Flows(c) /\ Role[c] \in {"MASTER", "ROI", "SLAVE"}
  BY <1>1, IdentityAssumption DEF Detection
<1>4. Role[c] # "SLAVE" /\ (dets[c][t].flow # "ROI" => Role[c] = "MASTER")
  BY <1>2, <1>3 DEF Flows
<1>5. Holders({dets[c][t].who}) = {}
  <2>1. dets[c][t].view = "clean"
    BY <1>1, <1>2, UsableIsClean DEF Apart
  <2> QED
    BY <1>2, <1>4, <2>1 DEF Apart
<1>6. Shows(c, t) = {dets[c][t].who}
  BY <1>1, <1>4 DEF Apart
<1> QED
  BY <1>4, <1>5, <1>6

\* The only steps that begin or go on with an enrolment.
LEMMA MoverStages ==
  ASSUME Shape, NEW c \in Cam, Step(c)
  PROVE  \/ stage'[c] \notin {"alloc", "store"}
         \/ Alloc(c) \/ Upsert(c) \/ \E t, st : Applies(c, t, st)
BY StartFrameAt, FinishAt, EndFrameAt, CrashAt, RestartAt, ReplyAt DEF Step

LEMMA MoverCollects ==
  ASSUME Shape, Apart, NEW c \in Cam, Collected(c), Step(c)
  PROVE  Collected(c)'
<1>1. ASSUME NEW t \in Track, NEW e \in Members(states'[c][t].buffer)
      PROVE  Role[c] # "SLAVE" /\ e.who \in Shows(c, t)
  <2>1. CASE e \in Members(states[c][t].buffer)
    BY <2>1 DEF Collected
  <2>2. CASE /\ t \in pending[c] /\ e = Embedding(c, t) /\ (Masks => e.clean)
             /\ dets[c][t].flow # "SLAVE"
    <3>1. t \in DOMAIN dets[c]
      BY <2>2, ShapeOfCamera
    <3>2. dets[c][t] \in Detection(c) /\ dets[c][t].who \in Shows(c, t)
      BY <3>1, ShapeOfCamera
    <3>3. e.who = dets[c][t].who
      BY <2>2, <3>1, <3>2, EmbeddingFacts
    <3>4. dets[c][t].flow \in Flows(c)
      BY <3>2 DEF Detection
    <3> QED
      BY <2>2, <3>2, <3>3, <3>4 DEF Flows
  <2> QED
    BY <1>1, <2>1, <2>2, BufferStep
<1>2. CASE stage'[c] \notin {"alloc", "store"}
  BY <1>1, <1>2 DEF Collected
<1>3. CASE Alloc(c) \/ Upsert(c)
  <2>1. /\ stage[c] \in {"alloc", "store"} /\ job'[c].track = job[c].track
        /\ \A t, st : ~Applies(c, t, st)
    BY <1>3, AllocAt, UpsertAt, AppliesAt
  <2>2. \A e \in Members(job'[c].queue) : e \in Members(job[c].queue)
    BY <2>1, QueueStep
  <2> QED
    BY <1>1, <2>1, <2>2 DEF Collected
<1>4. ASSUME NEW t, NEW st, Applies(c, t, st) PROVE Collected(c)'
  <2>1. /\ t \in Track /\ states'[c][t] = st
        /\ job'[c].track = t /\ job'[c].queue = st.buffer
    BY <1>4, AppliesAt
  <2>2. job'[c].track = t /\ job'[c].queue = states'[c][t].buffer
    BY <2>1
  <2>3. Role[c] # "SLAVE"
    BY <1>4, NobodyYet
  <2> QED
    BY <1>1, <2>1, <2>2, <2>3 DEF Collected
<1> QED
  BY <1>2, <1>3, <1>4, MoverStages

LEMMA MoverNames ==
  ASSUME Shape, Apart, Numbers, NEW c \in Cam, PeopleAt(c), Step(c)
  PROVE  Named(c)'
<1>1. CASE stage'[c] \notin {"alloc", "store"}
  BY <1>1 DEF Named
<1>2. CASE Alloc(c)
  <2>1. /\ stage[c] = "alloc" /\ stage'[c] = "store" /\ job'[c].sid = nextSid
        /\ job'[c].track = job[c].track /\ gallery' = gallery /\ nextSid \in SID
    BY <1>2, AllocAt
  <2>2. gallery[nextSid] = <<>>
    BY <2>1 DEF Numbers, SID
  <2>3. Holders(Shows(c, job[c].track)) = {}
    BY <2>1 DEF PeopleAt, Named
  <2>4. Holders(Shows(c, job[c].track))' = {}
    BY <2>1, <2>3 DEF Holders
  <2>5. Members(gallery'[job'[c].sid]) = {}
    BY <2>1, <2>2, NoMembers
  <2> QED
    BY <2>1, <2>4, <2>5 DEF Named
<1>3. CASE Upsert(c)
  <2>1. /\ stage[c] = "store" /\ stage' = stage /\ job'[c].sid = job[c].sid
        /\ job'[c].track = job[c].track
    BY <1>3, UpsertAt
  <2>2. job[c].sid \in SID
    BY <2>1, ShapeOfCamera
  <2>3. \A e \in Members(gallery'[job[c].sid]) : e.who \in Shows(c, job[c].track)
    BY <2>1, <2>2, HoldersStep DEF PeopleAt, Named
  <2>4. ASSUME NEW s \in SID, NEW e \in Members(gallery'[s]),
               e.who \in Shows(c, job[c].track)
        PROVE  s = job[c].sid
    <3>1. CASE e \in Members(gallery[s])
      BY <2>1, <2>4, <3>1 DEF PeopleAt, Named, Holders
    <3> QED
      BY <3>1, HoldersStep
  <2>5. Holders(Shows(c, job[c].track))' \subseteq {job[c].sid}
    BY <2>1, <2>4 DEF Holders
  <2> QED
    BY <2>1, <2>3, <2>5 DEF Named
<1>4. ASSUME NEW t, NEW st, Applies(c, t, st) PROVE Named(c)'
  <2>1. /\ stage'[c] = "alloc" /\ gallery' = gallery
        /\ job'[c].track = t /\ job'[c].queue = st.buffer
    BY <1>4, AppliesAt
  <2>2. Holders(Shows(c, t)) = {} /\ job'[c].track = t
    BY <1>4, <2>1, NobodyYet
  <2>3. Holders(Shows(c, job[c].track))' = {}
    BY <2>1, <2>2 DEF Holders
  <2> QED
    BY <2>1, <2>3 DEF Named
<1> QED
  BY <1>1, <1>2, <1>3, <1>4, MoverStages

LEMMA NumbersStep ==
  ASSUME Shape, Shape', Numbers, NEW c \in Cam, Step(c)
  PROVE  Numbers'
<1>1. nextSid' \in Int /\ nextSid' >= nextSid /\ nextSid \in Int
  <2>1. nextSid' = nextSid \/ nextSid' = nextSid + 1
    BY StartFrameAt, AllocAt, UpsertAt, FinishAt, EndFrameAt, CrashAt, RestartAt,
       ReplyAt, AppliesAt DEF Step
  <2> QED
    BY <2>1, ShapeOfCamera
<1>2. ASSUME NEW s \in SID, s >= nextSid' PROVE gallery'[s] = <<>>
  <2>1. s >= nextSid
    BY <1>1, <1>2 DEF SID
  <2>2. Members(gallery[s]) = {}
    BY <2>1, NoMembers DEF Numbers
  <2>3. ~(Upsert(c) /\ s = job[c].sid)
    BY <1>1, <2>1, UpsertAt, ShapeOfCamera DEF SID
  <2>4. Members(gallery'[s]) = {}
    BY <2>2, <2>3, StoredStep
  <2>5. gallery'[s] \in Seq(Emb)
    BY DEF Shape, TypeOK
  <2> QED
    BY <2>4, <2>5, MembersOf
<1>3. ASSUME NEW x \in Cam, x # c, stage'[x] = "store", stage'[c] = "store"
      PROVE  job'[x].sid # job'[c].sid
  <2>1. stage[x] = "store" /\ job'[x].sid = job[x].sid
    BY <1>3, OnlyOneMoves, OthersStay
  <2>2. CASE Alloc(c)
    <3>1. job'[c].sid = nextSid
      BY <2>2, AllocAt
    <3> QED
      BY <1>1, <2>1, <3>1, ShapeOfCamera
  <2>3. CASE Upsert(c)
    BY <1>3, <2>1, <2>3, UpsertAt DEF Numbers
  <2> QED
    BY <1>3, <2>2, <2>3, StartFrameAt, FinishAt, EndFrameAt, CrashAt, RestartAt,
       ReplyAt, AppliesAt DEF Step
<1>4. ASSUME NEW x \in Cam, NEW y \in Cam, x # y,
             stage'[x] = "store", stage'[y] = "store"
      PROVE  job'[x].sid # job'[y].sid
  <2>1. CASE x = c \/ y = c
    BY <1>3, <1>4, <2>1
  <2>2. CASE x # c /\ y # c
    BY <1>4, <2>2, OnlyOneMoves, OthersStay DEF Numbers
  <2> QED
    BY <2>1, <2>2
<1> QED
  BY <1>2, <1>4 DEF Numbers

LEMMA OneEachStep ==
  ASSUME Shape, Apart, OneEach, NEW c \in Cam, PeopleAt(c), PeopleAt(c)', Step(c)
  PROVE  OneEach'
<1>1. ASSUME Upsert(c)
      PROVE  /\ \A s \in SID : \A e \in Members(gallery'[s]) :
                  e.who \in Shows(c, job[c].track) => s = job[c].sid
             /\ job[c].sid \in SID
             /\ \A d, e \in Members(gallery'[job[c].sid]) : d.who = e.who
  <2>1. /\ stage[c] = "store" /\ stage'[c] = "store"
        /\ job'[c].sid = job[c].sid /\ job'[c].track = job[c].track
    BY <1>1, UpsertAt
  <2>2. job[c].track \in Track /\ job[c].sid \in SID
    BY <2>1, ShapeOfCamera
  <2>3. /\ \A s \in SID : \A e \in Members(gallery'[s]) :
             e.who \in Shows(c, job[c].track) => s = job[c].sid
        /\ \A e \in Members(gallery'[job[c].sid]) : e.who \in Shows(c, job[c].track)
        /\ Role[c] # "SLAVE"
    BY <2>1 DEF PeopleAt, Collected, Named, Holders
  <2> QED
    BY <2>2, <2>3 DEF Apart
<1>2. ASSUME NEW p \in Person, NEW s \in Holders({p})', NEW u \in Holders({p})'
      PROVE  s = u
  <2>1. CASE Upsert(c) /\ p \in Shows(c, job[c].track)
    BY <1>1, <2>1 DEF Holders
  <2>2. CASE ~(Upsert(c) /\ p \in Shows(c, job[c].track))
    <3>1. Holders({p})' \subseteq Holders({p})
      BY <2>2, HoldersStep DEF Holders
    <3> QED
      BY <3>1 DEF OneEach
  <2> QED
    BY <2>1, <2>2
<1>3. ASSUME NEW s \in SID, NEW d \in Members(gallery'[s]), NEW e \in Members(gallery'[s])
      PROVE  d.who = e.who
  <2>1. CASE Upsert(c) /\ s = job[c].sid
    BY <1>1, <2>1
  <2>2. CASE ~(Upsert(c) /\ s = job[c].sid)
    BY <2>2, HoldersStep DEF OneEach
  <2> QED
    BY <2>1, <2>2
<1> QED
  BY <1>2, <1>3 DEF OneEach

LEMMA PeopleStep ==
  ASSUME Shape, Shape', People, NEW c \in Cam, Step(c)
  PROVE  People'
<1> SUFFICES ASSUME Apart PROVE Numbers' /\ OneEach' /\ \A x \in Cam : PeopleAt(x)'
  BY DEF People, Apart
<1>1. Numbers /\ OneEach /\ \A x \in Cam : PeopleAt(x)
  BY DEF People
<1>2. PeopleAt(c)'
  BY <1>1, MoverCollects, MoverNames DEF PeopleAt
<1> QED
  BY <1>1, <1>2, NumbersStep, OneEachStep, OthersPeople

-----------------------------------------------------------------------------
(* The theorems *)

LEMMA InitInv == Init => IInv
<1> SUFFICES ASSUME Init PROVE IInv
  OBVIOUS
<1>1. \A c \in Cam : /\ \A t \in Track : states[c][t] = Fresh /\ recs[c][t] = NoRec
                     /\ stage[c] = "idle" /\ job[c] = NoJob
                     /\ dets[c] = EmptyDict /\ DOMAIN dets[c] = {} /\ pending[c] = {}
  BY DEF Init, EmptyDict
<1>2. Shape
  <2>1. states \in [Cam -> [Track -> TIDStateRec]]
    BY FreshFacts DEF Init
  <2>2. recs \in [Cam -> [Track -> [sid : SID \cup {None}, score : Score]]]
    BY NoneIsNoSID DEF Init, Rec
  <2>3. nextSid \in 1..MaxSid + 1
    BY IdentityAssumption DEF Init
  <2>4. gallery \in [SID -> Seq(Emb)]
    BY DEF Init
  <2>5. job \in [Cam -> [track : Track \cup {None}, sid : SID \cup {None},
                         queue : Seq(Emb)]]
    BY NoJobType DEF Init
  <2>6. /\ stage \in [Cam -> {"idle", "frame", "alloc", "store", "dead"}]
        /\ pending \in [Cam -> SUBSET Track]
        /\ dets = [c \in Cam |-> dets[c]]
    BY DEF Init
  <2> QED
    BY <1>1, <2>1, <2>2, <2>3, <2>4, <2>5, <2>6 DEF Shape, TypeOK
<1>3. Known
  BY <1>1, FreshFacts, NoneIsNoSID DEF Known, KnownAt
<1>4. \A s \in SID : Members(gallery[s]) = {}
  BY NoMembers DEF Init
<1>5. \A c \in Cam : /\ Members(job[c].queue) = {}
                     /\ \A t \in Track : Members(states[c][t].buffer) = {}
  BY <1>1, NoMembers, FreshFacts
<1>6. Clean
  BY <1>4, <1>5 DEF Clean, CleanAt, GalleryClean
<1>7. Shown
  BY <1>1, NoneIsNoSID DEF Shown, ShownAt
<1>8. People
  <2>1. Numbers
    BY <1>1 DEF Init, Numbers
  <2>2. OneEach
    BY <1>4 DEF OneEach, Holders
  <2>3. \A c \in Cam : PeopleAt(c)
    BY <1>1, <1>5 DEF PeopleAt, Collected, Named
  <2> QED
    BY <2>1, <2>2, <2>3 DEF People
<1> QED
  BY <1>2, <1>3, <1>6, <1>7, <1>8 DEF IInv

LEMMA InvNext == IInv /\ [Next]_vars => IInv'
<1> SUFFICES ASSUME IInv, [Next]_vars PROVE IInv'
  OBVIOUS
<1>1. ASSUME NEW c \in Cam, Step(c) PROVE IInv'
  <2>1. Shape'
    BY <1>1, ShapeStep DEF IInv
  <2>2. Known'
    BY <1>1, KnownStep DEF IInv
  <2>3. Clean'
    BY <1>1, CleanStep DEF IInv
  <2>4. Shown'
    BY <1>1, ShownStep DEF IInv
  <2>5. People'
    BY <1>1, <2>1, PeopleStep DEF IInv
  <2> QED
    BY <2>1, <2>2, <2>3, <2>4, <2>5 DEF IInv
<1>2. CASE UNCHANGED vars
  <2>1. Shape'
    BY <1>2 DEF vars, IInv, Shape, TypeOK
  <2>2. Known'
    BY <1>2 DEF vars, IInv, Known, KnownAt, Enrolled
  <2>3. Clean'
    BY <1>2 DEF vars, IInv, Clean, CleanAt, GalleryClean
  <2>4. Shown'
    BY <1>2 DEF vars, IInv, Shown, ShownAt
  <2>5. People'
    BY <1>2 DEF vars, IInv, People, Apart, Numbers, OneEach, PeopleAt, Collected,
                Named, Holders
  <2> QED
    BY <2>1, <2>2, <2>3, <2>4, <2>5 DEF IInv
<1> QED
  BY <1>1, <1>2, NextSteps DEF IInv

LEMMA InvCorrect == Spec => []IInv
BY InitInv, InvNext, PTL DEF Spec

\* Every variable keeps its type, and an enrolment under way is always of a
\* detection of the current frame, for any cameras, roles and parameters.
THEOREM TypeCorrect == Spec => []TypeOK
<1>1. IInv => TypeOK
  BY DEF IInv, Shape
<1> QED
  BY <1>1, InvCorrect, PTL

\* A lock and a record are only ever of an identity with embeddings in the
\* gallery, wherever threads interleave, an enrolment breaks off or a prune falls.
THEOREM LocksCorrect == Spec => []LocksEnrolled
<1>1. IInv => LocksEnrolled
  BY DEF IInv, Known, KnownAt, LocksEnrolled
<1> QED
  BY <1>1, InvCorrect, PTL

\* Where the caller marks overlapped crops (the people-counting worker with
\* occlusion_freeze_embeddings), none reaches the gallery, whether the overlap
\* begins while crops are collected or in the frame that enrols, however
\* conflicts take locks away in between.  It says nothing of the callers that
\* mark none.
THEOREM GalleryCorrect == Spec => []GalleryClean
<1>1. IInv => GalleryClean
  BY DEF IInv, Clean
<1> QED
  BY <1>1, InvCorrect, PTL

\* No published frame shows an identity twice, and no two tracks in view stay
\* locked to one, whatever the recogniser confuses.
THEOREM FrameCorrect == Spec => []OneSidPerFrame
<1>1. IInv => OneSidPerFrame
  BY DEF IInv, Shown, ShownAt, OneSidPerFrame
<1> QED
  BY <1>1, InvCorrect, PTL

\* A resolved conflict leaves the identity to a detection that claimed it, and
\* none that claimed it scored higher.
THEOREM ConflictsCorrect == Spec => ConflictKeepsBest
<1>1. IInv /\ [Next]_vars =>
        [\A c \in Cam : stage[c] = "frame" /\ stage'[c] = "idle" =>
           \A t \in Track : recs[c][t].sid # None =>
             \E w \in Track : /\ recs[c][w].sid = recs[c][t].sid
                              /\ recs'[c][w].sid = recs[c][t].sid
                              /\ ScoreOf(c, w) >= ScoreOf(c, t)]_vars
  BY KeepsBest DEF IInv
<1> QED
  BY <1>1, InvCorrect, PTL DEF Spec, ConflictKeepsBest

\* Where every enrolling camera has people of its own, one to a track, nobody is
\* taken for another and a match locks at once, a person has one identity and an
\* identity is one person, whatever the cameras do at the same time.
THEOREM PeopleCorrect == Apart => (Spec => []SidsArePeople)
<1>1. ASSUME Apart, IInv PROVE SidsArePeople
  <2>1. OneEach
    BY <1>1 DEF IInv, People
  <2>2. ASSUME NEW p \in Person PROVE Cardinality(Holders({p})) <= 1
    <3>1. \A s, u \in Holders({p}) : s = u
      BY <2>1 DEF OneEach
    <3>2. CASE Holders({p}) = {}
      BY <3>2, FS_EmptySet
    <3>3. CASE Holders({p}) # {}
      <4>1. PICK s \in Holders({p}) : Holders({p}) = {s}
        BY <3>1, <3>3
      <4>2. Cardinality({s}) = 1
        BY FS_Singleton
      <4> QED
        BY <4>1, <4>2
    <3> QED
      BY <3>2, <3>3
  <2> QED
    BY <2>1, <2>2 DEF SidsArePeople, OnePersonOneSid, OneEach
<1>2. ASSUME Apart PROVE Spec => []SidsArePeople
  <2>1. IInv => SidsArePeople
    BY <1>1, <1>2
  <2> QED
    BY <2>1, InvCorrect, PTL
<1> QED
  BY <1>2
=============================================================================
