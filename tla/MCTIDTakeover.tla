---------------------------- MODULE MCTIDTakeover ----------------------------
(***************************************************************************)
(* TIDState under a well-behaved tracker: ids are issued in increasing     *)
(* order, so an id never seen before is larger than every id seen.         *)
(***************************************************************************)
EXTENDS TIDState

VARIABLE seen           \* the raw ids the tracker has emitted

MCBox == 1..2
MCIoU(a, b) == IF a = b THEN 100 ELSE 0

NewFollows ==
  \A r \in DOMAIN rawToStable' \ seen : \A q \in seen : q < r

TakeoverInit == Init /\ seen = {}
TakeoverNext ==
  /\ Next
  /\ NewFollows
  /\ seen' = seen \cup DOMAIN rawToStable'
TakeoverSpec == TakeoverInit /\ [][TakeoverNext]_<<vars, seen>>

\* "If the tracker emits a new raw ID after a short miss, re-link it to the
\* recently lost stable ID with highest IoU above threshold" (state.py,
\* remap_tids): a raw id never seen before continues a known track only when
\* their boxes overlap enough.
RelinkOnlyByOverlap ==
  [][\A r \in DOMAIN rawToStable' \ seen :
       LET t == rawToStable'[r] IN
       t \in states \cap states' =>
         IoU(lastBox'[t], lastBox[t]) >= RecoverThr]_<<vars, seen>>

=============================================================================
