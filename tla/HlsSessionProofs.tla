--------------------------- MODULE HlsSessionProofs ---------------------------
(* Proofs about HlsSession: typing, that a worker that has ended leaves no     *)
(* ffmpeg behind, and that stop() leaves no folder but the one of a frame that *)
(* was past the closed flag.                                                   *)
EXTENDS HlsSession, FiniteSetTheorems, TLAPS

-----------------------------------------------------------------------------
(* The inductive invariant *)

\* The worker passes a frame on.
AtFrame == pc.worker \in {"camera", "locking", "writing"}

\* Where the two threads are in their loops, and what the tables hold by then.
Places ==
  /\ pc.worker \in {"none", "assigned", "failed"} => current = 1
  /\ pc.worker \in {"setup", "locking", "writing"} => current \in Place
  /\ \A t \in {"worker", "stopper"} :
       /\ pc[t] = "captures" => todo[t] \subseteq Place
       /\ pc[t] = "writers" => todo[t] \subseteq Id
  /\ pc.worker = "setup" =>
       \A p \in Place : p < current => writer[Cameras[p]].made
  /\ pc.worker = "pass" \/ AtFrame => \A i \in Id : writer[i].made

\* A writer is locked only while the worker writes to it, and ffmpeg runs only
\* where the worker's clean-up has still to come.
Processes ==
  /\ \A i \in Id :
       /\ writer[i].locked => pc.worker = "writing" /\ i = Cameras[current]
       /\ writer[i].made \/ writer[i].ffmpeg = "none"
  /\ pc.worker \in {"none", "assigned", "failed", "setup", "ended"} =>
       \A i \in Id : writer[i].ffmpeg = "none"
  /\ pc.worker = "writers" =>
       \A i \in Id \ todo.worker : writer[i].ffmpeg = "none"

\* Once stop() is called the worker begins no further pass; when the stopper has
\* closed the writers only a frame past the closed flag can make a folder.
Folders ==
  /\ pc.stopper # "none" \/ joined => stopEvent
  /\ joined => ~AtFrame
  /\ AtFrame /\ pc.stopper = "writers" =>
       \A i \in Id \ todo.stopper : writer[i].closed
  /\ AtFrame /\ pc.stopper \in {"folder", "done"} =>
       \A i \in Id : writer[i].closed
  /\ pc.stopper = "done" =>
       /\ joined \/ pc.worker = "locking" => folders = {}
       /\ \A i, j \in folders : i = j

IInv == TypeOK /\ Places /\ Processes /\ Folders

\* A worker's or a stopper's step, or another's.
Step ==
  \/ Register \/ AssignThread \/ StartThread \/ Stop
  \/ SetUpFails \/ SetUpCapture \/ SetUpWriter
  \/ Pass \/ Camera \/ FrameFails \/ Lock \/ FfmpegFails \/ Written
  \/ Join \/ RemoveFolder
  \/ \E t \in {"worker", "stopper"} :
       TellCapture(t) \/ CloseWriter(t) \/ LoopDone(t)
  \/ \E i \in Id : FfmpegDies(i)
  \/ \E p \in Place : CaptureStep(p)

LEMMA NextSteps == [Next]_vars => Step \/ UNCHANGED vars
BY DEF Next, Step, WorkerStep, StopperStep

-----------------------------------------------------------------------------
(* Lemmas *)

LEMMA CameraFacts ==
  /\ Len(Cameras) \in Nat \ {0} /\ Place = 1..Len(Cameras)
  /\ \A p \in Place : Cameras[p] \in Id
  /\ \A i \in Id : \E p \in Place : Cameras[p] = i
<1>1. Len(Cameras) \in Nat /\ DOMAIN Cameras = 1..Len(Cameras)
  BY HlsSessionAssumption
<1>2. Len(Cameras) # 0
  BY HlsSessionAssumption
<1> QED
  BY <1>1, <1>2 DEF Place, Id, Range

\* The reader thread's steps, start and stop keep a capture a capture.
LEMMA CaptureType ==
  /\ NewCapture \in Captures
  /\ \A c \in Captures : /\ StartCapture(c) \in Captures
                         /\ StopCapture(c) \in Captures
                         /\ CaptureSteps(c) \subseteq Captures
<1>1. NewCapture \in Captures
  BY MaxReadFailuresAssumption DEF NewCapture, Captures
<1>2. ASSUME NEW c \in Captures
      PROVE  StartCapture(c) \in Captures /\ StopCapture(c) \in Captures
  BY DEF StartCapture, StopCapture, Captures
<1>3. ASSUME NEW c \in Captures
      PROVE  CaptureSteps(c) \subseteq Captures
  <2>1. /\ \A th \in {"none", "opening", "waiting", "reading", "ended"} :
             [c EXCEPT !.thread = th] \in Captures
    BY DEF Captures
  <2>5. 0 \in 0..MaxReadFailures
    BY MaxReadFailuresAssumption
  <2>6. /\ [c EXCEPT !.thread = "reading", !.failures = 0] \in Captures
        /\ [c EXCEPT !.failures = 0, !.thread = "opening"] \in Captures
        /\ [c EXCEPT !.failures = 0, !.frame = TRUE] \in Captures
    BY <2>5 DEF Captures
  <2>2. c.failures < MaxReadFailures => [c EXCEPT !.failures = @ + 1] \in Captures
    BY MaxReadFailuresAssumption DEF Captures
  <2>3. OpenSource(c) \subseteq Captures /\ Waited(c) \subseteq Captures
    BY <2>1, <2>6 DEF OpenSource, Waited
  <2>4. ReadFrame(c) \subseteq Captures
    BY <2>1, <2>2, <2>6 DEF ReadFrame
  <2> QED
    BY <2>3, <2>4 DEF CaptureSteps
<1> QED
  BY <1>1, <1>2, <1>3

-----------------------------------------------------------------------------
(* Typing *)

LEMMA InitInv == Init => IInv
<1> SUFFICES ASSUME Init PROVE IInv
  OBVIOUS
<1>1. TypeOK
  <2>1. pc \in [worker : WorkerPhase, stopper : StopperPhase]
    BY DEF Init, WorkerPhase, StopperPhase
  <2>2. todo \in [worker : SUBSET (Place \cup Id), stopper : SUBSET (Place \cup Id)]
    BY DEF Init
  <2>3. writer \in [Id -> Writer]
    BY DEF Init, Writer
  <2>4. capture \in [Place -> Captures]
    BY CaptureType DEF Init
  <2>5. current \in 1..Len(Cameras) + 1
    BY CameraFacts DEF Init
  <2> QED
    BY <2>1, <2>2, <2>3, <2>4, <2>5 DEF Init, TypeOK
<1>2. Places
  BY DEF Init, Places, AtFrame
<1>3. Processes
  BY DEF Init, Processes
<1>4. Folders
  BY DEF Init, Folders, AtFrame
<1> QED
  BY <1>1, <1>2, <1>3, <1>4 DEF IInv

\* What a step does to a writer, and the tables it reads, keep their types.
LEMMA WriterUpdate ==
  ASSUME NEW w \in Writer
  PROVE  /\ [w EXCEPT !.made = TRUE] \in Writer
         /\ [w EXCEPT !.ffmpeg = "dead"] \in Writer
         /\ Opened(w) \in Writer /\ Released(w) \in Writer
         /\ [w EXCEPT !.closed = TRUE, !.ffmpeg = "none"] \in Writer
BY DEF Writer, Opened, Released

LEMMA TablesType ==
  ASSUME TypeOK
  PROVE  TableCaptures \in SUBSET Place /\ TableWriters \in SUBSET Id
BY DEF TypeOK, TableCaptures, TableWriters

LEMMA TypeStep ==
  ASSUME TypeOK, Places, Step
  PROVE  TypeOK'
<1> USE DEF TypeOK
<1>1. CASE Register
  BY <1>1 DEF Register
<1>2. CASE AssignThread
  BY <1>2 DEF AssignThread, WorkerPhase
<1>3. CASE StartThread
  BY <1>3 DEF StartThread, WorkerPhase
<1>4. CASE Stop
  BY <1>4, TablesType DEF Stop, StopperPhase
<1>5. CASE SetUpFails
  BY <1>5 DEF SetUpFails, WorkerPhase
<1>6. CASE SetUpCapture
  BY <1>6, CameraFacts, CaptureType DEF SetUpCapture
<1>7. CASE SetUpWriter
  <2>1. current' \in 1..Len(Cameras) + 1
    BY <1>7, CameraFacts DEF SetUpWriter
  <2>2. writer' \in [Id -> Writer]
    BY <1>7, CameraFacts, WriterUpdate DEF SetUpWriter
  <2>3. pc' \in [worker : WorkerPhase, stopper : StopperPhase]
    BY <1>7 DEF SetUpWriter, WorkerPhase
  <2> QED
    BY <1>7, <2>1, <2>2, <2>3 DEF SetUpWriter
<1>8. CASE Pass
  BY <1>8, CameraFacts, TablesType DEF Pass, WorkerPhase
<1>9. CASE Camera
  BY <1>9, CameraFacts DEF Camera, WorkerPhase
<1>10. CASE FrameFails
  BY <1>10, TablesType DEF FrameFails, WorkerPhase
<1>11. CASE Lock
  <2>1. Cameras[current] \in Id
    BY <1>11, CameraFacts DEF Lock, Places
  <2>2. writer' \in [Id -> Writer]
    BY <1>11, <2>1, WriterUpdate DEF Lock
  <2>3. pc' \in [worker : WorkerPhase, stopper : StopperPhase]
    BY <1>11 DEF Lock, WorkerPhase
  <2> QED
    BY <1>11, <2>1, <2>2, <2>3 DEF Lock
<1>12. CASE FfmpegFails
  <2>1. Cameras[current] \in Id
    BY <1>12, CameraFacts DEF FfmpegFails, Places
  <2>2. pc' \in [worker : WorkerPhase, stopper : StopperPhase]
    BY <1>12 DEF FfmpegFails, WorkerPhase
  <2>3. todo' \in [worker : SUBSET (Place \cup Id), stopper : SUBSET (Place \cup Id)]
    BY <1>12, TablesType DEF FfmpegFails
  <2> QED
    BY <1>12, <2>1, <2>2, <2>3 DEF FfmpegFails
<1>13. CASE Written
  <2>1. current \in Place /\ Cameras[current] \in Id
    BY <1>13, CameraFacts DEF Written, Places
  <2>2. writer' \in [Id -> Writer]
    BY <1>13, <2>1, WriterUpdate DEF Written
  <2>3. pc' \in [worker : WorkerPhase, stopper : StopperPhase]
    BY <1>13 DEF Written, WorkerPhase
  <2>4. current' \in 1..Len(Cameras) + 1
    BY <1>13, <2>1, CameraFacts DEF Written
  <2> QED
    BY <1>13, <2>2, <2>3, <2>4 DEF Written
<1>14. CASE Join
  <2>1. pc' \in [worker : WorkerPhase, stopper : StopperPhase]
    BY <1>14 DEF Join, StopperPhase
  <2>2. todo' \in [worker : SUBSET (Place \cup Id), stopper : SUBSET (Place \cup Id)]
    BY <1>14, TablesType DEF Join
  <2>3. joined' \in BOOLEAN
    <3>1. CASE pc.worker \in {"assigned", "failed"}
      BY <1>14, <3>1 DEF Join
    <3>2. CASE pc.worker \notin {"assigned", "failed"}
      <4>1. joined' = (pc.worker \in {"none", "ended"})
        BY <1>14, <3>2, Zenon DEF Join
      <4> DEFINE seen == pc.worker \in {"none", "ended"}
      <4>2. seen \in BOOLEAN
        BY SMT
      <4> HIDE DEF seen
      <4> QED
        BY <4>1, <4>2, Zenon DEF seen
    <3> QED
      BY <3>1, <3>2
  <2> QED
    BY <1>14, <2>1, <2>2, <2>3 DEF Join
<1>15. CASE RemoveFolder
  BY <1>15 DEF RemoveFolder, StopperPhase
<1>16. ASSUME NEW t \in {"worker", "stopper"}, TellCapture(t) PROVE TypeOK'
  <2>1. PICK p \in todo[t] :
          /\ capture' = [capture EXCEPT ![p] = StopCapture(@)]
          /\ todo' = [todo EXCEPT ![t] = @ \ {p}]
    BY <1>16 DEF TellCapture
  <2>2. p \in Place
    BY <1>16, <2>1 DEF TellCapture, Places
  <2>3. capture' \in [Place -> Captures]
    BY <2>1, <2>2, CaptureType
  <2>4. todo' \in [worker : SUBSET (Place \cup Id), stopper : SUBSET (Place \cup Id)]
    BY <2>1
  <2> QED
    BY <1>16, <2>3, <2>4 DEF TellCapture
<1>17. ASSUME NEW t \in {"worker", "stopper"}, CloseWriter(t) PROVE TypeOK'
  <2>1. PICK i \in todo[t] :
          /\ writer' = [writer EXCEPT ![i] = [@ EXCEPT !.closed = TRUE,
                                                       !.ffmpeg = "none"]]
          /\ todo' = [todo EXCEPT ![t] = @ \ {i}]
    BY <1>17 DEF CloseWriter
  <2>2. i \in Id
    BY <1>17, <2>1 DEF CloseWriter, Places
  <2>3. writer' \in [Id -> Writer]
    BY <2>1, <2>2, WriterUpdate
  <2>4. todo' \in [worker : SUBSET (Place \cup Id), stopper : SUBSET (Place \cup Id)]
    BY <2>1
  <2> QED
    BY <1>17, <2>3, <2>4 DEF CloseWriter
<1>18. ASSUME NEW t \in {"worker", "stopper"}, LoopDone(t) PROVE TypeOK'
  <2>1. pc' \in [worker : WorkerPhase, stopper : StopperPhase]
    BY <1>18 DEF LoopDone, After, WorkerPhase, StopperPhase
  <2>2. todo' \in [worker : SUBSET (Place \cup Id), stopper : SUBSET (Place \cup Id)]
    BY <1>18, TablesType DEF LoopDone
  <2> QED
    BY <1>18, <2>1, <2>2 DEF LoopDone
<1>19. ASSUME NEW i \in Id, FfmpegDies(i) PROVE TypeOK'
  BY <1>19, WriterUpdate DEF FfmpegDies
<1>20. ASSUME NEW p \in Place, CaptureStep(p) PROVE TypeOK'
  BY <1>20, CaptureType DEF CaptureStep
<1> QED
  BY <1>1, <1>2, <1>3, <1>4, <1>5, <1>6, <1>7, <1>8, <1>9, <1>10, <1>11, <1>12,
     <1>13, <1>14, <1>15, <1>16, <1>17, <1>18, <1>19, <1>20 DEF Step

LEMMA PlacesStep ==
  ASSUME TypeOK, Places, Step
  PROVE  Places'
<1> USE DEF TypeOK, Places, AtFrame, Writer, WorkerPhase, StopperPhase
<1>1. CASE Register
  BY <1>1 DEF Register
<1>2. CASE AssignThread
  BY <1>2 DEF AssignThread
<1>3. CASE StartThread
  BY <1>3, CameraFacts DEF StartThread
<1>4. CASE Stop
  BY <1>4 DEF Stop, TableCaptures
<1>5. CASE SetUpFails
  BY <1>5 DEF SetUpFails
<1>6. CASE SetUpCapture
  BY <1>6 DEF SetUpCapture
<1>7. CASE SetUpWriter
  BY <1>7, CameraFacts DEF SetUpWriter
<1>8. CASE Pass
  BY <1>8 DEF Pass, TableCaptures
<1>9. CASE Camera
  BY <1>9 DEF Camera
<1>10. CASE FrameFails
  BY <1>10 DEF FrameFails, TableCaptures
<1>11. CASE Lock
  BY <1>11 DEF Lock, Opened
<1>12. CASE FfmpegFails
  BY <1>12 DEF FfmpegFails, TableCaptures
<1>13. CASE Written
  BY <1>13 DEF Written, Released
<1>14. CASE Join
  BY <1>14 DEF Join, TableWriters
<1>15. CASE RemoveFolder
  BY <1>15 DEF RemoveFolder
<1>16. CASE TellCapture("worker")
  BY <1>16 DEF TellCapture
<1>17. CASE TellCapture("stopper")
  BY <1>17 DEF TellCapture
<1>18. CASE CloseWriter("worker")
  BY <1>18 DEF CloseWriter
<1>19. CASE CloseWriter("stopper")
  BY <1>19 DEF CloseWriter
<1>20. CASE LoopDone("worker")
  BY <1>20 DEF LoopDone, TableWriters, After
<1>21. CASE LoopDone("stopper")
  BY <1>21 DEF LoopDone, TableWriters, After
<1>22. ASSUME NEW i \in Id, FfmpegDies(i) PROVE Places'
  BY <1>22 DEF FfmpegDies
<1>23. ASSUME NEW p \in Place, CaptureStep(p) PROVE Places'
  BY <1>23 DEF CaptureStep
<1> QED
  BY <1>1, <1>2, <1>3, <1>4, <1>5, <1>6, <1>7, <1>8, <1>9, <1>10, <1>11,
     <1>12, <1>13, <1>14, <1>15, <1>16, <1>17, <1>18, <1>19, <1>20, <1>21, <1>22,
     <1>23 DEF Step

LEMMA ProcessesStep ==
  ASSUME TypeOK, Places, Processes, Step
  PROVE  Processes'
<1> USE DEF TypeOK, Places, Processes, AtFrame, Writer, WorkerPhase, StopperPhase
<1>1. CASE Register
  BY <1>1 DEF Register
<1>2. CASE AssignThread
  BY <1>2 DEF AssignThread
<1>3. CASE StartThread
  BY <1>3 DEF StartThread
<1>4. CASE Stop
  BY <1>4 DEF Stop, TableCaptures
<1>5. CASE SetUpFails
  BY <1>5 DEF SetUpFails
<1>6. CASE SetUpCapture
  BY <1>6 DEF SetUpCapture
<1>7. CASE SetUpWriter
  BY <1>7 DEF SetUpWriter
<1>8. CASE Pass
  BY <1>8 DEF Pass, TableCaptures
<1>9. CASE Camera
  BY <1>9 DEF Camera
<1>10. CASE FrameFails
  BY <1>10 DEF FrameFails, TableCaptures
<1>11. CASE Lock
  BY <1>11 DEF Lock, Opened
<1>12. CASE FfmpegFails
  BY <1>12 DEF FfmpegFails, TableCaptures
<1>13. CASE Written
  BY <1>13 DEF Written, Released
<1>14. CASE Join
  BY <1>14 DEF Join, TableWriters
<1>15. CASE RemoveFolder
  BY <1>15 DEF RemoveFolder
<1>16. CASE TellCapture("worker")
  BY <1>16 DEF TellCapture
<1>17. CASE TellCapture("stopper")
  BY <1>17 DEF TellCapture
<1>18. CASE CloseWriter("worker")
  BY <1>18 DEF CloseWriter
<1>19. CASE CloseWriter("stopper")
  BY <1>19 DEF CloseWriter
<1>20. CASE LoopDone("worker")
  BY <1>20 DEF LoopDone, TableWriters, After
<1>21. CASE LoopDone("stopper")
  BY <1>21 DEF LoopDone, TableWriters, After
<1>22. ASSUME NEW i \in Id, FfmpegDies(i) PROVE Processes'
  BY <1>22 DEF FfmpegDies
<1>23. ASSUME NEW p \in Place, CaptureStep(p) PROVE Processes'
  BY <1>23 DEF CaptureStep
<1> QED
  BY <1>1, <1>2, <1>3, <1>4, <1>5, <1>6, <1>7, <1>8, <1>9, <1>10, <1>11,
     <1>12, <1>13, <1>14, <1>15, <1>16, <1>17, <1>18, <1>19, <1>20, <1>21, <1>22,
     <1>23 DEF Step

LEMMA FoldersStep ==
  ASSUME TypeOK, Places, Processes, Folders, Step
  PROVE  Folders'
<1> USE DEF TypeOK, Places, Processes, Folders, AtFrame, Writer, WorkerPhase, StopperPhase
<1>1. CASE Register
  BY <1>1 DEF Register
<1>2. CASE AssignThread
  BY <1>2 DEF AssignThread
<1>3. CASE StartThread
  BY <1>3 DEF StartThread
<1>4. CASE Stop
  BY <1>4 DEF Stop, TableCaptures
<1>5. CASE SetUpFails
  BY <1>5 DEF SetUpFails
<1>6. CASE SetUpCapture
  BY <1>6 DEF SetUpCapture
<1>7. CASE SetUpWriter
  BY <1>7 DEF SetUpWriter
<1>8. CASE Pass
  BY <1>8 DEF Pass, TableCaptures
<1>9. CASE Camera
  BY <1>9 DEF Camera
<1>10. CASE FrameFails
  BY <1>10 DEF FrameFails, TableCaptures
<1>11. CASE Lock
  BY <1>11 DEF Lock, Opened
<1>12. CASE FfmpegFails
  BY <1>12 DEF FfmpegFails, TableCaptures
<1>13. CASE Written
  BY <1>13 DEF Written, Released
<1>14. CASE Join
  BY <1>14 DEF Join, TableWriters
<1>15. CASE RemoveFolder
  BY <1>15 DEF RemoveFolder
<1>16. CASE TellCapture("worker")
  BY <1>16 DEF TellCapture
<1>17. CASE TellCapture("stopper")
  BY <1>17 DEF TellCapture
<1>18. CASE CloseWriter("worker")
  BY <1>18 DEF CloseWriter
<1>19. CASE CloseWriter("stopper")
  BY <1>19 DEF CloseWriter
<1>20. CASE LoopDone("worker")
  BY <1>20 DEF LoopDone, TableWriters, After
<1>21. CASE LoopDone("stopper")
  BY <1>21 DEF LoopDone, TableWriters, After
<1>22. ASSUME NEW i \in Id, FfmpegDies(i) PROVE Folders'
  BY <1>22 DEF FfmpegDies
<1>23. ASSUME NEW p \in Place, CaptureStep(p) PROVE Folders'
  BY <1>23 DEF CaptureStep
<1> QED
  BY <1>1, <1>2, <1>3, <1>4, <1>5, <1>6, <1>7, <1>8, <1>9, <1>10, <1>11,
     <1>12, <1>13, <1>14, <1>15, <1>16, <1>17, <1>18, <1>19, <1>20, <1>21, <1>22,
     <1>23 DEF Step

-----------------------------------------------------------------------------
(* The theorems *)

LEMMA InvNext == IInv /\ [Next]_vars => IInv'
<1> SUFFICES ASSUME IInv, [Next]_vars PROVE IInv'
  OBVIOUS
<1>1. CASE Step
  <2>1. TypeOK'
    BY <1>1, TypeStep DEF IInv
  <2>2. Places'
    BY <1>1, PlacesStep DEF IInv
  <2>3. Processes'
    BY <1>1, ProcessesStep DEF IInv
  <2>4. Folders'
    BY <1>1, FoldersStep DEF IInv
  <2> QED
    BY <2>1, <2>2, <2>3, <2>4 DEF IInv
<1>2. CASE UNCHANGED vars
  BY <1>2 DEF vars, IInv, TypeOK, Places, Processes, Folders, AtFrame
<1> QED
  BY <1>1, <1>2, NextSteps

LEMMA InvCorrect == Spec => []IInv
BY InitInv, InvNext, PTL DEF Spec

\* Every variable of a session keeps its type, whatever its list of cameras: in
\* particular the worker never looks past the end of the list.
THEOREM TypeCorrect == Spec => []TypeOK
<1>1. IInv => TypeOK
  BY DEF IInv
<1> QED
  BY <1>1, InvCorrect, PTL

\* For any list of cameras, with ids that differ or not, a worker that has ended
\* leaves no ffmpeg running or to be reaped, and no writer locked.
THEOREM NoOrphanCorrect == Spec => []NoOrphanFfmpeg
<1>1. IInv => NoOrphanFfmpeg
  BY DEF IInv, Processes, NoOrphanFfmpeg
<1> QED
  BY <1>1, InvCorrect, PTL

\* For any list of cameras, stop() leaves no folder when it has seen the worker's
\* end, and otherwise at most the one of the frame that was past the closed flag.
THEOREM FolderCorrect == Spec => []FolderRemoved
<1>1. IInv => FolderRemoved
  <2> SUFFICES ASSUME IInv, pc.stopper = "done"
               PROVE  (joined => folders = {}) /\ Cardinality(folders) <= 1
    BY DEF FolderRemoved
  <2>1. /\ joined => folders = {}
        /\ \A i, j \in folders : i = j
    BY DEF IInv, Folders
  <2>2. CASE folders = {}
    BY <2>1, <2>2, FS_EmptySet
  <2>3. CASE folders # {}
    <3>1. PICK i \in folders : folders = {i}
      BY <2>1, <2>3
    <3> QED
      BY <2>1, <3>1, FS_Singleton
  <2> QED
    BY <2>2, <2>3
<1> QED
  BY <1>1, InvCorrect, PTL
=============================================================================
