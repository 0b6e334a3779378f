----------------------------- MODULE HlsSession ------------------------------
(***************************************************************************)
(* One session of the HLS server: its entry in the registry (app_hls.py),  *)
(* the worker thread that annotates the frames of its cameras              *)
(* (hls_session.py), a capture thread per camera (Capture) and a writer    *)
(* per camera that owns an ffmpeg process and a folder (ffmpeg_hls.py).    *)
(*                                                                         *)
(* A session has an id of its own and shares nothing with another, so one  *)
(* of them is all there is to model.  Requests run in a pool of threads:   *)
(* the id of a session can be read, and the session stopped, as soon as it *)
(* is in the registry, before its worker exists.  Whoever takes it out of  *)
(* the registry, or the server shutting down once no request is left, is   *)
(* the one thread that stops it: the stopper.                              *)
(*                                                                         *)
(* Cameras is the list the session is configured with.  Captures and       *)
(* writers are kept in dicts under the camera's id, and nothing asks that  *)
(* the ids of a request differ.  ffmpeg takes in what it is given, or      *)
(* dies, in the end; inference and overlay are the time between two steps. *)
(***************************************************************************)
EXTENDS Naturals, FiniteSets, Sequences, Functions, Capture

CONSTANT Cameras        \* cfg.cameras: the ids, in order

VARIABLES
  registered,  \* the id is in _sessions
  stopEvent,   \* session._stop_event
  pc,          \* what the worker and the stopper are doing
  todo,        \* what is left of the loop each is in
  current,     \* the camera the worker is at, by its place in the list
  frames,      \* ids the worker found a frame for in this pass
  capture,     \* every capture made, by the place of its camera
  captureOf,   \* session.captures: id -> place of the capture under it
  writer,      \* session.writers
  folders,     \* the ids whose output folder exists
  joined       \* the stopper saw the worker's end, or no worker to wait for

vars == <<registered, stopEvent, pc, todo, current, frames, capture,
          captureOf, writer, folders, joined>>

Place == DOMAIN Cameras
Id == Range(Cameras)

ASSUME HlsSessionAssumption == Cameras \in Seq(Id) /\ Cameras # <<>>

WorkerPhase == {"none", "assigned", "failed", "setup", "pass", "camera",
                "locking", "writing", "captures", "writers", "ended"}
StopperPhase == {"none", "captures", "join", "writers", "folder", "done",
                 "raised"}
Writer == [made : BOOLEAN, closed : BOOLEAN, ffmpeg : {"none", "up", "dead"},
           locked : BOOLEAN]

\* dict.values(): the places of the captures in the table, the ids of the writers.
TableCaptures == {captureOf[i] : i \in Id} \ {0}
TableWriters == {i \in Id : writer[i].made}

Init ==
  /\ registered = FALSE
  /\ stopEvent = FALSE
  /\ pc = [worker |-> "none", stopper |-> "none"]
  /\ todo = [worker |-> {}, stopper |-> {}]
  /\ current = 1
  /\ frames = {}
  /\ capture = [p \in Place |-> NewCapture]
  /\ captureOf = [i \in Id |-> 0]
  /\ writer = [i \in Id |-> [made |-> FALSE, closed |-> FALSE,
                             ffmpeg |-> "none", locked |-> FALSE]]
  /\ folders = {}
  /\ joined = FALSE

-----------------------------------------------------------------------------
\* POST /streams/start registers the session, makes its thread and starts it.
Register ==
  /\ pc.worker = "none" /\ ~registered /\ pc.stopper = "none"
  /\ registered' = TRUE
  /\ UNCHANGED <<stopEvent, pc, todo, current, frames, capture, captureOf,
                 writer, folders, joined>>

AssignThread ==
  /\ pc.worker = "none" /\ (registered \/ pc.stopper # "none")
  /\ pc' = [pc EXCEPT !.worker = "assigned"]
  /\ UNCHANGED <<registered, stopEvent, todo, current, frames, capture,
                 captureOf, writer, folders, joined>>

\* No thread can be started: the session is forgotten and the request fails.
StartThread ==
  /\ pc.worker = "assigned"
  /\ \/ pc' = [pc EXCEPT !.worker = "setup"] /\ UNCHANGED registered
     \/ pc' = [pc EXCEPT !.worker = "failed"] /\ registered' = FALSE
  /\ UNCHANGED <<stopEvent, todo, current, frames, capture, captureOf, writer,
                 folders, joined>>

-----------------------------------------------------------------------------
\* The worker's set-up.  Loading models, backend or store may raise, and the
\* thread ends there: the clean-up below is of the loop, not of the set-up.
\* For each camera a capture is started, and a writer is made; what was under
\* the same id is replaced.
SetUpFails ==
  /\ pc.worker = "setup" /\ capture[1].thread = "none"
  /\ pc' = [pc EXCEPT !.worker = "ended"]
  /\ UNCHANGED <<registered, stopEvent, todo, current, frames, capture,
                 captureOf, writer, folders, joined>>

SetUpCapture ==
  /\ pc.worker = "setup" /\ current \in Place
  /\ capture[current].thread = "none"
  /\ capture' = [capture EXCEPT ![current] = StartCapture(@)]
  /\ captureOf' = [captureOf EXCEPT ![Cameras[current]] = current]
  /\ UNCHANGED <<registered, stopEvent, pc, todo, current, frames, writer,
                 folders, joined>>

SetUpWriter ==
  /\ pc.worker = "setup" /\ current \in Place
  /\ capture[current].thread # "none"
  /\ writer' = [writer EXCEPT ![Cameras[current]].made = TRUE]
  /\ current' = current + 1
  /\ pc' = [pc EXCEPT !.worker = IF current = Len(Cameras) THEN "pass" ELSE @]
  /\ UNCHANGED <<registered, stopEvent, todo, frames, capture, captureOf,
                 folders, joined>>

\* Seeded fault: the event is looked at only when there are frames.
PassWaits ==
  LET with == {i \in Id : HasFrame(capture[captureOf[i]])}
  IN  /\ pc.worker = "pass" /\ with # {}
      /\ IF stopEvent
           THEN /\ pc' = [pc EXCEPT !.worker = "captures"]
                /\ todo' = [todo EXCEPT !.worker = TableCaptures]
                /\ UNCHANGED <<current, frames>>
           ELSE /\ pc' = [pc EXCEPT !.worker = "camera"]
                /\ current' = 1
                /\ frames' = with
                /\ UNCHANGED todo
      /\ UNCHANGED <<registered, stopEvent, capture, captureOf, writer, folders,
                     joined>>

\* The top of the loop: the stop event ends it, else the cameras' frames are
\* taken; without any the worker waits a little and looks again.
Pass ==
  /\ pc.worker = "pass"
  /\ IF stopEvent
       THEN /\ pc' = [pc EXCEPT !.worker = "captures"]
            /\ todo' = [todo EXCEPT !.worker = TableCaptures]
            /\ UNCHANGED <<current, frames>>
       ELSE LET with == {i \in Id : HasFrame(capture[captureOf[i]])}
            IN /\ with # {}
               /\ pc' = [pc EXCEPT !.worker = "camera"]
               /\ current' = 1
               /\ frames' = with
               /\ UNCHANGED todo
  /\ UNCHANGED <<registered, stopEvent, capture, captureOf, writer, folders,
                 joined>>

\* The next camera of the pass.  Its frame is annotated and given to its writer,
\* whose write() looks at the closed flag first, outside the lock.
Camera ==
  /\ pc.worker = "camera"
  /\ IF current \notin Place
       THEN pc' = [pc EXCEPT !.worker = "pass"] /\ UNCHANGED current
     ELSE IF Cameras[current] \in frames /\ ~writer[Cameras[current]].closed
       THEN pc' = [pc EXCEPT !.worker = "locking"] /\ UNCHANGED current
       ELSE current' = current + 1 /\ UNCHANGED pc
  /\ UNCHANGED <<registered, stopEvent, todo, frames, capture, captureOf,
                 writer, folders, joined>>

\* Seeded fault: the clean-up is not in a finally block.
FrameFailsBare ==
  /\ pc.worker = "camera" /\ current \in Place /\ Cameras[current] \in frames
  /\ pc' = [pc EXCEPT !.worker = "ended"]
  /\ UNCHANGED <<registered, stopEvent, todo, current, frames, capture,
                 captureOf, writer, folders, joined>>

\* Anything a frame goes through may raise; the loop's clean-up follows.
FrameFails ==
  /\ pc.worker = "camera" /\ current \in Place /\ Cameras[current] \in frames
  /\ pc' = [pc EXCEPT !.worker = "captures"]
  /\ todo' = [todo EXCEPT !.worker = TableCaptures]
  /\ UNCHANGED <<registered, stopEvent, current, frames, capture, captureOf,
                 writer, folders, joined>>

\* Under the lock: the folder is made and ffmpeg started unless there is a
\* process, and the frame goes into its pipe.
Opened(w) ==
  [w EXCEPT !.locked = TRUE,
            !.ffmpeg = IF w.ffmpeg = "none" THEN "up" ELSE w.ffmpeg]

Lock ==
  /\ pc.worker = "locking" /\ ~writer[Cameras[current]].locked
  /\ pc' = [pc EXCEPT !.worker = "writing"]
  /\ writer' = [writer EXCEPT ![Cameras[current]] = Opened(@)]
  /\ folders' = IF writer[Cameras[current]].ffmpeg = "none"
                  THEN folders \cup {Cameras[current]} ELSE folders
  /\ UNCHANGED <<registered, stopEvent, todo, current, frames, capture,
                 captureOf, joined>>

\* ffmpeg cannot be started, before or after its folder is made.
FfmpegFails ==
  /\ pc.worker = "locking" /\ ~writer[Cameras[current]].locked
  /\ writer[Cameras[current]].ffmpeg = "none"
  /\ folders' \in {folders, folders \cup {Cameras[current]}}
  /\ pc' = [pc EXCEPT !.worker = "captures"]
  /\ todo' = [todo EXCEPT !.worker = TableCaptures]
  /\ UNCHANGED <<registered, stopEvent, current, frames, capture, captureOf,
                 writer, joined>>

\* The pipe takes the frame, or is found broken: the process is reaped and the
\* next frame starts another.
Released(w) ==
  [w EXCEPT !.locked = FALSE,
            !.ffmpeg = IF w.ffmpeg = "dead" THEN "none" ELSE w.ffmpeg]

Written ==
  /\ pc.worker = "writing"
  /\ writer' = [writer EXCEPT ![Cameras[current]] = Released(@)]
  /\ pc' = [pc EXCEPT !.worker = "camera"]
  /\ current' = current + 1
  /\ UNCHANGED <<registered, stopEvent, todo, frames, capture, captureOf,
                 folders, joined>>

FfmpegDies(i) ==
  /\ writer[i].ffmpeg = "up"
  /\ writer' = [writer EXCEPT ![i].ffmpeg = "dead"]
  /\ UNCHANGED <<registered, stopEvent, pc, todo, current, frames, capture,
                 captureOf, folders, joined>>

-----------------------------------------------------------------------------
\* The same two loops end the worker (its finally block) and make up stop():
\* tell every capture to stop, and close every writer.
After(t, phase) == CASE t = "worker" /\ phase = "captures"  -> "writers"
                     [] t = "worker" /\ phase = "writers"   -> "ended"
                     [] t = "stopper" /\ phase = "captures" -> "join"
                     [] OTHER                               -> "folder"

TellCapture(t) ==
  /\ pc[t] = "captures"
  /\ \E p \in todo[t] :
       /\ capture' = [capture EXCEPT ![p] = StopCapture(@)]
       /\ todo' = [todo EXCEPT ![t] = @ \ {p}]
  /\ UNCHANGED <<registered, stopEvent, pc, current, frames, captureOf, writer,
                 folders, joined>>

\* Seeded fault: a writer closed before its first frame is not marked.
CloseWriterUnmarked(t) ==
  /\ pc[t] = "writers"
  /\ \E i \in todo[t] :
       /\ ~writer[i].locked
       /\ writer' = [writer EXCEPT ![i] =
                       [@ EXCEPT !.closed = (@ \/ writer[i].ffmpeg # "none"),
                                 !.ffmpeg = "none"]]
       /\ todo' = [todo EXCEPT ![t] = @ \ {i}]
  /\ UNCHANGED <<registered, stopEvent, pc, current, frames, capture,
                 captureOf, folders, joined>>

\* close(): under the lock the flag is set and the process, if any, is drained,
\* waited for and killed if need be.
CloseWriter(t) ==
  /\ pc[t] = "writers"
  /\ \E i \in todo[t] :
       /\ ~writer[i].locked
       /\ writer' = [writer EXCEPT ![i] =
                       [@ EXCEPT !.closed = TRUE, !.ffmpeg = "none"]]
       /\ todo' = [todo EXCEPT ![t] = @ \ {i}]
  /\ UNCHANGED <<registered, stopEvent, pc, current, frames, capture,
                 captureOf, folders, joined>>

LoopDone(t) ==
  /\ pc[t] \in {"captures", "writers"} /\ todo[t] = {}
  /\ pc' = [pc EXCEPT ![t] = After(t, @)]
  /\ todo' = [todo EXCEPT ![t] = IF t = "worker" /\ pc[t] = "captures"
                                   THEN TableWriters ELSE {}]
  /\ UNCHANGED <<registered, stopEvent, current, frames, capture, captureOf,
                 writer, folders, joined>>

-----------------------------------------------------------------------------
\* POST /streams/stop takes the session out of the registry and stops it; the
\* server's shutdown leaves it there.  The event is set and the captures in the
\* table at that moment are told.
Stop ==
  /\ registered /\ pc.stopper = "none"
  /\ registered' \in BOOLEAN
  /\ stopEvent' = TRUE
  /\ pc' = [pc EXCEPT !.stopper = "captures"]
  /\ todo' = [todo EXCEPT !.stopper = TableCaptures]
  /\ UNCHANGED <<current, frames, capture, captureOf, writer, folders, joined>>

\* The worker is waited for, ten seconds at most.  A thread that is made but not
\* yet started cannot be joined: stop() raises, and the request fails.
Join ==
  /\ pc.stopper = "join"
  /\ IF pc.worker \in {"assigned", "failed"}
       THEN pc' = [pc EXCEPT !.stopper = "raised"] /\ UNCHANGED <<todo, joined>>
       ELSE /\ pc' = [pc EXCEPT !.stopper = "writers"]
            /\ todo' = [todo EXCEPT !.stopper = TableWriters]
            /\ joined' = (pc.worker \in {"none", "ended"})
  /\ UNCHANGED <<registered, stopEvent, current, frames, capture, captureOf,
                 writer, folders>>

RemoveFolder ==
  /\ pc.stopper = "folder"
  /\ folders' = {}
  /\ pc' = [pc EXCEPT !.stopper = "done"]
  /\ UNCHANGED <<registered, stopEvent, todo, current, frames, capture,
                 captureOf, writer, joined>>

CaptureStep(p) ==
  /\ \E c \in CaptureSteps(capture[p]) : capture' = [capture EXCEPT ![p] = c]
  /\ UNCHANGED <<registered, stopEvent, pc, todo, current, frames, captureOf,
                 writer, folders, joined>>

WorkerStep ==
  \/ SetUpFails \/ SetUpCapture \/ SetUpWriter
  \/ Pass \/ Camera \/ FrameFails \/ Lock \/ FfmpegFails \/ Written
  \/ TellCapture("worker") \/ CloseWriter("worker") \/ LoopDone("worker")

StopperStep ==
  \/ TellCapture("stopper") \/ CloseWriter("stopper") \/ LoopDone("stopper")
  \/ Join \/ RemoveFolder

Next ==
  \/ Register \/ AssignThread \/ StartThread \/ Stop
  \/ WorkerStep \/ StopperStep
  \/ \E i \in Id : FfmpegDies(i)
  \/ \E p \in Place : CaptureStep(p)

Spec == Init /\ [][Next]_vars

\* A request that was accepted runs on, threads are scheduled, a source answers
\* or fails, and ffmpeg takes a frame in the end; nobody has to stop a session,
\* and no frame, failure or death of ffmpeg has to happen.
FairSpec ==
  /\ Spec
  /\ WF_vars(AssignThread) /\ WF_vars(StartThread)
  /\ WF_vars(WorkerStep) /\ WF_vars(StopperStep)
  /\ \A p \in Place : WF_vars(CaptureStep(p))

-----------------------------------------------------------------------------
TypeOK ==
  /\ registered \in BOOLEAN /\ stopEvent \in BOOLEAN /\ joined \in BOOLEAN
  /\ pc \in [worker : WorkerPhase, stopper : StopperPhase]
  /\ todo \in [worker : SUBSET (Place \cup Id), stopper : SUBSET (Place \cup Id)]
  /\ current \in 1..Len(Cameras) + 1
  /\ frames \subseteq Id /\ folders \subseteq Id
  /\ capture \in [Place -> Captures]
  /\ captureOf \in [Id -> Place \cup {0}]
  /\ writer \in [Id -> Writer]

\* A worker that has ended, however it came to, leaves no ffmpeg running, none
\* to be reaped and no writer locked, although stop() may be closing the same
\* writers, or may have closed them while the last frame was on its way in.
NoOrphanFfmpeg ==
  pc.worker = "ended" =>
    \A i \in Id : writer[i].ffmpeg = "none" /\ ~writer[i].locked

\* When stop() has returned and the worker's end was waited for, nothing is left
\* on disk; when the wait timed out, what a frame already past the closed flag
\* writes is all that can be: one folder.
FolderRemoved ==
  pc.stopper = "done" => /\ joined => folders = {}
                         /\ Cardinality(folders) <= 1

\* Once stop() is called, whatever the worker is doing and whether or not the
\* thread ever starts, every thread of the session ends and no ffmpeg is left.
SessionEnded ==
  /\ pc.worker \in {"failed", "ended"}
  /\ \A p \in Place : capture[p].thread \in {"none", "ended"}
  /\ \A i \in Id : writer[i].ffmpeg = "none"

StoppedSessionsEnd == stopEvent ~> SessionEnded
=============================================================================
