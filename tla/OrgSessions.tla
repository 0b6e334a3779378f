----------------------------- MODULE OrgSessions -----------------------------
(***************************************************************************)
(* People-counting connections and what they hold: the WebSocket handler   *)
(* (people_counting_handler.py), the session and its camera workers        *)
(* (people_counting_runner.py), the organisations' shared galleries        *)
(* (org_registry.py) and each worker's capture thread (capture.py).        *)
(*                                                                         *)
(* Handlers run on one event loop and block it while they stop workers; a  *)
(* worker and its capture are threads.  A join has a timeout, so the loop  *)
(* may go on before the thread has ended.                                  *)
(*                                                                         *)
(* A gallery's generation counts the times it was emptied: the numbering   *)
(* of people starts afresh with each.  A second connection under a client  *)
(* id in use is turned away with nothing changed, and so is a request for  *)
(* another organisation on an open session; neither is an action.          *)
(***************************************************************************)
EXTENDS Integers, FiniteSets, Sequences, Functions

CONSTANTS Client, Org, Cam,
          NoSession,    \* None in the sessions dict: connected, no session yet
          Nobody,       \* no client
          MaxCameras,   \* MAX_CAMERAS (5 in the code)
          Settings,     \* the configurations considered
          MaxWorkers,   \* bound on the workers ever started
          MaxRequest,   \* bound on the cameras named in one request
          MaxGeneration \* bound on how often a gallery is emptied

ASSUME OrgSessionsAssumption ==
  /\ NoSession \notin Org
  /\ Nobody \notin Client
  /\ IsFiniteSet(Client) /\ IsFiniteSet(Cam)
  /\ MaxCameras \in Nat \ {0}
  /\ MaxRequest \in Nat \ {0}
  /\ MaxWorkers \in Nat
  /\ MaxGeneration \in Nat
  /\ Settings \subseteq [keepDb : BOOLEAN, resetOnConnect : BOOLEAN,
                         disposeOnZero : BOOLEAN]

VARIABLES config,     \* the settings of this process
          sessions,   \* client -> organisation of its session, or NoSession
          slots,      \* session._workers: camera -> worker
          worker,     \* every worker thread started, in any order
          loop,       \* what the event loop is in the middle of
          built,      \* OrgRegistry._orgs
          seen,       \* OrgRegistry._seen_orgs
          refcount,   \* OrgResources.refcount
          generation  \* of each organisation's gallery

regVars == <<built, seen, refcount, generation>>
vars == <<config, sessions, slots, worker, loop, regVars>>

Thread == 1..Len(worker)
Phase == {"setup", "running", "tick", "ended"}
Worker == [client : Client, cam : Cam, org : Org, gen : Nat,
           phase : Phase, stop : BOOLEAN,
           capture : {"none", "running", "told"}]
Loop == [client : Client \cup {Nobody}, stage : {"next", "join"},
         todo : SUBSET Nat, closing : BOOLEAN]

Idle == [client |-> Nobody, stage |-> "next", todo |-> {},
         closing |-> FALSE]
NoSlots == [k \in {} |-> 0]
Connected == DOMAIN sessions
Attached == {c \in Connected : sessions[c] # NoSession}

Init ==
  /\ config \in Settings
  /\ sessions = [c \in {} |-> NoSession]
  /\ slots = [c \in Client |-> NoSlots]
  /\ worker = <<>>
  /\ loop = Idle
  /\ built = {}
  /\ seen = {}
  /\ refcount = [o \in Org |-> 0]
  /\ generation = [o \in Org |-> 0]

-----------------------------------------------------------------------------
(* OrgRegistry: only the event loop calls it. *)

\* keep_db: false empties the gallery at an organisation's first attach.
Wipes(o) == o \notin seen /\ ~config.keepDb

\* Sessions that hold the organisation's resources; they start at none.
Holders(o) == IF o \in built THEN refcount[o] ELSE 0

Attach(o, empties) ==
  /\ built' = built \cup {o}
  /\ refcount' = [refcount EXCEPT ![o] = Holders(o) + 1]
  /\ generation' = [generation EXCEPT ![o] = @ + IF empties THEN 1 ELSE 0]

Resets(o, resetOk) == config.resetOnConnect /\ Holders(o) = 0 /\ resetOk

\* Seeded fault: the first attach is not remembered.
AcquireUnseen(o, resetOk) ==
  /\ seen' = seen
  /\ Attach(o, (o \notin built /\ Wipes(o)) \/ Resets(o, resetOk))

\* Seeded fault: every build of the resources wipes.
AcquireWipesAgain(o, resetOk) ==
  /\ seen' = seen \cup {o}
  /\ Attach(o, (o \notin built /\ ~config.keepDb) \/ Resets(o, resetOk))

\* Seeded fault: reset_on_connect does not ask who else is attached.
AcquireResetsAnyway(o, resetOk) ==
  /\ seen' = seen \cup {o}
  /\ Attach(o, \/ o \notin built /\ Wipes(o)
               \/ config.resetOnConnect /\ resetOk)

\* acquire(): build on first use, reset if asked to and nobody is attached.
\* A failed reset is logged and the numbering goes on.
Acquire(o, resetOk) ==
  /\ seen' = seen \cup {o}
  /\ Attach(o, (o \notin built /\ Wipes(o)) \/ Resets(o, resetOk))

Release(o) ==
  LET rc == IF refcount[o] = 0 THEN 0 ELSE refcount[o] - 1
  IN /\ refcount' = [refcount EXCEPT ![o] = rc]
     /\ built' = IF rc = 0 /\ config.disposeOnZero THEN built \ {o} ELSE built
     /\ UNCHANGED <<seen, generation>>

-----------------------------------------------------------------------------
(* The handler.  It acts only while the loop is not stopping workers. *)

LoopFree == loop = Idle

Connect(c) ==
  /\ LoopFree
  /\ c \notin Connected
  /\ sessions' = [d \in Connected \cup {c} |->
                    IF d = c THEN NoSession ELSE sessions[d]]
  /\ UNCHANGED <<config, slots, worker, loop, regVars>>

\* Seeded fault: a camera that has a worker is not refused.
AdmittedAgain(c, request) ==
  LET available == MaxCameras - Cardinality(DOMAIN slots[c])
  IN {request[i] : i \in {j \in DOMAIN request : j <= available}}

\* The cameras of a request that get a worker: the request is cut to the
\* slots left, then those that have a worker already are refused.
Admitted(c, request) ==
  LET available == MaxCameras - Cardinality(DOMAIN slots[c])
  IN {request[i] : i \in {j \in DOMAIN request : j <= available}}
       \ DOMAIN slots[c]

NewWorker(c, o, k, gen) ==
  [client |-> c, cam |-> k, org |-> o, gen |-> gen, phase |-> "setup",
   stop |-> FALSE, capture |-> "none"]

\* Each camera of new gets a worker thread, in any order.
StartWorkers(c, o, new) ==
  LET last == Len(worker) + Cardinality(new)
  IN /\ last <= MaxWorkers
     /\ \E id \in Bijection(new, Len(worker) + 1 .. last) :
          /\ slots' = [slots EXCEPT ![c] =
               [k \in DOMAIN @ \cup new |-> IF k \in new THEN id[k] ELSE @[k]]]
          /\ worker' = [t \in 1..last |->
               IF t \in Thread THEN worker[t]
               ELSE NewWorker(c, o, CHOOSE k \in new : id[k] = t,
                              generation'[o])]

\* start_cameras().
StartCameras(c, o, request) == StartWorkers(c, o, Admitted(c, request))

Request == UNION {[1..n -> Cam] : n \in 1..MaxRequest}

\* The first start_stream of a connection opens its session.
OpenSession(c, o, request) ==
  /\ LoopFree
  /\ c \in Connected /\ sessions[c] = NoSession
  /\ generation[o] < MaxGeneration
  /\ \E resetOk \in BOOLEAN : Acquire(o, resetOk)
  /\ sessions' = [sessions EXCEPT ![c] = o]
  /\ StartCameras(c, o, request)
  /\ UNCHANGED <<config, loop>>

\* The resources cannot be built: the handler fails and the connection ends.
\* The gallery may have been wiped before the failure.
OpenFails(c, o) ==
  /\ LoopFree
  /\ c \in Connected /\ sessions[c] = NoSession
  /\ o \notin built
  /\ sessions' = [d \in Connected \ {c} |-> sessions[d]]
  /\ \E wiped \in {FALSE, Wipes(o)} :
       /\ wiped => generation[o] < MaxGeneration
       /\ generation' = [generation EXCEPT ![o] = @ + IF wiped THEN 1 ELSE 0]
  /\ UNCHANGED <<config, slots, worker, loop, built, seen, refcount>>

\* A later start_stream adds cameras to the session.
AddCameras(c, request) ==
  /\ LoopFree
  /\ c \in Attached
  /\ UNCHANGED <<config, sessions, loop, regVars>>
  /\ StartCameras(c, sessions[c], request)

\* stop_stream: the camera's slot is free before its worker is stopped.
StopCamera(c, k) ==
  /\ LoopFree
  /\ c \in Attached /\ k \in DOMAIN slots[c]
  /\ slots' = [slots EXCEPT ![c] = [j \in DOMAIN @ \ {k} |-> @[j]]]
  /\ loop' = [Idle EXCEPT !.client = c, !.todo = {slots[c][k]}]
  /\ UNCHANGED <<config, sessions, worker, regVars>>

\* stop_all() empties the dict, then stops what was in it.
StopWorkers(c, closing) ==
  /\ slots' = [slots EXCEPT ![c] = NoSlots]
  /\ loop' = [Idle EXCEPT !.client = c, !.closing = closing,
                          !.todo = {slots[c][k] : k \in DOMAIN slots[c]}]

StopAll(c) ==
  /\ LoopFree
  /\ c \in Attached
  /\ StopWorkers(c, FALSE)
  /\ UNCHANGED <<config, sessions, worker, regVars>>

\* The connection ends without ever having opened a session.
LeaveUnattached(c) ==
  /\ LoopFree
  /\ c \in Connected /\ sessions[c] = NoSession
  /\ sessions' = [d \in Connected \ {c} |-> sessions[d]]
  /\ UNCHANGED <<config, slots, worker, loop, regVars>>

\* The connection ends and close() begins.
Disconnect(c) ==
  /\ LoopFree
  /\ c \in Attached
  /\ StopWorkers(c, TRUE)
  /\ UNCHANGED <<config, sessions, worker, regVars>>

-----------------------------------------------------------------------------
(* The event loop inside _CameraWorker.stop() and close(). *)

\* What capture.stop() makes of a capture.
Told(capture) == IF capture = "running" THEN "told" ELSE capture

\* The next worker's stop event is set and its capture, if it has one yet, is
\* told to end.
Signal(t) ==
  /\ loop.stage = "next" /\ t \in loop.todo
  /\ worker' = [worker EXCEPT ![t].stop = TRUE, ![t].capture = Told(@)]
  /\ loop' = [loop EXCEPT !.todo = @ \ {t}, !.stage = "join"]
  /\ UNCHANGED <<config, sessions, slots, regVars>>

\* The worker has ended, or the 3 s for its capture and 5 s for itself are over.
Joined ==
  /\ loop.stage = "join"
  /\ loop' = [loop EXCEPT !.stage = "next"]
  /\ UNCHANGED <<config, sessions, slots, worker, regVars>>

Stopped ==
  /\ loop.client # Nobody /\ loop.stage = "next" /\ loop.todo = {}
  /\ ~loop.closing
  /\ loop' = Idle
  /\ UNCHANGED <<config, sessions, slots, worker, regVars>>

\* Seeded fault: the organisation is not released.
CloseDoneKeeps ==
  /\ loop.client # Nobody /\ loop.stage = "next" /\ loop.todo = {}
  /\ loop.closing
  /\ sessions' = [d \in Connected \ {loop.client} |-> sessions[d]]
  /\ loop' = Idle
  /\ UNCHANGED <<config, slots, worker, regVars>>

\* close() releases the organisation; the handler forgets the client.
CloseDone ==
  /\ loop.client # Nobody /\ loop.stage = "next" /\ loop.todo = {}
  /\ loop.closing
  /\ Release(sessions[loop.client])
  /\ sessions' = [d \in Connected \ {loop.client} |-> sessions[d]]
  /\ loop' = Idle
  /\ UNCHANGED <<config, slots, worker>>

-----------------------------------------------------------------------------
(* A worker thread.  Its capture thread ends by itself once it is told to
   (RTSPCapture.running). *)

Moves(t, phase, capture) ==
  /\ worker' = [worker EXCEPT ![t].phase = phase, ![t].capture = capture]
  /\ UNCHANGED <<config, sessions, slots, loop, regVars>>

\* The stream URL is resolved, the model loaded and the capture started; the
\* stop event is not looked at on the way.
SetUp(t) ==
  /\ worker[t].phase = "setup"
  /\ Moves(t, "running", "running")

SetUpFails(t) ==
  /\ worker[t].phase = "setup"
  /\ Moves(t, "ended", "none")

\* A frame is taken up for processing.
TickBegins(t) ==
  /\ worker[t].phase = "running" /\ ~worker[t].stop
  /\ Moves(t, "tick", worker[t].capture)

TickEnds(t) ==
  /\ worker[t].phase = "tick"
  /\ Moves(t, "running", worker[t].capture)

\* Seeded fault: the worker leaves its capture to whoever stopped it.
LeaveAlone(t) ==
  /\ \/ worker[t].phase = "running" /\ worker[t].stop
     \/ worker[t].phase = "tick"
  /\ Moves(t, "ended", worker[t].capture)

\* The loop sees the stop event, or a tick raises: the finally clause stops
\* the capture (its 3 s of waiting are the worker's last).
Leave(t) ==
  /\ \/ worker[t].phase = "running" /\ worker[t].stop
     \/ worker[t].phase = "tick"
  /\ Moves(t, "ended", Told(worker[t].capture))

-----------------------------------------------------------------------------
Next ==
  \/ \E c \in Client :
       \/ Connect(c) \/ LeaveUnattached(c) \/ Disconnect(c) \/ StopAll(c)
       \/ \E o \in Org :
            OpenFails(c, o) \/ \E r \in Request : OpenSession(c, o, r)
       \/ \E r \in Request : AddCameras(c, r)
       \/ \E k \in Cam : StopCamera(c, k)
  \/ \E t \in Thread : Signal(t)
  \/ Joined \/ Stopped \/ CloseDone
  \/ \E t \in Thread :
       \/ SetUp(t) \/ SetUpFails(t) \/ TickBegins(t) \/ TickEnds(t)
       \/ Leave(t)

Spec == Init /\ [][Next]_vars

\* Every thread gets to run and its blocking calls return: what the loop does
\* to stop workers, and what a worker does once it has begun.
Progress(t) ==
  /\ WF_vars(t \in Thread /\ (SetUp(t) \/ SetUpFails(t)))
  /\ WF_vars(t \in Thread /\ (TickEnds(t) \/ Leave(t)))

FairSpec ==
  /\ Spec
  /\ \A t \in 1..MaxWorkers : Progress(t)
  /\ WF_vars(\E t \in Thread : Signal(t))
  /\ WF_vars(Joined) /\ WF_vars(Stopped) /\ WF_vars(CloseDone)

-----------------------------------------------------------------------------
(* Properties *)

TypeOK ==
  /\ config \in Settings
  /\ Connected \subseteq Client
  /\ sessions \in [Connected -> Org \cup {NoSession}]
  /\ \A c \in Client : DOMAIN slots[c] \subseteq Cam
  /\ DOMAIN slots = Client
  /\ worker \in Seq(Worker)
  /\ \A c \in Client : slots[c] \in [DOMAIN slots[c] -> Thread]
  /\ loop \in Loop /\ loop.todo \subseteq Thread
  /\ built \subseteq seen /\ seen \subseteq Org
  /\ refcount \in [Org -> Nat]
  /\ generation \in [Org -> Nat]

\* The clients with a session open for the organisation.
Holding(o) == {c \in Attached : sessions[c] = o}

\* The reference count the registry decides resets by is the number of open
\* sessions, whatever the order of opens, failures and closes (acquire,
\* release, close).
RefcountIsSessions == \A o \in Org : refcount[o] = Cardinality(Holding(o))

Live(t) == worker[t].phase # "ended"
LetGo(t) == ~Live(t) /\ worker[t].capture # "running"
Unstopped == {t \in Thread : Live(t) /\ ~worker[t].stop}

\* A worker that runs on unstopped can still be reached: it is the one its
\* session has for the camera, or the loop is about to stop it.  Without this
\* a camera streams on with nobody able to stop it (start_cameras,
\* stop_camera, stop_all).
NoOrphanWorker ==
  \A t \in Unstopped :
    LET w == worker[t] IN
    \/ /\ w.client \in Attached /\ sessions[w.client] = w.org
       /\ w.cam \in DOMAIN slots[w.client] /\ slots[w.client][w.cam] = t
    \/ t \in loop.todo /\ loop.client = w.client

\* A worker that nobody has told to stop writes under the numbering it
\* started with: no gallery is emptied under a streaming camera (acquire:
\* "so we don't trash a concurrent run").
GalleryStable ==
  \A t \in Unstopped : worker[t].gen = generation[worker[t].org]

\* A connection never has more than MaxCameras workers that nobody has told to
\* stop, however its requests and stops follow each other: the dict is emptied
\* before the workers in it are stopped, but nothing is started in between
\* (start_cameras: available; stop_camera, stop_all).
CameraLimit ==
  \A c \in Client :
    Cardinality({t \in Unstopped : worker[t].client = c}) <= MaxCameras

\* Once a session has been opened for an organisation, only reset_on_connect
\* empties its gallery, and only with no session open: "a brief reconnect must
\* not wipe the SID gallery" (_build, _seen_orgs).
GalleryOutlivesReconnect ==
  [][\A o \in seen :
       generation'[o] # generation[o] =>
         config.resetOnConnect /\ refcount[o] = 0]_vars

\* A worker that was told to stop ends, with its capture told to end, even when
\* the stop came while the worker was still being set up (stop, finally).
StoppedWorkersEnd ==
  \A t \in 1..MaxWorkers :
    (t \in Thread /\ worker[t].stop) ~> (t \in Thread /\ LetGo(t))

=============================================================================
