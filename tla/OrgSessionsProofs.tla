-------------------------- MODULE OrgSessionsProofs --------------------------
(* Proofs about OrgSessions: typing, the reference count, and that every     *)
(* running worker is owned by an open session and keeps its gallery.         *)
EXTENDS OrgSessions, FiniteSetTheorems, TLAPS

USE DEF Connected, Thread

-----------------------------------------------------------------------------
(* Lemmas *)

\* What starting workers changes: the old ones stay as they are, every new one
\* is a fresh worker in the slot of its camera.
LEMMA StartWorkersEffect ==
  ASSUME TypeOK, generation' \in [Org -> Nat],
         NEW c \in Client, NEW o \in Org, NEW new \in SUBSET Cam,
         new \cap DOMAIN slots[c] = {},
         StartWorkers(c, o, new)
  PROVE  /\ worker' \in Seq(Worker)
         /\ Thread \subseteq Thread'
         /\ \A t \in Thread : worker'[t] = worker[t]
         /\ \A t \in Thread' \ Thread :
              \E k \in new : /\ worker'[t] = NewWorker(c, o, k, generation'[o])
                             /\ slots'[c][k] = t
         /\ DOMAIN slots' = Client
         /\ \A d \in Client \ {c} : slots'[d] = slots[d]
         /\ DOMAIN slots'[c] = DOMAIN slots[c] \cup new
         /\ \A k \in DOMAIN slots[c] : slots'[c][k] = slots[c][k]
         /\ slots'[c] \in [DOMAIN slots'[c] -> Thread']
<1> DEFINE last == Len(worker) + Cardinality(new)
<1>1. worker \in Seq(Worker) /\ Len(worker) \in Nat
  BY DEF TypeOK
<1>2. Cardinality(new) \in Nat /\ last \in Nat /\ Len(worker) <= last
  BY <1>1, OrgSessionsAssumption, FS_Subset, FS_CardinalityType
<1>3. PICK id \in Bijection(new, Len(worker) + 1 .. last) :
        /\ slots' = [slots EXCEPT ![c] =
             [k \in DOMAIN @ \cup new |-> IF k \in new THEN id[k] ELSE @[k]]]
        /\ worker' = [t \in 1..last |->
             IF t \in 1..Len(worker) THEN worker[t]
             ELSE NewWorker(c, o, CHOOSE k \in new : id[k] = t,
                            generation'[o])]
  BY DEF StartWorkers
<1>4. /\ id \in [new -> Len(worker) + 1 .. last]
      /\ \A t \in Len(worker) + 1 .. last : \E k \in new : id[k] = t
  BY DEF Bijection, Injection, Surjection
<1> HIDE DEF last
<1>5. \A t \in 1..last : t \notin 1..Len(worker) =>
         LET k == CHOOSE j \in new : id[j] = t IN k \in new /\ id[k] = t
  BY <1>1, <1>2, <1>4
<1>6. \A k \in new : NewWorker(c, o, k, generation'[o]) \in Worker
  BY DEF NewWorker, Worker, Phase
<1>7. worker' \in [1..last -> Worker]
  BY <1>1, <1>3, <1>5, <1>6
<1>8. worker' \in Seq(Worker) /\ Len(worker') = last
  BY <1>2, <1>7
<1>9. \A t \in 1..Len(worker) : worker'[t] = worker[t]
  BY <1>1, <1>2, <1>3
<1>10. /\ DOMAIN slots' = Client
       /\ \A d \in Client \ {c} : slots'[d] = slots[d]
       /\ slots'[c] = [k \in DOMAIN slots[c] \cup new |->
                         IF k \in new THEN id[k] ELSE slots[c][k]]
  BY <1>3 DEF TypeOK
<1>11. slots[c] \in [DOMAIN slots[c] -> 1..Len(worker)]
  BY DEF TypeOK
<1>12. slots'[c] \in [DOMAIN slots'[c] -> 1..last]
  BY <1>1, <1>2, <1>4, <1>10, <1>11
<1>13. \A t \in 1..last : t \notin 1..Len(worker) =>
         \E k \in new : /\ worker'[t] = NewWorker(c, o, k, generation'[o])
                        /\ slots'[c][k] = t
  BY <1>3, <1>5, <1>10
<1> QED
  BY <1>1, <1>2, <1>8, <1>9, <1>10, <1>12, <1>13

\* A worker's own step leaves every other worker alone, and of itself all but
\* the phase and the capture.
LEMMA MovesEffect ==
  ASSUME TypeOK, NEW t \in Thread, NEW p \in Phase,
         NEW k \in {"none", "running", "told"}, Moves(t, p, k)
  PROVE  /\ worker' \in Seq(Worker) /\ Len(worker') = Len(worker)
         /\ worker'[t].phase = p
         /\ \A u \in Thread :
              /\ worker'[u].client = worker[u].client
              /\ worker'[u].cam = worker[u].cam
              /\ worker'[u].org = worker[u].org
              /\ worker'[u].gen = worker[u].gen
              /\ worker'[u].stop = worker[u].stop
              /\ u # t => worker'[u] = worker[u]
<1>1. worker \in Seq(Worker) /\ worker[t] \in Worker
  BY DEF TypeOK
<1>2. [worker[t] EXCEPT !.phase = p, !.capture = k] \in Worker
  BY <1>1 DEF Worker
<1>3. worker' = [worker EXCEPT ![t] =
                   [worker[t] EXCEPT !.phase = p, !.capture = k]]
  BY <1>1 DEF Moves, Worker
<1> QED
  BY <1>1, <1>2, <1>3 DEF Worker

\* The steps of a worker thread.
WorkerStep(t) ==
  SetUp(t) \/ SetUpFails(t) \/ TickBegins(t) \/ TickEnds(t) \/ Leave(t)

\* A worker's step is a move out of a phase in which the worker is live.
LEMMA WorkerMoves ==
  ASSUME TypeOK, NEW t \in Thread, WorkerStep(t)
  PROVE  \E p \in Phase, k \in {"none", "running", "told"} :
           Moves(t, p, k) /\ Live(t)
<1>1. worker[t] \in Worker
  BY DEF TypeOK
<1>2. CASE SetUp(t)
  BY <1>1, <1>2 DEF SetUp, Phase, Live
<1>3. CASE SetUpFails(t)
  BY <1>1, <1>3 DEF SetUpFails, Phase, Live
<1>4. CASE TickBegins(t)
  BY <1>1, <1>4 DEF TickBegins, Phase, Live, Worker
<1>5. CASE TickEnds(t)
  BY <1>1, <1>5 DEF TickEnds, Phase, Live, Worker
<1>6. CASE Leave(t)
  BY <1>1, <1>6 DEF Leave, Told, Phase, Live, Worker
<1> QED
  BY <1>2, <1>3, <1>4, <1>5, <1>6 DEF WorkerStep

\* The cameras a request is granted, and the client's organisation.
LEMMA AdmittedCams ==
  ASSUME TypeOK, NEW c \in Client, NEW request \in Request
  PROVE  /\ Admitted(c, request) \in SUBSET Cam
         /\ Admitted(c, request) \cap DOMAIN slots[c] = {}
BY DEF Admitted, Request

LEMMA AttachedOrg ==
  ASSUME TypeOK, NEW c \in Attached
  PROVE  c \in Client /\ sessions[c] \in Org
BY DEF TypeOK, Attached

-----------------------------------------------------------------------------
(* Typing *)

LEMMA TypeInit == Init => TypeOK
<1> SUFFICES ASSUME Init PROVE TypeOK
  OBVIOUS
<1>1. worker = <<>> /\ Len(worker) = 0 /\ worker \in Seq(Worker)
  BY DEF Init
<1>2. loop \in Loop /\ loop.todo = {}
  BY DEF Init, Idle, Loop
<1> QED
  BY <1>1, <1>2 DEF Init, TypeOK, NoSlots

\* Typing is preserved by one step of the handlers.
LEMMA TypeHandler ==
  ASSUME TypeOK, NEW c \in Client,
         \/ Connect(c) \/ LeaveUnattached(c) \/ Disconnect(c) \/ StopAll(c)
         \/ \E o \in Org :
              OpenFails(c, o) \/ \E r \in Request : OpenSession(c, o, r)
         \/ \E r \in Request : AddCameras(c, r)
         \/ \E k \in Cam : StopCamera(c, k)
  PROVE  TypeOK'
<1>1. CASE Connect(c)
  BY <1>1 DEF TypeOK, Connect, regVars
<1>2. CASE LeaveUnattached(c)
  BY <1>2 DEF TypeOK, LeaveUnattached, regVars
<1>3. ASSUME NEW closing \in BOOLEAN, c \in Attached, StopWorkers(c, closing),
             UNCHANGED <<config, sessions, worker, regVars>>
      PROVE  TypeOK'
  <2>1. loop' = [client |-> c, stage |-> "next", closing |-> closing,
                 todo |-> {slots[c][k] : k \in DOMAIN slots[c]}]
    BY <1>3 DEF StopWorkers, Idle
  <2>2. \A k \in DOMAIN slots[c] : slots[c][k] \in Thread
    BY DEF TypeOK
  <2>3. loop' \in Loop /\ loop'.todo \subseteq Thread'
    BY <1>3, <2>1, <2>2 DEF Loop
  <2> QED
    BY <1>3, <2>3 DEF TypeOK, StopWorkers, NoSlots, regVars
<1>4. CASE Disconnect(c)
  BY <1>3, <1>4 DEF Disconnect
<1>5. CASE StopAll(c)
  BY <1>3, <1>5 DEF StopAll
<1>6. ASSUME NEW o \in Org, OpenFails(c, o) PROVE TypeOK'
  BY <1>6 DEF TypeOK, OpenFails
<1>7. ASSUME NEW o \in Org, NEW r \in Request, OpenSession(c, o, r)
      PROVE  TypeOK'
  <2>1. /\ built' = built \cup {o} /\ seen' = seen \cup {o}
        /\ refcount' \in [Org -> Nat] /\ generation' \in [Org -> Nat]
    BY <1>7 DEF TypeOK, OpenSession, Acquire, Attach, Holders
  <2>2. /\ worker' \in Seq(Worker) /\ Thread \subseteq Thread'
        /\ DOMAIN slots' = Client
        /\ \A d \in Client \ {c} : slots'[d] = slots[d]
        /\ DOMAIN slots'[c] = DOMAIN slots[c] \cup Admitted(c, r)
        /\ slots'[c] \in [DOMAIN slots'[c] -> Thread']
    BY <1>7, <2>1, AdmittedCams, StartWorkersEffect
    DEF OpenSession, StartCameras
  <2>3. \A d \in Client : /\ DOMAIN slots'[d] \subseteq Cam
                          /\ slots'[d] \in [DOMAIN slots'[d] -> Thread']
    BY <2>2, AdmittedCams DEF TypeOK
  <2> QED
    BY <1>7, <2>1, <2>2, <2>3 DEF TypeOK, OpenSession
<1>8. ASSUME NEW r \in Request, AddCameras(c, r) PROVE TypeOK'
  <2>1. c \in Attached /\ sessions[c] \in Org
    BY <1>8, AttachedOrg DEF AddCameras
  <2>2. /\ worker' \in Seq(Worker) /\ Thread \subseteq Thread'
        /\ DOMAIN slots' = Client
        /\ \A d \in Client \ {c} : slots'[d] = slots[d]
        /\ DOMAIN slots'[c] = DOMAIN slots[c] \cup Admitted(c, r)
        /\ slots'[c] \in [DOMAIN slots'[c] -> Thread']
    <3>1. generation' \in [Org -> Nat]
      BY <1>8 DEF AddCameras, regVars, TypeOK
    <3> QED
      BY <1>8, <2>1, <3>1, AdmittedCams, StartWorkersEffect
      DEF AddCameras, StartCameras
  <2>3. \A d \in Client : /\ DOMAIN slots'[d] \subseteq Cam
                          /\ slots'[d] \in [DOMAIN slots'[d] -> Thread']
    BY <2>2, AdmittedCams DEF TypeOK
  <2> QED
    BY <1>8, <2>2, <2>3 DEF TypeOK, AddCameras, regVars
<1>9. ASSUME NEW k \in Cam, StopCamera(c, k) PROVE TypeOK'
  <2>1. slots[c][k] \in Thread /\ c \in Client
    BY <1>9 DEF TypeOK, StopCamera
  <2>2. loop' = [client |-> c, stage |-> "next", closing |-> FALSE,
                 todo |-> {slots[c][k]}]
    BY <1>9 DEF StopCamera, Idle
  <2>3. UNCHANGED <<config, sessions, worker, regVars>> /\ Thread' = Thread
    BY <1>9 DEF StopCamera
  <2>4. {slots[c][k]} \subseteq Thread /\ Thread \subseteq Nat
    BY <2>1 DEF TypeOK
  <2>5. loop' \in Loop /\ loop'.todo \subseteq Thread'
    BY <2>1, <2>2, <2>3, <2>4 DEF Loop
  <2>6. slots' = [slots EXCEPT ![c] = [j \in DOMAIN @ \ {k} |-> @[j]]]
    BY <1>9 DEF StopCamera
  <2>7. \A d \in Client : /\ DOMAIN slots'[d] \subseteq Cam
                          /\ slots'[d] \in [DOMAIN slots'[d] -> Thread']
    BY <2>1, <2>3, <2>6 DEF TypeOK
  <2> QED
    BY <2>3, <2>5, <2>6, <2>7 DEF TypeOK, regVars
<1> QED
  BY <1>1, <1>2, <1>4, <1>5, <1>6, <1>7, <1>8, <1>9

\* Typing is preserved while the loop stops workers.
LEMMA TypeLoop ==
  ASSUME TypeOK,
         (\E t \in Thread : Signal(t)) \/ Joined \/ Stopped \/ CloseDone
  PROVE  TypeOK'
<1>1. ASSUME NEW t \in Thread, Signal(t) PROVE TypeOK'
  <2>1. worker[t] \in Worker /\ worker \in Seq(Worker)
    BY DEF TypeOK
  <2>2. [worker[t] EXCEPT !.stop = TRUE, !.capture = Told(@)] \in Worker
    BY <2>1 DEF Worker, Told
  <2>3. worker' = [worker EXCEPT ![t] =
                     [worker[t] EXCEPT !.stop = TRUE, !.capture = Told(@)]]
    BY <1>1, <2>1 DEF Signal, Worker
  <2>4. worker' \in Seq(Worker) /\ Len(worker') = Len(worker)
    BY <2>1, <2>2, <2>3
  <2>5. loop' \in Loop /\ loop'.todo \subseteq Thread'
    BY <1>1, <2>4 DEF Signal, Loop, TypeOK
  <2> QED
    BY <1>1, <2>4, <2>5 DEF TypeOK, Signal, regVars
<1>2. CASE Joined
  BY <1>2 DEF TypeOK, Joined, Loop, regVars
<1>3. CASE Stopped
  BY <1>3 DEF TypeOK, Stopped, Loop, Idle, regVars
<1>4. CASE CloseDone
  <2>1. refcount' \in [Org -> Nat] /\ built' \subseteq built
        /\ UNCHANGED <<seen, generation>>
    <3> DEFINE o == sessions[loop.client]
    <3>1. CASE o \in Org
      BY <1>4, <3>1 DEF CloseDone, Release, TypeOK
    <3>2. CASE o \notin Org
      BY <1>4, <3>2 DEF CloseDone, Release, TypeOK
    <3> QED
      BY <3>1, <3>2
  <2>2. loop' \in Loop /\ loop'.todo = {}
    BY <1>4 DEF CloseDone, Loop, Idle
  <2> QED
    BY <1>4, <2>1, <2>2 DEF TypeOK, CloseDone
<1> QED
  BY <1>1, <1>2, <1>3, <1>4

\* Typing is preserved by a worker.
LEMMA TypeWorker ==
  ASSUME TypeOK, NEW t \in Thread, WorkerStep(t)
  PROVE  TypeOK'
<1>1. PICK p \in Phase, k \in {"none", "running", "told"} :
        Moves(t, p, k) /\ Live(t)
  BY WorkerMoves
<1>2. worker' \in Seq(Worker) /\ Len(worker') = Len(worker)
  BY <1>1, MovesEffect
<1> QED
  BY <1>1, <1>2 DEF TypeOK, Moves, regVars

LEMMA TypeNext == TypeOK /\ [Next]_vars => TypeOK'
<1> SUFFICES ASSUME TypeOK, [Next]_vars PROVE TypeOK'
  OBVIOUS
<1>1. CASE UNCHANGED vars
  BY <1>1 DEF TypeOK, vars, regVars
<1>2. CASE Next
  BY <1>2, TypeHandler, TypeLoop, TypeWorker DEF Next, WorkerStep
<1> QED
  BY <1>1, <1>2

\* Every reachable state is well typed: every slot and everything the loop is
\* about to stop is a thread that exists (start_cameras, stop_all).
THEOREM TypeCorrect == Spec => []TypeOK
BY TypeInit, TypeNext, PTL DEF Spec

-----------------------------------------------------------------------------
(* The reference count *)

\* Resources that are not built are held by nobody, and close() is at work
\* only for a client whose session is open.
Books ==
  /\ \A o \in Org : o \notin built => refcount[o] = 0
  /\ loop.closing => loop.client \in Attached
  /\ RefcountIsSessions

LEMMA HoldingFinite ==
  ASSUME TypeOK, NEW o
  PROVE  IsFiniteSet(Holding(o)) /\ Cardinality(Holding(o)) \in Nat
<1>1. Holding(o) \in SUBSET Client
  BY DEF Holding, Attached, TypeOK
<1> QED
  BY <1>1, OrgSessionsAssumption, FS_Subset, FS_CardinalityType

LEMMA BooksInit == Init => Books
<1> SUFFICES ASSUME Init PROVE Books
  OBVIOUS
<1>1. Holding("any") = {} /\ \A o \in Org : Holding(o) = {}
  BY DEF Init, Holding, Attached
<1> QED
  BY <1>1, FS_EmptySet DEF Init, Books, RefcountIsSessions, Idle

\* Whoever has no session can come and go without touching the books.
LEMMA BooksSame ==
  ASSUME Books, UNCHANGED <<built, refcount>>,
         \A o \in Org : Holding(o)' = Holding(o),
         loop'.closing => loop'.client \in Attached'
  PROVE  Books'
BY DEF Books, RefcountIsSessions

\* The session dict loses or gains a client without a session.
LEMMA HoldingSame ==
  ASSUME TypeOK, NEW c, \/ c \notin Connected
                        \/ sessions[c] = NoSession,
         \/ sessions' = [d \in Connected \ {c} |-> sessions[d]]
         \/ sessions' = [d \in Connected \cup {c} |->
                          IF d = c THEN NoSession ELSE sessions[d]]
  PROVE  \A o \in Org : Holding(o)' = Holding(o)
BY OrgSessionsAssumption DEF Holding, Attached

LEMMA BooksOpen ==
  ASSUME TypeOK, Books, NEW c \in Client, NEW o \in Org, NEW r \in Request,
         OpenSession(c, o, r)
  PROVE  Books'
<1>1. /\ c \in Connected /\ sessions[c] = NoSession
      /\ sessions' = [sessions EXCEPT ![c] = o]
      /\ loop' = loop /\ loop.closing = FALSE
      /\ built' = built \cup {o}
      /\ refcount' = [refcount EXCEPT ![o] = Holders(o) + 1]
  BY DEF OpenSession, Acquire, Attach, LoopFree, Idle
<1>2. Holders(o) = refcount[o]
  BY DEF Books, Holders
<1>3. c \notin Holding(o) /\ Holding(o)' = Holding(o) \cup {c}
  BY <1>1, OrgSessionsAssumption DEF Holding, Attached
<1>4. \A p \in Org \ {o} : Holding(p)' = Holding(p)
  BY <1>1, OrgSessionsAssumption DEF Holding, Attached
<1>5. Cardinality(Holding(o)') = Cardinality(Holding(o)) + 1
  BY <1>3, HoldingFinite, FS_AddElement
<1>6. refcount'[o] = Cardinality(Holding(o)')
  BY <1>1, <1>2, <1>5 DEF Books, RefcountIsSessions, TypeOK
<1>7. \A p \in Org \ {o} : refcount'[p] = Cardinality(Holding(p)')
  BY <1>1, <1>4 DEF Books, RefcountIsSessions, TypeOK
<1>8. RefcountIsSessions'
  BY <1>6, <1>7 DEF RefcountIsSessions
<1>9. \A p \in Org : p \notin built' => refcount'[p] = 0
  BY <1>1 DEF Books, TypeOK
<1> QED
  BY <1>1, <1>8, <1>9 DEF Books

LEMMA BooksClose ==
  ASSUME TypeOK, Books, CloseDone
  PROVE  Books'
<1>0. loop.client \in Client /\ sessions[loop.client] \in Org
  BY AttachedOrg DEF Books, CloseDone
<1>a. PICK c \in Client : c = loop.client
  BY <1>0
<1>b. PICK o \in Org : o = sessions[c]
  BY <1>0, <1>a
<1>1. c \in Attached /\ sessions[c] = o
  BY <1>a, <1>b DEF Books, CloseDone
<1>2. sessions' = [d \in Connected \ {c} |-> sessions[d]] /\ loop'.closing = FALSE
  BY <1>a DEF CloseDone, Idle
<1>3. c \in Holding(o) /\ Holding(o)' = Holding(o) \ {c}
  BY <1>1, <1>2 DEF Holding, Attached
<1>4. \A p \in Org \ {o} : Holding(p)' = Holding(p)
  BY <1>1, <1>2 DEF Holding, Attached
<1>5. /\ Cardinality(Holding(o)) # 0
      /\ Cardinality(Holding(o)') = Cardinality(Holding(o)) - 1
  BY <1>3, HoldingFinite, FS_RemoveElement, FS_EmptySet
<1>6. refcount[o] = Cardinality(Holding(o)) /\ refcount[o] \in Nat
  BY <1>1 DEF Books, RefcountIsSessions, TypeOK
<1>7. /\ refcount' = [refcount EXCEPT ![o] = refcount[o] - 1]
      /\ built' = built
           \/ (built' = built \ {o} /\ refcount[o] - 1 = 0)
  BY <1>5, <1>6, <1>a, <1>b DEF CloseDone, Release
<1>8. refcount'[o] = Cardinality(Holding(o)')
  BY <1>1, <1>5, <1>6, <1>7 DEF TypeOK
<1>9. \A p \in Org \ {o} : refcount'[p] = Cardinality(Holding(p)')
  BY <1>1, <1>4, <1>7 DEF Books, RefcountIsSessions, TypeOK
<1>10. RefcountIsSessions'
  BY <1>8, <1>9 DEF RefcountIsSessions
<1>11. refcount'[o] = refcount[o] - 1 /\ refcount[o] # 0
  BY <1>5, <1>6, <1>7 DEF TypeOK
<1>12. \A p \in Org \ {o} : refcount'[p] = refcount[p]
  BY <1>7 DEF TypeOK
<1>13. \A p \in Org : p \notin built' => refcount'[p] = 0
  BY <1>7, <1>11, <1>12 DEF Books
<1> QED
  BY <1>2, <1>10, <1>13 DEF Books

LEMMA BooksNext == TypeOK /\ Books /\ [Next]_vars => Books'
<1> SUFFICES ASSUME TypeOK, Books, [Next]_vars PROVE Books'
  OBVIOUS
<1>1. ASSUME UNCHANGED <<sessions, built, refcount>>,
             loop'.closing => loop'.client \in Attached
      PROVE  Books'
  BY <1>1 DEF Books, RefcountIsSessions, Holding, Attached
<1>2. CASE UNCHANGED vars
  BY <1>1, <1>2 DEF vars, regVars, Books
<1>3. ASSUME NEW c \in Client,
             Connect(c) \/ LeaveUnattached(c) \/ \E o \in Org : OpenFails(c, o)
      PROVE  Books'
  <2>1. UNCHANGED <<built, refcount, loop>> /\ loop.closing = FALSE
    BY <1>3 DEF Connect, LeaveUnattached, OpenFails, regVars, LoopFree, Idle
  <2>2. \A o \in Org : Holding(o)' = Holding(o)
    BY <1>3, HoldingSame DEF Connect, LeaveUnattached, OpenFails
  <2> QED
    BY <2>1, <2>2, BooksSame
<1>4. ASSUME NEW c \in Client,
             \/ Disconnect(c) \/ StopAll(c)
             \/ \E r \in Request : AddCameras(c, r)
             \/ \E k \in Cam : StopCamera(c, k)
      PROVE  Books'
  <2>1. CASE \E r \in Request : AddCameras(c, r)
    BY <1>1, <2>1 DEF AddCameras, regVars, LoopFree, Idle
  <2>2. CASE Disconnect(c)
    BY <1>1, <2>2 DEF Disconnect, StopWorkers, regVars, Idle
  <2>3. CASE StopAll(c)
    BY <1>1, <2>3 DEF StopAll, StopWorkers, regVars, Idle
  <2>4. ASSUME NEW k \in Cam, StopCamera(c, k) PROVE Books'
    BY <1>1, <2>4 DEF StopCamera, regVars, Idle
  <2> QED
    BY <1>4, <2>1, <2>2, <2>3, <2>4
<1>5. ASSUME NEW c \in Client, NEW o \in Org, NEW r \in Request,
             OpenSession(c, o, r)
      PROVE  Books'
  BY <1>5, BooksOpen
<1>6. CASE (\E t \in Thread : Signal(t)) \/ Joined \/ Stopped
  <2>1. loop = [client |-> loop.client, stage |-> loop.stage,
                todo |-> loop.todo, closing |-> loop.closing]
    BY DEF TypeOK, Loop
  <2>2. ASSUME NEW t \in Thread, Signal(t) PROVE Books'
    BY <1>1, <2>1, <2>2 DEF Signal, regVars, Books
  <2>3. CASE Joined
    BY <1>1, <2>1, <2>3 DEF Joined, regVars, Books
  <2>4. CASE Stopped
    BY <1>1, <2>4 DEF Stopped, regVars, Idle
  <2> QED
    BY <1>6, <2>2, <2>3, <2>4
<1>7. CASE CloseDone
  BY <1>7, BooksClose
<1>8. ASSUME NEW t \in Thread, WorkerStep(t) PROVE Books'
  <2>1. UNCHANGED <<sessions, loop, built, refcount>>
    BY <1>8, WorkerMoves DEF Moves, regVars
  <2> QED
    BY <1>1, <2>1 DEF Books
<1> QED
  BY <1>2, <1>3, <1>4, <1>5, <1>6, <1>7, <1>8 DEF Next, WorkerStep

\* The registry's reference count is the number of open sessions, for any
\* number of clients, organisations and workers (acquire, release, close).
THEOREM RefcountCorrect == Spec => []RefcountIsSessions
<1>1. Books => RefcountIsSessions
  BY DEF Books
<1> QED
  BY <1>1, TypeCorrect, BooksInit, BooksNext, PTL DEF Spec

-----------------------------------------------------------------------------
(* Every running worker is owned *)

\* A worker's session is open until the worker has been told to stop, and a
\* session that is being closed has no slots left.
Ownership ==
  /\ \A t \in Unstopped : /\ worker[t].client \in Attached
                          /\ sessions[worker[t].client] = worker[t].org
  /\ loop.closing => slots[loop.client] = NoSlots
  /\ NoOrphanWorker
  /\ GalleryStable

\* An organisation that has an unstopped worker is held.
LEMMA UnstoppedHeld ==
  ASSUME TypeOK, Books, Ownership, NEW t \in Unstopped
  PROVE  LET o == worker[t].org IN
           o \in Org /\ o \in built /\ refcount[o] # 0
<1>0. worker[t] \in Worker
  BY DEF TypeOK, Unstopped
<1>1. worker[t].org \in Org
  BY <1>0 DEF Worker
<1>2. worker[t].client \in Holding(worker[t].org)
  BY DEF Ownership, Holding
<1>3. Cardinality(Holding(worker[t].org)) # 0
  BY <1>2, HoldingFinite, FS_EmptySet
<1> QED
  BY <1>1, <1>3 DEF Books, RefcountIsSessions

LEMMA OwnershipInit == Init => Ownership
<1> SUFFICES ASSUME Init PROVE Ownership
  OBVIOUS
<1>1. Unstopped = {} /\ loop.closing = FALSE
  BY DEF Init, Unstopped, Idle
<1> QED
  BY <1>1 DEF Ownership, NoOrphanWorker, GalleryStable

\* Workers stay as they are and open sessions stay open: enough for the steps
\* of clients without a session.
LEMMA OwnershipSame ==
  ASSUME TypeOK, Books, Ownership, UNCHANGED <<slots, worker, loop>>,
         \A c \in Attached : c \in Attached' /\ sessions'[c] = sessions[c],
         \A t \in Unstopped : generation'[worker[t].org] = generation[worker[t].org]
  PROVE  Ownership'
<1>1. Unstopped' = Unstopped
  BY DEF Unstopped, Live
<1>2. NoOrphanWorker'
  BY <1>1 DEF Ownership, NoOrphanWorker
<1>3. GalleryStable'
  BY <1>1 DEF Ownership, GalleryStable
<1> QED
  BY <1>1, <1>2, <1>3 DEF Ownership

LEMMA OwnershipUnattached ==
  ASSUME TypeOK, Books, Ownership, NEW c \in Client,
         Connect(c) \/ LeaveUnattached(c) \/ \E o \in Org : OpenFails(c, o)
  PROVE  Ownership'
<1>1. UNCHANGED <<slots, worker, loop>>
  BY DEF Connect, LeaveUnattached, OpenFails
<1>2. \A d \in Attached : d \in Attached' /\ sessions'[d] = sessions[d]
  BY DEF Connect, LeaveUnattached, OpenFails, Attached
<1>3. ASSUME NEW t \in Unstopped
      PROVE  generation'[worker[t].org] = generation[worker[t].org]
  <2>1. CASE Connect(c) \/ LeaveUnattached(c)
    BY <2>1 DEF Connect, LeaveUnattached, regVars
  <2>2. ASSUME NEW o \in Org, OpenFails(c, o)
        PROVE  generation'[worker[t].org] = generation[worker[t].org]
    BY <2>2, UnstoppedHeld DEF OpenFails, TypeOK
  <2> QED
    BY <2>1, <2>2
<1> QED
  BY <1>1, <1>2, <1>3, OwnershipSame

\* Starting cameras for a session that is, or has just become, open.
LEMMA OwnershipStart ==
  ASSUME TypeOK, Books, Ownership, generation' \in [Org -> Nat], LoopFree,
         NEW c \in Client, NEW o \in Org, NEW r \in Request,
         StartCameras(c, o, r), UNCHANGED loop,
         c \in Attached' /\ sessions'[c] = o,
         \A d \in Attached : d \in Attached' /\ sessions'[d] = sessions[d],
         \A t \in Unstopped : generation'[worker[t].org] = generation[worker[t].org]
  PROVE  Ownership'
<1> DEFINE new == Admitted(c, r)
<1>1. new \in SUBSET Cam /\ new \cap DOMAIN slots[c] = {}
      /\ StartWorkers(c, o, new)
  BY AdmittedCams DEF StartCameras
<1> HIDE DEF new
<1>2. /\ Thread \subseteq Thread'
      /\ \A t \in Thread : worker'[t] = worker[t]
      /\ \A t \in Thread' \ Thread :
           \E k \in new : /\ worker'[t] = NewWorker(c, o, k, generation'[o])
                          /\ slots'[c][k] = t
      /\ \A d \in Client \ {c} : slots'[d] = slots[d]
      /\ DOMAIN slots'[c] = DOMAIN slots[c] \cup new
      /\ \A k \in DOMAIN slots[c] : slots'[c][k] = slots[c][k]
  BY <1>1, StartWorkersEffect
<1>3. loop'.closing = FALSE /\ loop.todo = {}
  BY DEF LoopFree, Idle
<1>4. ASSUME NEW t \in Unstopped', t \in Thread
      PROVE  /\ worker'[t] = worker[t] /\ t \in Unstopped
             /\ worker[t].client \in Attached
             /\ sessions[worker[t].client] = worker[t].org
             /\ worker[t].client \in Client
             /\ worker[t].cam \in DOMAIN slots[worker[t].client]
             /\ slots[worker[t].client][worker[t].cam] = t
             /\ worker[t].gen = generation[worker[t].org]
  <2>1. worker'[t] = worker[t] /\ t \in Unstopped
    BY <1>2, <1>4 DEF Unstopped, Live
  <2> QED
    BY <1>3, <2>1 DEF Ownership, NoOrphanWorker, GalleryStable, Attached, TypeOK
<1>5. ASSUME NEW t \in Unstopped', t \notin Thread
      PROVE  /\ worker'[t].client = c /\ worker'[t].org = o
             /\ worker'[t].gen = generation'[o]
             /\ worker'[t].cam \in DOMAIN slots'[c]
             /\ slots'[c][worker'[t].cam] = t
  <2>1. t \in Thread' \ Thread
    BY <1>5 DEF Unstopped
  <2>2. PICK k \in new : /\ worker'[t] = NewWorker(c, o, k, generation'[o])
                         /\ slots'[c][k] = t
    BY <1>2, <2>1
  <2>3. /\ worker'[t].client = c /\ worker'[t].org = o
        /\ worker'[t].gen = generation'[o] /\ worker'[t].cam = k
    BY <2>2 DEF NewWorker
  <2> QED
    BY <1>2, <2>2, <2>3
<1>6. \A t \in Unstopped' : /\ worker'[t].client \in Attached'
                            /\ sessions'[worker'[t].client] = worker'[t].org
  BY <1>4, <1>5
<1>7. GalleryStable'
  BY <1>4, <1>5 DEF GalleryStable
<1>8. ASSUME NEW t \in Unstopped'
      PROVE  /\ worker'[t].cam \in DOMAIN slots'[worker'[t].client]
             /\ slots'[worker'[t].client][worker'[t].cam] = t
  BY <1>2, <1>4, <1>5
<1>9. NoOrphanWorker'
  BY <1>6, <1>8 DEF NoOrphanWorker
<1> QED
  BY <1>3, <1>6, <1>7, <1>9 DEF Ownership

LEMMA OwnershipOpen ==
  ASSUME TypeOK, Books, Ownership, NEW c \in Client, NEW o \in Org,
         NEW r \in Request, OpenSession(c, o, r)
  PROVE  Ownership'
<1>1. generation' \in [Org -> Nat]
  BY DEF TypeOK, OpenSession, Acquire, Attach
<1>2. c \in Attached' /\ sessions'[c] = o
  BY OrgSessionsAssumption DEF OpenSession, Attached
<1>3. \A d \in Attached : d \in Attached' /\ sessions'[d] = sessions[d]
  BY DEF OpenSession, Attached
<1>4. ASSUME NEW t \in Unstopped
      PROVE  generation'[worker[t].org] = generation[worker[t].org]
  BY UnstoppedHeld
  DEF OpenSession, Acquire, Attach, Holders, Resets, TypeOK
<1> QED
  BY <1>1, <1>2, <1>3, <1>4, OwnershipStart DEF OpenSession

LEMMA OwnershipAdd ==
  ASSUME TypeOK, Books, Ownership, NEW c \in Client, NEW r \in Request,
         AddCameras(c, r)
  PROVE  Ownership'
<1>1. PICK o \in Org : sessions[c] = o
  BY AttachedOrg DEF AddCameras
<1>2. /\ generation' \in [Org -> Nat] /\ UNCHANGED <<sessions, loop, generation>>
      /\ LoopFree /\ c \in Attached /\ StartCameras(c, o, r)
  BY <1>1 DEF AddCameras, regVars, TypeOK
<1>3. Attached' = Attached
  BY <1>2 DEF Attached
<1> QED
  BY <1>1, <1>2, <1>3, OwnershipStart

\* Slots are emptied of what the loop is then going to stop.
LEMMA OwnershipStop ==
  ASSUME TypeOK, Ownership, LoopFree, NEW c \in Client,
         UNCHANGED <<sessions, worker, generation>>, loop'.client = c,
         DOMAIN slots' = Client,
         \A d \in Client \ {c} : slots'[d] = slots[d],
         \A k \in DOMAIN slots[c] :
           \/ k \in DOMAIN slots'[c] /\ slots'[c][k] = slots[c][k]
           \/ slots[c][k] \in loop'.todo,
         loop'.closing => slots'[c] = NoSlots
  PROVE  Ownership'
<1>1. Unstopped' = Unstopped /\ Attached' = Attached
  BY DEF Unstopped, Live, Attached
<1>2. loop.todo = {}
  BY DEF LoopFree, Idle
<1>3. ASSUME NEW t \in Unstopped
      PROVE  LET w == worker[t] IN
             \/ /\ w.cam \in DOMAIN slots'[w.client]
                /\ slots'[w.client][w.cam] = t
             \/ t \in loop'.todo /\ w.client = c
  <2>1. /\ worker[t].client \in Client
        /\ worker[t].cam \in DOMAIN slots[worker[t].client]
        /\ slots[worker[t].client][worker[t].cam] = t
    BY <1>2 DEF Ownership, NoOrphanWorker, Attached, TypeOK
  <2> QED
    BY <2>1
<1>4. NoOrphanWorker'
  BY <1>1, <1>3 DEF Ownership, NoOrphanWorker
<1>5. GalleryStable'
  BY <1>1 DEF Ownership, GalleryStable
<1> QED
  BY <1>1, <1>4, <1>5 DEF Ownership

LEMMA OwnershipHandlerStops ==
  ASSUME TypeOK, Ownership, NEW c \in Client,
         Disconnect(c) \/ StopAll(c) \/ \E k \in Cam : StopCamera(c, k)
  PROVE  Ownership'
<1>1. ASSUME NEW closing \in BOOLEAN, LoopFree, StopWorkers(c, closing),
             UNCHANGED <<config, sessions, worker, regVars>>
      PROVE  Ownership'
  <2>1. /\ loop'.client = c
        /\ loop'.todo = {slots[c][k] : k \in DOMAIN slots[c]}
    BY <1>1 DEF StopWorkers, Idle
  <2>2. /\ DOMAIN slots' = Client /\ slots'[c] = NoSlots
        /\ \A d \in Client \ {c} : slots'[d] = slots[d]
    BY <1>1 DEF StopWorkers, TypeOK
  <2> QED
    BY <1>1, <2>1, <2>2, OwnershipStop DEF regVars
<1>2. CASE Disconnect(c)
  BY <1>1, <1>2 DEF Disconnect
<1>3. CASE StopAll(c)
  BY <1>1, <1>3 DEF StopAll
<1>4. ASSUME NEW k \in Cam, StopCamera(c, k) PROVE Ownership'
  <2>1. /\ loop'.client = c /\ loop'.todo = {slots[c][k]}
        /\ loop'.closing = FALSE
    BY <1>4 DEF StopCamera, Idle
  <2>2. /\ DOMAIN slots' = Client
        /\ \A d \in Client \ {c} : slots'[d] = slots[d]
        /\ slots'[c] = [j \in DOMAIN slots[c] \ {k} |-> slots[c][j]]
    BY <1>4 DEF StopCamera, TypeOK
  <2> QED
    BY <1>4, <2>1, <2>2, OwnershipStop DEF StopCamera, regVars
<1> QED
  BY <1>2, <1>3, <1>4

\* The loop's next worker is told to stop.
LEMMA OwnershipSignal ==
  ASSUME TypeOK, Ownership, NEW t \in Thread, Signal(t)
  PROVE  Ownership'
<1>1. worker[t] \in Worker /\ worker \in Seq(Worker)
  BY DEF TypeOK
<1>2. worker' = [worker EXCEPT ![t] =
                   [worker[t] EXCEPT !.stop = TRUE, !.capture = Told(@)]]
  BY <1>1 DEF Signal, Worker
<1>3. /\ Len(worker') = Len(worker) /\ worker'[t].stop = TRUE
      /\ \A u \in Thread \ {t} : worker'[u] = worker[u]
  BY <1>1, <1>2 DEF Worker
<1>4. loop = [client |-> loop.client, stage |-> loop.stage,
              todo |-> loop.todo, closing |-> loop.closing]
  BY DEF TypeOK, Loop
<1>5. /\ UNCHANGED <<sessions, slots, generation>>
      /\ loop'.client = loop.client /\ loop'.closing = loop.closing
      /\ loop'.todo = loop.todo \ {t}
  BY <1>4 DEF Signal, regVars
<1>6. Attached' = Attached
  BY <1>5 DEF Attached
<1>7. \A u \in Unstopped' : u \in Unstopped /\ u # t /\ worker'[u] = worker[u]
  BY <1>3 DEF Unstopped, Live
<1>8. NoOrphanWorker'
  BY <1>5, <1>6, <1>7 DEF Ownership, NoOrphanWorker
<1>9. GalleryStable'
  BY <1>5, <1>7 DEF Ownership, GalleryStable
<1> QED
  BY <1>5, <1>6, <1>7, <1>8, <1>9 DEF Ownership

\* The loop goes on, with everything it was to stop told to.
LEMMA OwnershipGoesOn ==
  ASSUME TypeOK, Ownership, Joined \/ Stopped
  PROVE  Ownership'
<1>1. loop = [client |-> loop.client, stage |-> loop.stage,
              todo |-> loop.todo, closing |-> loop.closing]
  BY DEF TypeOK, Loop
<1>2. /\ UNCHANGED <<sessions, slots, worker, generation>>
      /\ loop'.closing => loop.closing /\ loop'.client = loop.client
      /\ loop'.todo = loop.todo
      /\ loop.todo # {} => loop'.client = loop.client
  <2>1. CASE Joined
    BY <1>1, <2>1 DEF Joined, regVars
  <2>2. CASE Stopped
    BY <2>2 DEF Stopped, regVars, Idle
  <2> QED
    BY <2>1, <2>2
<1>3. Unstopped' = Unstopped /\ Attached' = Attached
  BY <1>2 DEF Unstopped, Live, Attached
<1>4. NoOrphanWorker'
  BY <1>2, <1>3 DEF Ownership, NoOrphanWorker
<1>5. GalleryStable'
  BY <1>2, <1>3 DEF Ownership, GalleryStable
<1> QED
  BY <1>2, <1>3, <1>4, <1>5 DEF Ownership

\* close() ends: nothing of the client's runs on.
LEMMA OwnershipClose ==
  ASSUME TypeOK, Books, Ownership, CloseDone
  PROVE  Ownership'
<1>1. /\ loop.todo = {} /\ loop.closing /\ UNCHANGED <<slots, worker, generation>>
      /\ sessions' = [d \in Connected \ {loop.client} |-> sessions[d]]
      /\ loop'.closing = FALSE
  BY DEF CloseDone, Release, Idle
<1>2. Unstopped' = Unstopped
  BY <1>1 DEF Unstopped, Live
<1>3. slots[loop.client] = NoSlots
  BY <1>1 DEF Ownership
<1>4. ASSUME NEW t \in Unstopped
      PROVE  LET w == worker[t] IN
             /\ w.cam \in DOMAIN slots[w.client] /\ slots[w.client][w.cam] = t
             /\ w.client \in Attached' /\ sessions'[w.client] = w.org
  <2>1. LET w == worker[t] IN
        /\ w.cam \in DOMAIN slots[w.client] /\ slots[w.client][w.cam] = t
        /\ w.client \in Attached /\ sessions[w.client] = w.org
    BY <1>1 DEF Ownership, NoOrphanWorker
  <2>2. worker[t].client # loop.client
    BY <1>3, <2>1 DEF NoSlots
  <2> QED
    BY <1>1, <2>1, <2>2 DEF Attached
<1>5. NoOrphanWorker'
  BY <1>1, <1>2, <1>4 DEF NoOrphanWorker
<1>6. GalleryStable'
  BY <1>1, <1>2 DEF Ownership, GalleryStable
<1> QED
  BY <1>1, <1>2, <1>4, <1>5, <1>6 DEF Ownership

LEMMA OwnershipWorker ==
  ASSUME TypeOK, Ownership, NEW t \in Thread, WorkerStep(t)
  PROVE  Ownership'
<1>1. PICK p \in Phase, k \in {"none", "running", "told"} :
        Moves(t, p, k) /\ Live(t)
  BY WorkerMoves
<1>2. UNCHANGED <<sessions, slots, loop, generation>>
  BY <1>1 DEF Moves, regVars
<1>3. /\ Len(worker') = Len(worker)
      /\ \A u \in Thread :
           /\ worker'[u].client = worker[u].client
           /\ worker'[u].cam = worker[u].cam
           /\ worker'[u].org = worker[u].org
           /\ worker'[u].gen = worker[u].gen
           /\ worker'[u].stop = worker[u].stop
           /\ u # t => worker'[u] = worker[u]
  BY <1>1, MovesEffect
<1>4. Unstopped' \subseteq Unstopped /\ Attached' = Attached
  BY <1>1, <1>2, <1>3 DEF Unstopped, Live, Attached
<1>5. Unstopped \subseteq Thread
  BY DEF Unstopped
<1>6. NoOrphanWorker'
  BY <1>2, <1>3, <1>4, <1>5 DEF Ownership, NoOrphanWorker
<1>7. GalleryStable'
  BY <1>2, <1>3, <1>4, <1>5 DEF Ownership, GalleryStable
<1> QED
  BY <1>2, <1>3, <1>4, <1>5, <1>6, <1>7 DEF Ownership

LEMMA OwnershipNext == TypeOK /\ Books /\ Ownership /\ [Next]_vars => Ownership'
<1> SUFFICES ASSUME TypeOK, Books, Ownership, [Next]_vars PROVE Ownership'
  OBVIOUS
<1>1. CASE UNCHANGED vars
  BY <1>1, OwnershipSame DEF vars, regVars, Attached
<1>2. ASSUME NEW c \in Client,
             \/ Connect(c) \/ LeaveUnattached(c) \/ Disconnect(c) \/ StopAll(c)
             \/ \E o \in Org :
                  OpenFails(c, o) \/ \E r \in Request : OpenSession(c, o, r)
             \/ \E r \in Request : AddCameras(c, r)
             \/ \E k \in Cam : StopCamera(c, k)
      PROVE  Ownership'
  BY <1>2, OwnershipUnattached, OwnershipHandlerStops, OwnershipOpen,
     OwnershipAdd
<1>3. CASE (\E t \in Thread : Signal(t)) \/ Joined \/ Stopped \/ CloseDone
  BY <1>3, OwnershipSignal, OwnershipGoesOn, OwnershipClose
<1>4. ASSUME NEW t \in Thread, WorkerStep(t) PROVE Ownership'
  BY <1>4, OwnershipWorker
<1> QED
  BY <1>1, <1>2, <1>3, <1>4 DEF Next, WorkerStep

LEMMA OwnershipCorrect == Spec => []Ownership
BY TypeCorrect, BooksInit, BooksNext, OwnershipInit, OwnershipNext, PTL DEF Spec

\* Whatever the interleaving of requests, failures and timed-out joins, a worker
\* that runs on unstopped can still be stopped (start_cameras, stop_all).
THEOREM OrphansNever == Spec => []NoOrphanWorker
<1>1. Ownership => NoOrphanWorker
  BY DEF Ownership
<1> QED
  BY <1>1, OwnershipCorrect, PTL

\* No gallery is emptied under a worker that was not told to stop, whatever the
\* configuration (acquire, _build).
THEOREM GalleryStableCorrect == Spec => []GalleryStable
<1>1. Ownership => GalleryStable
  BY DEF Ownership
<1> QED
  BY <1>1, OwnershipCorrect, PTL

-----------------------------------------------------------------------------
(* A gallery in use survives reconnects *)

Outlives ==
  \A o \in seen : generation'[o] # generation[o] =>
                    config.resetOnConnect /\ refcount[o] = 0

LEMMA OutlivesNext == TypeOK /\ Books /\ [Next]_vars => Outlives
<1> SUFFICES ASSUME TypeOK, Books, [Next]_vars PROVE Outlives
  OBVIOUS
<1>1. ASSUME UNCHANGED generation PROVE Outlives
  BY <1>1 DEF Outlives
<1>2. ASSUME NEW c \in Client, NEW o \in Org, NEW r \in Request,
             OpenSession(c, o, r)
      PROVE  Outlives
  <2>1. Holders(o) = refcount[o]
    BY DEF Books, Holders
  <2>2. \A p \in Org \ {o} : generation'[p] = generation[p]
    BY <1>2 DEF OpenSession, Acquire, Attach, TypeOK
  <2>3. o \in seen /\ generation'[o] # generation[o] =>
          config.resetOnConnect /\ refcount[o] = 0
    BY <1>2, <2>1 DEF OpenSession, Acquire, Attach, Wipes, Resets, TypeOK
  <2> QED
    BY <2>2, <2>3 DEF Outlives, TypeOK
<1>3. ASSUME NEW c \in Client, NEW o \in Org, OpenFails(c, o) PROVE Outlives
  <2>1. \A p \in Org \ {o} : generation'[p] = generation[p]
    BY <1>3 DEF OpenFails, TypeOK
  <2>2. o \in seen => generation'[o] = generation[o]
    <3>1. SUFFICES ASSUME o \in seen PROVE generation'[o] = generation[o]
      OBVIOUS
    <3>2. Wipes(o) = FALSE
      BY <3>1 DEF Wipes
    <3>3. PICK wiped \in {FALSE, Wipes(o)} :
            generation' = [generation EXCEPT ![o] = @ + IF wiped THEN 1 ELSE 0]
      BY <1>3 DEF OpenFails
    <3>4. wiped = FALSE
      BY <3>2, <3>3
    <3> QED
      BY <3>3, <3>4 DEF TypeOK
  <2> QED
    BY <2>1, <2>2 DEF Outlives, TypeOK
<1>4. ASSUME NEW c \in Client,
             \/ Connect(c) \/ LeaveUnattached(c) \/ Disconnect(c) \/ StopAll(c)
             \/ \E r \in Request : AddCameras(c, r)
             \/ \E k \in Cam : StopCamera(c, k)
      PROVE  Outlives
  BY <1>1, <1>4 DEF Connect, LeaveUnattached, Disconnect, StopAll, AddCameras,
                    StopCamera, regVars
<1>5. ASSUME \/ \E t \in Thread : Signal(t)
             \/ Joined \/ Stopped \/ CloseDone
      PROVE  Outlives
  BY <1>1, <1>5 DEF Signal, Joined, Stopped, CloseDone, Release, regVars
<1>6. ASSUME NEW t \in Thread, WorkerStep(t) PROVE Outlives
  BY <1>1, <1>6, WorkerMoves DEF Moves, regVars
<1>7. CASE UNCHANGED vars
  BY <1>1, <1>7 DEF vars, regVars
<1> QED
  BY <1>2, <1>3, <1>4, <1>5, <1>6, <1>7 DEF Next, WorkerStep

\* Once used, a gallery is emptied only by reset_on_connect and only while no
\* session holds it (_build, _seen_orgs).
THEOREM OutlivesCorrect == Spec => GalleryOutlivesReconnect
<1>1. TypeOK /\ Books /\ [Next]_vars => [Outlives]_vars
  BY OutlivesNext
<1> QED
  BY <1>1, TypeCorrect, BooksInit, BooksNext, PTL
  DEF Spec, GalleryOutlivesReconnect, Outlives

-----------------------------------------------------------------------------
(* The limit of cameras *)

\* What a client's slots and the loop's list hold together is within the limit:
\* a worker goes from the one to the other, and the list is empty when workers
\* are started.
Share(c) == IF loop.client = c THEN loop.todo ELSE {}
Within ==
  \A c \in Client :
    Cardinality(DOMAIN slots[c]) + Cardinality(Share(c)) <= MaxCameras

\* A function's range is finite and no larger than its domain.
LEMMA RangeSmaller ==
  ASSUME NEW f, IsFiniteSet(DOMAIN f)
  PROVE  LET T == {f[x] : x \in DOMAIN f} IN
         /\ IsFiniteSet(T)
         /\ Cardinality(T) \in Nat
         /\ Cardinality(T) <= Cardinality(DOMAIN f)
<1> DEFINE T == {f[x] : x \in DOMAIN f}
           g == [x \in DOMAIN f |-> f[x]]
<1>1. g \in Surjection(DOMAIN f, T)
  BY DEF Surjection
<1> QED
  BY <1>1, FS_Surjection, FS_CardinalityType

\* A union is no larger than the sum, and as large if its parts are disjoint.
LEMMA UnionSize ==
  ASSUME NEW A, IsFiniteSet(A), NEW B, IsFiniteSet(B)
  PROVE  /\ IsFiniteSet(A \cup B) /\ Cardinality(A \cup B) \in Nat
         /\ Cardinality(A \cup B) <= Cardinality(A) + Cardinality(B)
         /\ A \cap B = {} =>
              Cardinality(A \cup B) = Cardinality(A) + Cardinality(B)
<1>1. /\ Cardinality(A) \in Nat /\ Cardinality(B) \in Nat
      /\ IsFiniteSet(A \cap B) /\ Cardinality(A \cap B) \in Nat
  <2>1. A \cap B \in SUBSET A
    OBVIOUS
  <2> QED
    BY <2>1, FS_Subset, FS_CardinalityType
<1>2. /\ IsFiniteSet(A \cup B)
      /\ Cardinality(A \cup B)
           = Cardinality(A) + Cardinality(B) - Cardinality(A \cap B)
  BY FS_Union
<1>3. A \cap B = {} => Cardinality(A \cap B) = 0
  BY FS_EmptySet
<1>4. Cardinality(A \cup B) \in Nat
  BY <1>2, FS_CardinalityType
<1> QED
  BY <1>1, <1>2, <1>3, <1>4

\* A client's slots are finitely many, and so is the loop's list.
LEMMA SlotsFinite ==
  ASSUME TypeOK, NEW c \in Client
  PROVE  /\ IsFiniteSet(DOMAIN slots[c]) /\ Cardinality(DOMAIN slots[c]) \in Nat
         /\ IsFiniteSet(Share(c)) /\ Cardinality(Share(c)) \in Nat
<1>1. DOMAIN slots[c] \in SUBSET Cam
  BY DEF TypeOK
<1>2. Len(worker) \in Nat /\ Share(c) \in SUBSET (1..Len(worker))
  BY DEF TypeOK, Share
<1>3. IsFiniteSet(1..Len(worker))
  BY <1>2, FS_Interval
<1> QED
  BY <1>1, <1>2, <1>3, OrgSessionsAssumption, FS_Subset, FS_CardinalityType

\* A request is granted no more cameras than there are slots left.
LEMMA AdmittedFew ==
  ASSUME TypeOK, Within, NEW c \in Client, NEW request \in Request
  PROVE  Cardinality(DOMAIN slots[c] \cup Admitted(c, request)) <= MaxCameras
<1> DEFINE D == DOMAIN slots[c]
           left == MaxCameras - Cardinality(D)
           heard == {j \in DOMAIN request : j <= left}
           asked == [j \in heard |-> request[j]]
           new == Admitted(c, request)
<1>1. /\ IsFiniteSet(D) /\ Cardinality(D) \in Nat
      /\ Cardinality(Share(c)) \in Nat
  BY SlotsFinite
<1>2. left \in Nat
  BY <1>1, OrgSessionsAssumption DEF Within
<1>3. heard \in SUBSET (1..left)
  BY <1>2 DEF Request
<1>4. /\ IsFiniteSet(heard) /\ Cardinality(heard) \in Nat
      /\ Cardinality(heard) <= left
  <2>1. IsFiniteSet(1..left) /\ Cardinality(1..left) = left
    BY <1>2, FS_Interval
  <2> QED
    BY <1>3, <2>1, FS_Subset, FS_CardinalityType
<1>5. /\ IsFiniteSet({asked[j] : j \in heard})
      /\ Cardinality({asked[j] : j \in heard}) \in Nat
      /\ Cardinality({asked[j] : j \in heard}) <= Cardinality(heard)
  <2>1. DOMAIN asked = heard
    OBVIOUS
  <2> HIDE DEF asked, heard
  <2> QED
    BY <1>4, <2>1, RangeSmaller
<1>6. new \in SUBSET {asked[j] : j \in heard} /\ new \cap D = {}
  BY AdmittedCams DEF Admitted
<1>7. /\ IsFiniteSet(new) /\ Cardinality(new) \in Nat
      /\ Cardinality(new) <= left
  BY <1>2, <1>4, <1>5, <1>6, FS_Subset, FS_CardinalityType
<1> HIDE DEF new, D
<1>8. Cardinality(D \cup new) = Cardinality(D) + Cardinality(new)
  <2>1. D \cap new = {}
    BY <1>6
  <2> QED
    BY <1>1, <1>7, <2>1, UnionSize
<1> QED
  BY <1>1, <1>2, <1>7, <1>8, OrgSessionsAssumption DEF D, new

LEMMA WithinInit == Init => Within
<1> SUFFICES ASSUME Init, NEW c \in Client
             PROVE  Cardinality(DOMAIN slots[c]) + Cardinality(Share(c))
                      <= MaxCameras
  BY DEF Within
<1>1. DOMAIN slots[c] = {} /\ Share(c) = {}
  BY DEF Init, NoSlots, Share, Idle
<1> QED
  BY <1>1, FS_EmptySet, OrgSessionsAssumption

\* Nothing is started, and neither the slots nor the loop's list grow.
LEMMA WithinSmaller ==
  ASSUME TypeOK, Within,
         \A c \in Client : /\ slots'[c] = slots[c]
                           /\ Share(c)' \in SUBSET Share(c)
  PROVE  Within'
<1> SUFFICES ASSUME NEW c \in Client
             PROVE  Cardinality(DOMAIN slots'[c]) + Cardinality(Share(c)')
                      <= MaxCameras
  BY DEF Within
<1>1. /\ Cardinality(DOMAIN slots[c]) \in Nat
      /\ IsFiniteSet(Share(c)) /\ Cardinality(Share(c)) \in Nat
  BY SlotsFinite
<1>2. Cardinality(Share(c)') \in Nat /\ Cardinality(Share(c)') <= Cardinality(Share(c))
  BY <1>1, FS_Subset, FS_CardinalityType
<1> QED
  BY <1>1, <1>2, OrgSessionsAssumption DEF Within

\* Cameras are started while the loop's list is empty.
LEMMA WithinStart ==
  ASSUME TypeOK, Within, TypeOK', LoopFree, UNCHANGED loop,
         generation' \in [Org -> Nat],
         NEW c \in Client, NEW o \in Org, NEW r \in Request,
         StartCameras(c, o, r)
  PROVE  Within'
<1>1. /\ DOMAIN slots'[c] = DOMAIN slots[c] \cup Admitted(c, r)
      /\ \A d \in Client \ {c} : slots'[d] = slots[d]
  BY AdmittedCams, StartWorkersEffect DEF StartCameras
<1>2. \A d \in Client : Share(d) = {} /\ Share(d)' = {}
  BY DEF Share, LoopFree, Idle
<1>3. Cardinality(DOMAIN slots'[c]) <= MaxCameras
  BY <1>1, AdmittedFew
<1>4. \A d \in Client : Cardinality(DOMAIN slots'[d]) \in Nat
  <2>1. \A d \in Client : DOMAIN slots'[d] \in SUBSET Cam
    BY DEF TypeOK
  <2> QED
    BY <2>1, OrgSessionsAssumption, FS_Subset, FS_CardinalityType
<1>5. Cardinality({}) = 0
  BY FS_EmptySet
<1> SUFFICES ASSUME NEW d \in Client
             PROVE  Cardinality(DOMAIN slots'[d]) + Cardinality(Share(d)')
                      <= MaxCameras
  BY DEF Within
<1>6. Cardinality(DOMAIN slots'[d]) <= MaxCameras
  <2>1. CASE d = c
    BY <1>3, <2>1
  <2>2. CASE d # c
    <3>1. slots'[d] = slots[d]
      BY <1>1, <2>2
    <3>2. Cardinality(DOMAIN slots[d]) + Cardinality({}) <= MaxCameras
      BY <1>2 DEF Within
    <3>3. Cardinality(DOMAIN slots[d]) \in Nat
      BY <1>4, <3>1
    <3> QED
      BY <1>5, <3>1, <3>2, <3>3
  <2> QED
    BY <2>1, <2>2
<1> QED
  BY <1>2, <1>4, <1>5, <1>6

\* A worker, or all of them, goes from the slots to the loop's list.
LEMMA WithinStop ==
  ASSUME TypeOK, Within, LoopFree, NEW c \in Client, NEW K \in SUBSET DOMAIN slots[c],
         slots' = [slots EXCEPT ![c] = [k \in DOMAIN slots[c] \ K |-> slots[c][k]]],
         loop'.client = c, loop'.todo = {slots[c][k] : k \in K}
  PROVE  Within'
<1>1. \A d \in Client : /\ IsFiniteSet(DOMAIN slots[d])
                        /\ Cardinality(DOMAIN slots[d]) \in Nat
  BY SlotsFinite
<1>2. /\ DOMAIN slots'[c] = DOMAIN slots[c] \ K
      /\ \A d \in Client \ {c} : slots'[d] = slots[d]
  BY DEF TypeOK
<1>3. \A d \in Client : Share(d) = {} /\ (d # c => Share(d)' = {})
  BY DEF Share, LoopFree, Idle
<1>4. Cardinality({}) = 0
  BY FS_EmptySet
<1>5. /\ IsFiniteSet(K) /\ Cardinality(K) \in Nat
      /\ IsFiniteSet(DOMAIN slots[c] \ K)
      /\ Cardinality(DOMAIN slots[c] \ K) \in Nat
  BY <1>1, FS_Subset, FS_CardinalityType
<1>6. Cardinality(DOMAIN slots[c]) = Cardinality(DOMAIN slots[c] \ K) + Cardinality(K)
  <2>1. DOMAIN slots[c] = (DOMAIN slots[c] \ K) \cup K
        /\ (DOMAIN slots[c] \ K) \cap K = {}
    OBVIOUS
  <2> QED
    BY <1>5, <2>1, UnionSize
<1>7. /\ Cardinality(Share(c)') \in Nat
      /\ Cardinality(Share(c)') <= Cardinality(K)
  <2> DEFINE f == [k \in K |-> slots[c][k]]
  <2>1. DOMAIN f = K /\ Share(c)' = {f[k] : k \in DOMAIN f}
    BY DEF Share
  <2> HIDE DEF f
  <2> QED
    BY <1>5, <2>1, RangeSmaller
<1> SUFFICES ASSUME NEW d \in Client
             PROVE  Cardinality(DOMAIN slots'[d]) + Cardinality(Share(d)')
                      <= MaxCameras
  BY DEF Within
<1>8. CASE d = c
  <2>1. Cardinality(DOMAIN slots[c]) + 0 <= MaxCameras
    BY <1>3, <1>4 DEF Within
  <2>2. Cardinality(DOMAIN slots'[c]) = Cardinality(DOMAIN slots[c] \ K)
    BY <1>2
  <2>3. Cardinality(DOMAIN slots'[c]) + Cardinality(Share(c)') <= MaxCameras
    BY <1>5, <1>6, <1>7, <2>1, <2>2, OrgSessionsAssumption
  <2> QED
    BY <1>8, <2>3
<1>9. CASE d # c
  BY <1>2, <1>3, <1>9 DEF Within
<1> QED
  BY <1>8, <1>9

LEMMA WithinNext == TypeOK /\ TypeOK' /\ Within /\ [Next]_vars => Within'
<1> SUFFICES ASSUME TypeOK, TypeOK', Within, [Next]_vars PROVE Within'
  OBVIOUS
<1>1. ASSUME UNCHANGED <<slots, loop>> PROVE Within'
  BY <1>1, WithinSmaller DEF Share
<1>2. ASSUME NEW c \in Client,
             \/ Connect(c) \/ LeaveUnattached(c)
             \/ \E o \in Org : OpenFails(c, o)
      PROVE  Within'
  BY <1>1, <1>2 DEF Connect, LeaveUnattached, OpenFails
<1>3. ASSUME NEW c \in Client, NEW o \in Org, NEW r \in Request,
             OpenSession(c, o, r)
      PROVE  Within'
  BY <1>3, WithinStart DEF OpenSession, TypeOK
<1>4. ASSUME NEW c \in Client, NEW r \in Request, AddCameras(c, r)
      PROVE  Within'
  <2>1. sessions[c] \in Org
    BY <1>4, AttachedOrg DEF AddCameras
  <2> QED
    BY <1>4, <2>1, WithinStart DEF AddCameras, TypeOK
<1>5. ASSUME NEW c \in Client, NEW k \in Cam, StopCamera(c, k) PROVE Within'
  <2>1. {k} \in SUBSET DOMAIN slots[c] /\ {slots[c][j] : j \in {k}} = {slots[c][k]}
    BY <1>5 DEF StopCamera
  <2>2. loop'.client = c /\ loop'.todo = {slots[c][k]}
    BY <1>5 DEF StopCamera, Idle
  <2>3. slots' = [slots EXCEPT ![c] = [j \in DOMAIN slots[c] \ {k} |-> slots[c][j]]]
    BY <1>5 DEF StopCamera
  <2> QED
    BY <1>5, <2>1, <2>2, <2>3, WithinStop DEF StopCamera
<1>6. ASSUME NEW c \in Client, StopAll(c) \/ Disconnect(c) PROVE Within'
  <2> DEFINE K == DOMAIN slots[c]
  <2>1. PICK closing \in BOOLEAN : StopWorkers(c, closing)
    BY <1>6 DEF StopAll, Disconnect
  <2>2. loop'.client = c /\ loop'.todo = {slots[c][k] : k \in K}
    BY <2>1 DEF StopWorkers, Idle
  <2>3. slots' = [slots EXCEPT ![c] = [k \in DOMAIN slots[c] \ K |-> slots[c][k]]]
    <3>1. NoSlots = [k \in DOMAIN slots[c] \ K |-> slots[c][k]]
      BY DEF NoSlots
    <3> QED
      BY <2>1, <3>1 DEF StopWorkers
  <2>4. LoopFree
    BY <1>6 DEF StopAll, Disconnect
  <2> QED
    BY <2>2, <2>3, <2>4, WithinStop
<1>7. ASSUME \/ \E t \in Thread : Signal(t)
             \/ Joined \/ Stopped \/ CloseDone
      PROVE  Within'
  <2>1. UNCHANGED slots
    BY <1>7 DEF Signal, Joined, Stopped, CloseDone
  <2>2. ASSUME NEW c \in Client PROVE Share(c)' \in SUBSET Share(c)
    <3>1. CASE (\E t \in Thread : Signal(t)) \/ Joined
      <4>1. loop \in Loop
        BY DEF TypeOK
      <4>2. loop'.client = loop.client /\ loop'.todo \in SUBSET loop.todo
        <5>1. ASSUME NEW t \in Thread, Signal(t)
              PROVE  loop'.client = loop.client /\ loop'.todo = loop.todo \ {t}
          BY <4>1, <5>1 DEF Signal, Loop
        <5>2. CASE Joined
          BY <4>1, <5>2 DEF Joined, Loop
        <5> QED
          BY <3>1, <5>1, <5>2
      <4> QED
        BY <4>2 DEF Share
    <3>2. CASE Stopped \/ CloseDone
      BY <3>2, OrgSessionsAssumption DEF Stopped, CloseDone, Share, Idle
    <3> QED
      BY <1>7, <3>1, <3>2
  <2> QED
    BY <2>1, <2>2, WithinSmaller
<1>8. ASSUME NEW t \in Thread, WorkerStep(t) PROVE Within'
  BY <1>1, <1>8, WorkerMoves DEF Moves
<1>9. CASE UNCHANGED vars
  BY <1>1, <1>9 DEF vars
<1> QED
  BY <1>2, <1>3, <1>4, <1>5, <1>6, <1>7, <1>8, <1>9 DEF Next, WorkerStep

\* A connection never has more cameras streaming unstopped than its limit, for
\* any limit and however its requests overlap with what is being stopped.
THEOREM LimitCorrect == Spec => []CameraLimit
<1>1. TypeOK /\ Ownership /\ Within => CameraLimit
  <2> SUFFICES ASSUME TypeOK, Ownership, Within, NEW c \in Client
               PROVE  Cardinality({t \in Unstopped : worker[t].client = c})
                        <= MaxCameras
    BY DEF CameraLimit
  <2> DEFINE held == {slots[c][k] : k \in DOMAIN slots[c]}
             W == {t \in Unstopped : worker[t].client = c}
  <2>1. W \in SUBSET (held \cup Share(c))
    BY DEF Ownership, NoOrphanWorker, Share
  <2>2. /\ Cardinality(DOMAIN slots[c]) \in Nat
        /\ IsFiniteSet(DOMAIN slots[c])
        /\ IsFiniteSet(Share(c)) /\ Cardinality(Share(c)) \in Nat
    BY SlotsFinite
  <2>3. /\ IsFiniteSet(held) /\ Cardinality(held) \in Nat
        /\ Cardinality(held) <= Cardinality(DOMAIN slots[c])
    BY <2>2, RangeSmaller
  <2> HIDE DEF held, W
  <2>4. /\ IsFiniteSet(held \cup Share(c))
        /\ Cardinality(held \cup Share(c)) <= Cardinality(held) + Cardinality(Share(c))
    BY <2>2, <2>3, UnionSize
  <2>5. Cardinality(W) \in Nat /\ Cardinality(W) <= Cardinality(held \cup Share(c))
    BY <2>1, <2>4, FS_Subset, FS_CardinalityType
  <2>6. Cardinality(held \cup Share(c)) \in Nat
    BY <2>4, FS_CardinalityType
  <2> QED
    BY <2>2, <2>3, <2>4, <2>5, <2>6, OrgSessionsAssumption DEF Within, W
<1> QED
  BY <1>1, TypeCorrect, OwnershipCorrect, WithinInit, WithinNext, PTL DEF Spec

=============================================================================
