----------------------------- MODULE ReidServer -----------------------------
(***************************************************************************)
(* The ReID WebSocket server: the handlers of all connections on one event *)
(* loop (reid_handler.py), the runner of each start_stream in a pool of    *)
(* threads, and the storage worker of each runner in a second pool of the  *)
(* same size, fed through a bounded queue (reid_runner.py, app_server.py). *)
(*                                                                         *)
(* A runner knows whether to go on only from the streaming flag under its  *)
(* client id.  A handler changes the table between two awaits, so each of  *)
(* its messages is one step.  Cancelling a future takes its job out of the *)
(* pool's queue if no thread has taken it up by then, and else does        *)
(* nothing.  The payloads sent to the client are left out: a send that     *)
(* fails is logged and the cycle goes on.                                  *)
(***************************************************************************)
EXTENDS Integers, FiniteSets, Sequences

CONSTANTS Conn, Client,
          ClientOf,   \* the client id a connection names in its URL
          Requests,   \* the lists of camera ids a start_stream may name
          PoolSize,   \* MAX_SESSIONS, the size of either pool (5)
          QueueSize,  \* maxsize of a storage queue (1000)
          MaxJobs,    \* bound on the runners ever submitted
          MaxRows     \* bound on the rows of one runner

ASSUME ReidServerAssumption ==
  /\ IsFiniteSet(Conn)
  /\ ClientOf \in [Conn -> Client]
  /\ Requests \subseteq Seq(Nat) \ {<<>>}
  /\ PoolSize \in Nat \ {0} /\ QueueSize \in Nat \ {0}
  /\ MaxJobs \in Nat /\ MaxRows \in Nat

VARIABLES open,      \* the connections whose handler runs
          sessions,  \* client id -> streaming flag and future
          jobs,      \* the runners, in the order they were submitted
          waiting,   \* storage workers without a thread, first come first
          queue,     \* of each runner: its rows, then the sentinel
          stored     \* of each runner: the rows its storage worker saved

vars == <<open, sessions, jobs, waiting, queue, stored>>

Job == 1..Len(jobs)
NoJob == 0                     \* the future is None
Sentinel == 0
Row == 1..MaxRows

Phase == {"queued", "dropped", "setup", "loop", "cycle", "closing",
          "sentinel", "ended"}
\* Of its captures a runner keeps those nobody has told to stop, by their place
\* in the request; one that is told ends by itself.
JobRec == [client : Client, request : Requests, phase : Phase,
           cancelled : BOOLEAN, captures : SUBSET Nat, rows : 0..MaxRows,
           storage : {"none", "waiting", "saving", "done"}]
Entry == [streaming : BOOLEAN, job : Nat]

Init ==
  /\ open = {}
  /\ sessions = [c \in {} |-> 0]
  /\ jobs = <<>>
  /\ waiting = <<>>
  /\ queue = <<>>
  /\ stored = <<>>

\* _is_streaming(): a client that is not in the table is not streaming.
Streaming(c) == c \in DOMAIN sessions /\ sessions[c].streaming

-----------------------------------------------------------------------------
(* The handler *)

WithEntry(c, entry) ==
  [d \in DOMAIN sessions \cup {c} |-> IF d = c THEN entry ELSE sessions[d]]

\* fut.cancel() for the job of a table entry.
Cancelled(entry) ==
  [j \in Job |-> [jobs[j] EXCEPT !.cancelled = @ \/ j = entry.job]]

\* An entry of the same client id is replaced, whoever made it.
Connect(x) ==
  /\ x \notin open
  /\ open' = open \cup {x}
  /\ sessions' = WithEntry(ClientOf[x], [streaming |-> FALSE, job |-> NoJob])
  /\ UNCHANGED <<jobs, waiting, queue, stored>>

NewJob(c, r) ==
  [client |-> c, request |-> r, phase |-> "queued", cancelled |-> FALSE,
   captures |-> {}, rows |-> 0, storage |-> "none"]

\* Seeded fault: the entry refers to the job submitted before.
StartStreamStale(x) ==
  LET c == ClientOf[x]
      before == IF Streaming(c) THEN Cancelled(sessions[c]) ELSE jobs
  IN  /\ x \in open /\ c \in DOMAIN sessions
      /\ Len(jobs) < MaxJobs
      /\ \E r \in Requests : jobs' = Append(before, NewJob(c, r))
      /\ queue' = Append(queue, <<>>)
      /\ stored' = Append(stored, <<>>)
      /\ sessions' = [sessions EXCEPT ![c] =
                        [streaming |-> TRUE, job |-> Len(jobs)]]
      /\ UNCHANGED <<open, waiting>>

\* start_stream: a stream that is on is switched off, and on again.
StartStream(x) ==
  LET c == ClientOf[x]
      before == IF Streaming(c) THEN Cancelled(sessions[c]) ELSE jobs
  IN  /\ x \in open /\ c \in DOMAIN sessions
      /\ Len(jobs) < MaxJobs
      /\ \E r \in Requests : jobs' = Append(before, NewJob(c, r))
      /\ queue' = Append(queue, <<>>)
      /\ stored' = Append(stored, <<>>)
      /\ sessions' = [sessions EXCEPT ![c] =
                        [streaming |-> TRUE, job |-> Len(jobs) + 1]]
      /\ UNCHANGED <<open, waiting>>

StopStream(x) ==
  LET c == ClientOf[x]
  IN  /\ x \in open /\ c \in DOMAIN sessions
      /\ sessions' = [sessions EXCEPT ![c].streaming = FALSE]
      /\ jobs' = Cancelled(sessions[c])
      /\ UNCHANGED <<open, waiting, queue, stored>>

\* The connection ends: the client's entry goes, whoever made it.
Leave(x) ==
  LET c == ClientOf[x]
  IN  /\ x \in open /\ c \in DOMAIN sessions
      /\ open' = open \ {x}
      /\ jobs' = Cancelled(sessions[c])
      /\ sessions' = [d \in DOMAIN sessions \ {c} |-> sessions[d]]
      /\ UNCHANGED <<waiting, queue, stored>>

\* Another connection with the same client id has removed the entry: the next
\* use of it raises, in the finally clause as well, and the handler ends.
Fails(x) ==
  /\ x \in open /\ ClientOf[x] \notin DOMAIN sessions
  /\ open' = open \ {x}
  /\ UNCHANGED <<sessions, jobs, waiting, queue, stored>>

-----------------------------------------------------------------------------
(* The detection pool *)

Queued == {j \in Job : jobs[j].phase = "queued"}
Busy == {j \in Job : jobs[j].phase \notin {"queued", "dropped", "ended"}}

Moves(j, phase) ==
  /\ jobs' = [jobs EXCEPT ![j].phase = phase]
  /\ UNCHANGED <<open, sessions, waiting, queue, stored>>

\* A cancelled job that no thread has taken up is skipped.
Dropped(j) ==
  /\ j \in Queued /\ jobs[j].cancelled
  /\ Moves(j, "dropped")

\* A thread of the pool takes up the job submitted first.
Begins(j) ==
  /\ j \in Queued /\ \A k \in Queued : j <= k
  /\ Cardinality(Busy) < PoolSize
  /\ Moves(j, "setup")

-----------------------------------------------------------------------------
(* A runner: run_reid_detection *)

\* The models are loaded, the gallery opened, a capture started for each entry
\* of the request and the storage worker submitted.
SetUp(j) ==
  /\ jobs[j].phase = "setup"
  /\ jobs' = [jobs EXCEPT ![j].phase = "loop",
                          ![j].captures = DOMAIN jobs[j].request,
                          ![j].storage = "waiting"]
  /\ waiting' = Append(waiting, j)
  /\ UNCHANGED <<open, sessions, queue, stored>>

\* A model or the gallery cannot be opened.
SetUpFails(j) ==
  /\ jobs[j].phase = "setup"
  /\ Moves(j, "ended")

\* The flag is up and some camera has a frame.
CycleBegins(j) ==
  /\ jobs[j].phase = "loop" /\ Streaming(jobs[j].client)
  /\ jobs[j].rows < MaxRows
  /\ Moves(j, "cycle")

\* Seeded fault: the newest row goes first.
SavedFirst(j) == <<jobs[j].rows + 1>> \o queue[j]

\* put: at the end of the queue if there is room within 50 ms; else the row
\* is dropped.
Saved(j) ==
  IF Len(queue[j]) < QueueSize THEN Append(queue[j], jobs[j].rows + 1)
  ELSE queue[j]

CycleEnds(j) ==
  /\ jobs[j].phase = "cycle"
  /\ queue' = [queue EXCEPT ![j] = Saved(j)]
  /\ jobs' = [jobs EXCEPT ![j].phase = "loop", ![j].rows = @ + 1]
  /\ UNCHANGED <<open, sessions, waiting, stored>>

\* The flag is seen down, or a frame raises: on to the finally clause.
LeavesLoop(j) ==
  /\ \/ jobs[j].phase = "loop" /\ ~Streaming(jobs[j].client)
     \/ jobs[j].phase = "cycle"
  /\ Moves(j, "closing")

\* The dict of captures holds one for each camera id: of entries that name the
\* same id the last.
InTable(r) == {i \in DOMAIN r : \A k \in DOMAIN r : k > i => r[k] # r[i]}

StopsCaptures(j) ==
  /\ jobs[j].phase = "closing"
  /\ jobs' = [jobs EXCEPT ![j].phase = "sentinel",
                          ![j].captures = @ \ InTable(jobs[j].request)]
  /\ UNCHANGED <<open, sessions, waiting, queue, stored>>

\* Seeded fault: the sentinel is given up when the queue is full.
PutsSentinelOnce(j) ==
  /\ jobs[j].phase = "sentinel"
  /\ queue' = [queue EXCEPT ![j] =
                 IF Len(@) < QueueSize THEN Append(@, Sentinel) ELSE @]
  /\ jobs' = [jobs EXCEPT ![j].phase = "ended"]
  /\ UNCHANGED <<open, sessions, waiting, stored>>

\* put(None) waits for room.
PutsSentinel(j) ==
  /\ jobs[j].phase = "sentinel"
  /\ Len(queue[j]) < QueueSize
  /\ queue' = [queue EXCEPT ![j] = Append(@, Sentinel)]
  /\ jobs' = [jobs EXCEPT ![j].phase = "ended"]
  /\ UNCHANGED <<open, sessions, waiting, stored>>

-----------------------------------------------------------------------------
(* A storage worker: _storage_worker *)

Storing == {j \in Job : jobs[j].storage = "saving"}

\* Seeded fault: a storage thread is never given back.
StorageBeginsOnce(j) ==
  /\ waiting # <<>> /\ Head(waiting) = j
  /\ Cardinality({k \in Job : jobs[k].storage \in {"saving", "done"}})
       < PoolSize
  /\ jobs' = [jobs EXCEPT ![j].storage = "saving"]
  /\ waiting' = Tail(waiting)
  /\ UNCHANGED <<open, sessions, queue, stored>>

\* A thread of the storage pool takes up the worker submitted first.
StorageBegins(j) ==
  /\ waiting # <<>> /\ Head(waiting) = j
  /\ Cardinality(Storing) < PoolSize
  /\ jobs' = [jobs EXCEPT ![j].storage = "saving"]
  /\ waiting' = Tail(waiting)
  /\ UNCHANGED <<open, sessions, queue, stored>>

\* A row is taken out, and inserted unless the insert raises; with postgres
\* disabled, or out of reach at the start, no row is inserted.
TakesRow(j) ==
  /\ j \in Storing /\ queue[j] # <<>> /\ Head(queue[j]) # Sentinel
  /\ \/ stored' = [stored EXCEPT ![j] = Append(@, Head(queue[j]))]
     \/ UNCHANGED stored
  /\ queue' = [queue EXCEPT ![j] = Tail(@)]
  /\ UNCHANGED <<open, sessions, jobs, waiting>>

TakesSentinel(j) ==
  /\ j \in Storing /\ queue[j] # <<>> /\ Head(queue[j]) = Sentinel
  /\ jobs' = [jobs EXCEPT ![j].storage = "done"]
  /\ queue' = [queue EXCEPT ![j] = Tail(@)]
  /\ UNCHANGED <<open, sessions, waiting, stored>>

-----------------------------------------------------------------------------
Runner(j) ==
  \/ SetUp(j) \/ SetUpFails(j) \/ CycleBegins(j) \/ CycleEnds(j)
  \/ LeavesLoop(j) \/ StopsCaptures(j) \/ PutsSentinel(j)

StorageWorker(j) == StorageBegins(j) \/ TakesRow(j) \/ TakesSentinel(j)

Next ==
  \/ \E x \in Conn : \/ Connect(x) \/ StartStream(x) \/ StopStream(x)
                     \/ Leave(x) \/ Fails(x)
  \/ \E j \in Job : Dropped(j) \/ Begins(j) \/ Runner(j) \/ StorageWorker(j)

Spec == Init /\ [][Next]_vars

\* The pools' threads run and their calls return; clients may do nothing.
FairSpec ==
  /\ Spec
  /\ \A j \in 1..MaxJobs :
       /\ WF_vars(j \in Job /\ (Dropped(j) \/ Begins(j)))
       /\ WF_vars(j \in Job /\ Runner(j))
       /\ WF_vars(j \in Job /\ StorageWorker(j))

-----------------------------------------------------------------------------
(* Properties *)

\* Every variable has its shape, and a table entry's future is a runner of
\* that client id.
TypeOK ==
  /\ open \subseteq Conn
  /\ DOMAIN sessions \subseteq Client
  /\ sessions \in [DOMAIN sessions -> Entry]
  /\ \A c \in DOMAIN sessions :
       sessions[c].job # NoJob =>
         sessions[c].job \in Job /\ jobs[sessions[c].job].client = c
  /\ jobs \in Seq(JobRec)
  /\ waiting \in Seq(Job)
  /\ queue \in Seq(Seq(Row \cup {Sentinel})) /\ Len(queue) = Len(jobs)
  /\ stored \in Seq(Seq(Row)) /\ Len(stored) = Len(jobs)

\* A client id is in the table only while one of its connections is open, so
\* that a runner whose connections are all gone reads its flag as down,
\* although connections with the same id replace and remove each other's
\* entries (Connect, finally clause).
EntriesHaveConnections ==
  \A c \in DOMAIN sessions : \E x \in open : ClientOf[x] = c

\* A storage worker can always come to its end: once its runner is gone the
\* sentinel is in its queue, behind every row, and a runner that never got
\* as far has no storage worker ("sentinel: tell storage worker to exit").
StorageCanEnd ==
  \A j \in Job :
    LET n == Len(queue[j]) IN
    /\ \A i \in 1..n : queue[j][i] = Sentinel => i = n
    /\ jobs[j].storage \in {"waiting", "saving"} =>
         (jobs[j].phase = "ended" <=> n > 0 /\ queue[j][n] = Sentinel)

\* The rows that were saved, then those in the queue, are in the order of
\* the cycles, none twice, whichever are dropped (put, get).
RowsInOrder ==
  \A j \in Job :
    LET s == stored[j]
        q == queue[j]
    IN  /\ \A m, n \in DOMAIN s : m < n => s[m] < s[n]
        /\ \A n \in DOMAIN q : q[n] # Sentinel =>
             /\ \A m \in DOMAIN q : m < n => q[m] < q[n]
             /\ \A m \in DOMAIN s : s[m] < q[n]

\* Nothing runs on behalf of the client: no runner, no capture, no storage
\* worker.  A job that still waits for a thread does not.  Of a request that
\* names a camera twice the code loses a capture, which reads on for ever: it
\* is left out here, and nothing is when the ids of a request are distinct.
AtRest(c) ==
  \A j \in Job : jobs[j].client = c =>
    /\ jobs[j].phase \in {"queued", "dropped", "ended"}
    /\ jobs[j].captures \cap InTable(jobs[j].request) = {}
    /\ jobs[j].storage \in {"none", "done"}

\* A client that has stopped for good, or has gone, has nothing running in
\* the end, but the captures its requests lose: no runner waits for ever for a
\* storage thread or for room in its queue, however busy the pools are
\* (finally, put(None)).
StoppedStreamsEnd ==
  \A c \in Client : <>[]~Streaming(c) => <>[]AtRest(c)

=============================================================================
