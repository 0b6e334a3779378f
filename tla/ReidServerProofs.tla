-------------------------- MODULE ReidServerProofs --------------------------
(***************************************************************************)
(* Proofs about ReidServer, for any connections, client ids, pool sizes    *)
(* and queue sizes.                                                        *)
(***************************************************************************)
EXTENDS ReidServer, SequenceTheorems, TLAPS

-----------------------------------------------------------------------------
(* Entries of the sessions table *)

\* A step of a pool thread does not touch connections and table.
LEMMA ThreadsLeaveTable ==
  ASSUME NEW j, Dropped(j) \/ Begins(j) \/ Runner(j) \/ StorageWorker(j)
  PROVE  UNCHANGED <<open, sessions>>
  BY DEF Dropped, Begins, Runner, StorageWorker, Moves, SetUp, SetUpFails,
         CycleBegins, CycleEnds, LeavesLoop, StopsCaptures, PutsSentinel,
         StorageBegins, TakesRow, TakesSentinel

LEMMA EntriesNext == EntriesHaveConnections /\ [Next]_vars => EntriesHaveConnections'
<1> SUFFICES ASSUME EntriesHaveConnections, [Next]_vars
             PROVE  EntriesHaveConnections'
  OBVIOUS
<1>1. ASSUME NEW x \in Conn, Connect(x) PROVE EntriesHaveConnections'
  BY <1>1 DEF Connect, WithEntry, EntriesHaveConnections
<1>2. ASSUME NEW x \in Conn, StartStream(x) PROVE EntriesHaveConnections'
  BY <1>2 DEF StartStream, EntriesHaveConnections
<1>3. ASSUME NEW x \in Conn, StopStream(x) PROVE EntriesHaveConnections'
  BY <1>3 DEF StopStream, EntriesHaveConnections
<1>4. ASSUME NEW x \in Conn, Leave(x) PROVE EntriesHaveConnections'
  BY <1>4 DEF Leave, EntriesHaveConnections
<1>5. ASSUME NEW x \in Conn, Fails(x) PROVE EntriesHaveConnections'
  BY <1>5 DEF Fails, EntriesHaveConnections
<1>6. ASSUME NEW j \in Job, Dropped(j) \/ Begins(j) \/ Runner(j) \/ StorageWorker(j)
      PROVE  EntriesHaveConnections'
  BY <1>6, ThreadsLeaveTable DEF EntriesHaveConnections
<1>7. CASE UNCHANGED vars
  BY <1>7 DEF vars, EntriesHaveConnections
<1> QED
  BY <1>1, <1>2, <1>3, <1>4, <1>5, <1>6, <1>7 DEF Next

\* A client id is in the table only while a connection of its is open.
THEOREM EntriesCorrect == Spec => []EntriesHaveConnections
<1>1. Init => EntriesHaveConnections
  BY DEF Init, EntriesHaveConnections
<1> QED
  BY <1>1, EntriesNext, PTL DEF Spec


-----------------------------------------------------------------------------
(* Runners, queues and storage workers *)

\* Where the rows and the sentinel of a runner can be at each phase.
Staged(job, q) ==
  /\ job.phase = "cycle" => job.rows < MaxRows
  /\ job.phase \in {"queued", "dropped", "setup"} =>
       job.storage = "none" /\ q = <<>>
  /\ job.storage = "none" =>
       job.phase \in {"queued", "dropped", "setup", "ended"}
  /\ job.storage = "done" => job.phase = "ended"
  /\ \A i \in DOMAIN q : q[i] = Sentinel => i = Len(q) /\ job.phase = "ended"
  /\ job.storage \in {"waiting", "saving"} /\ job.phase = "ended" =>
       Len(q) > 0 /\ q[Len(q)] = Sentinel

\* The rows saved, then those in the queue, rise and were all produced.
Ordered(job, q, s) ==
  /\ \A m \in DOMAIN s : s[m] <= job.rows
  /\ \A m, n \in DOMAIN s : m < n => s[m] < s[n]
  /\ \A n \in DOMAIN q :
       /\ q[n] <= job.rows
       /\ q[n] # Sentinel =>
            /\ \A m \in DOMAIN q : m < n => q[m] < q[n]
            /\ \A m \in DOMAIN s : s[m] < q[n]

\* The storage workers that wait for a thread stand in line once.
InLine ==
  /\ \A i \in DOMAIN waiting : jobs[waiting[i]].storage = "waiting"
  /\ \A h, i \in DOMAIN waiting : waiting[h] = waiting[i] => h = i

IInv ==
  /\ TypeOK
  /\ \A j \in Job : Staged(jobs[j], queue[j]) /\ Ordered(jobs[j], queue[j], stored[j])
  /\ InLine

LEMMA InitInv == Init => IInv
  BY DEF Init, IInv, TypeOK, InLine, Job, Entry, JobRec

\* A step that changes one runner and its queue keeps the invariant if it does
\* so for that runner.
LEMMA OneRunner ==
  ASSUME IInv, NEW j \in Job, UNCHANGED <<open, sessions>>,
         NEW job \in JobRec, jobs' = [jobs EXCEPT ![j] = job],
         job.client = jobs[j].client,
         NEW q \in Seq(Row \cup {Sentinel}), queue' = [queue EXCEPT ![j] = q],
         NEW s \in Seq(Row), stored' = [stored EXCEPT ![j] = s],
         Staged(job, q), Ordered(job, q, s),
         waiting' \in Seq(Job), InLine'
  PROVE  IInv'
<1>1. /\ jobs' \in Seq(JobRec) /\ Len(jobs') = Len(jobs)
      /\ jobs'[j] = job
      /\ \A k \in Job : k # j => jobs'[k] = jobs[k]
  BY DEF IInv, TypeOK, Job
<1>2. /\ queue' \in Seq(Seq(Row \cup {Sentinel})) /\ Len(queue') = Len(queue)
      /\ queue'[j] = q
      /\ \A k \in Job : k # j => queue'[k] = queue[k]
  BY DEF IInv, TypeOK, Job
<1>3. /\ stored' \in Seq(Seq(Row)) /\ Len(stored') = Len(stored)
      /\ stored'[j] = s
      /\ \A k \in Job : k # j => stored'[k] = stored[k]
  BY DEF IInv, TypeOK, Job
<1>4. Job' = Job
  BY <1>1 DEF Job
<1>5. TypeOK'
  BY <1>1, <1>2, <1>3, <1>4 DEF IInv, TypeOK
<1>6. ASSUME NEW k \in Job
      PROVE  Staged(jobs'[k], queue'[k]) /\ Ordered(jobs'[k], queue'[k], stored'[k])
  <2>1. CASE k = j
    BY <2>1, <1>1, <1>2, <1>3
  <2>2. CASE k # j
    BY <2>2, <1>1, <1>2, <1>3 DEF IInv
  <2> QED
    BY <2>1, <2>2
<1>7. \A k \in Job' :
        Staged(jobs[k], queue[k])' /\ Ordered(jobs[k], queue[k], stored[k])'
  BY <1>4, <1>6 DEF Staged, Ordered
<1> QED
  BY <1>5, <1>7 DEF IInv

LEMMA RunnerTyped ==
  ASSUME IInv, NEW j \in Job
  PROVE  /\ jobs[j] \in JobRec
         /\ queue[j] \in Seq(Row \cup {Sentinel}) /\ stored[j] \in Seq(Row)
         /\ queue = [queue EXCEPT ![j] = queue[j]]
         /\ stored = [stored EXCEPT ![j] = stored[j]]
         /\ Staged(jobs[j], queue[j]) /\ Ordered(jobs[j], queue[j], stored[j])
         /\ waiting \in Seq(Job)
<1>1. j \in 1..Len(queue) /\ j \in 1..Len(stored) /\ j \in 1..Len(jobs)
  BY DEF IInv, TypeOK, Job
<1>2. queue = [queue EXCEPT ![j] = queue[j]]
  BY <1>1 DEF IInv, TypeOK
<1>3. stored = [stored EXCEPT ![j] = stored[j]]
  BY <1>1 DEF IInv, TypeOK
<1> QED
  BY <1>1, <1>2, <1>3 DEF IInv, TypeOK

LEMMA LineKept ==
  ASSUME IInv, NEW j \in Job, NEW job, jobs' = [jobs EXCEPT ![j] = job],
         job.storage = jobs[j].storage, waiting' = waiting
  PROVE  InLine'
<1>1. /\ \A k \in Job : jobs'[k].storage = jobs[k].storage
      /\ waiting \in Seq(Job)
  BY DEF IInv, TypeOK, Job
<1> QED
  BY <1>1 DEF IInv, InLine

\* A runner that goes on to another phase, with nothing put or taken.
LEMMA Proceeds ==
  ASSUME IInv, NEW j \in Job, NEW phase \in Phase, Moves(j, phase),
         phase \in {"queued", "dropped", "setup"} =>
           jobs[j].phase \in {"queued", "dropped", "setup"},
         jobs[j].storage = "none" =>
           phase \in {"queued", "dropped", "setup", "ended"},
         phase = "ended" <=> jobs[j].phase = "ended" \/ jobs[j].phase = "setup",
         phase = "cycle" => jobs[j].rows < MaxRows
  PROVE  IInv'
<1> DEFINE job == [jobs[j] EXCEPT !.phase = phase]
<1>1. /\ job \in JobRec /\ job.client = jobs[j].client
      /\ job.storage = jobs[j].storage /\ job.rows = jobs[j].rows
      /\ job.phase = phase
  BY RunnerTyped DEF JobRec
<1>2. jobs' = [jobs EXCEPT ![j] = job]
  BY DEF Moves
<1> HIDE DEF job
<1>3. Staged(job, queue[j])
  BY <1>1, RunnerTyped DEF Staged
<1>4. Ordered(job, queue[j], stored[j])
  BY <1>1, RunnerTyped DEF Ordered
<1>5. UNCHANGED <<open, sessions, waiting, queue, stored>>
  BY DEF Moves
<1>6. InLine'
  BY <1>1, <1>2, <1>5, LineKept
<1> QED
  BY <1>1, <1>2, <1>3, <1>4, <1>5, <1>6, RunnerTyped, OneRunner

LEMMA SetUpInv ==
  ASSUME IInv, NEW j \in Job, SetUp(j)
  PROVE  IInv'
<1> DEFINE job == [jobs[j] EXCEPT !.phase = "loop",
                           !.captures = DOMAIN jobs[j].request,
                           !.storage = "waiting"]
<1>0. jobs[j].request \in Seq(Nat) /\ DOMAIN jobs[j].request \subseteq Nat
  BY RunnerTyped, ReidServerAssumption DEF JobRec
<1>1. /\ job \in JobRec /\ job.client = jobs[j].client
      /\ job.storage = "waiting" /\ job.rows = jobs[j].rows
      /\ job.phase = "loop"
  BY <1>0, RunnerTyped DEF JobRec, Phase
<1>2. jobs' = [jobs EXCEPT ![j] = job]
  BY DEF SetUp
<1> HIDE DEF job
<1>3. jobs[j].storage = "none" /\ queue[j] = <<>>
  BY RunnerTyped DEF SetUp, Staged
<1>4. Staged(job, queue[j])
  BY <1>1, <1>3 DEF Staged
<1>5. Ordered(job, queue[j], stored[j])
  BY <1>1, RunnerTyped DEF Ordered
<1>6. jobs'[j] = job /\ \A k \in Job : k # j => jobs'[k] = jobs[k]
  BY <1>2 DEF IInv, TypeOK, Job
<1>7. waiting \in Seq(Job) /\ waiting' = Append(waiting, j)
  BY RunnerTyped DEF SetUp
<1>8. /\ waiting' \in Seq(Job) /\ DOMAIN waiting' = 1..Len(waiting) + 1
      /\ DOMAIN waiting = 1..Len(waiting) /\ Len(waiting) \in Nat
      /\ waiting'[Len(waiting) + 1] = j
      /\ \A i \in 1..Len(waiting) : waiting'[i] = waiting[i] /\ waiting[i] \in Job
  BY <1>7
<1>9. \A i \in 1..Len(waiting) :
        jobs[waiting[i]].storage = "waiting" /\ waiting[i] # j
  BY <1>3, <1>8 DEF IInv, InLine
<1>10. \A i \in DOMAIN waiting' : jobs'[waiting'[i]].storage = "waiting"
  BY <1>1, <1>6, <1>8, <1>9
<1>11. \A h, i \in 1..Len(waiting) : waiting[h] = waiting[i] => h = i
  BY <1>8 DEF IInv, InLine
<1>12. \A h, i \in DOMAIN waiting' : waiting'[h] = waiting'[i] => h = i
  BY <1>8, <1>9, <1>11
<1>13. InLine'
  BY <1>10, <1>12 DEF InLine
<1> QED
  BY <1>1, <1>2, <1>4, <1>5, <1>8, <1>13, RunnerTyped, OneRunner DEF SetUp

\* A new row behind the others.
LEMMA RowAppended ==
  ASSUME NEW job \in JobRec, NEW next \in JobRec, next.rows = job.rows + 1,
         NEW q \in Seq(Row \cup {Sentinel}), NEW s \in Seq(Row),
         Ordered(job, q, s), \A i \in DOMAIN q : q[i] # Sentinel
  PROVE  /\ Append(q, next.rows) \in Seq(Row \cup {Sentinel})
         /\ \A i \in DOMAIN Append(q, next.rows) : Append(q, next.rows)[i] # Sentinel
         /\ Ordered(next, Append(q, next.rows), s)
<1> DEFINE row == next.rows
           r == Append(q, row)
<1>1. MaxRows \in Nat /\ job.rows \in 0..MaxRows /\ row \in 0..MaxRows
      /\ row = job.rows + 1
  BY ReidServerAssumption DEF JobRec
<1>2. row \in Row /\ row # Sentinel
  BY <1>1 DEF Row, Sentinel
<1> HIDE DEF row
<1>3. /\ r \in Seq(Row \cup {Sentinel})
      /\ DOMAIN r = 1..Len(q) + 1 /\ DOMAIN q = 1..Len(q) /\ Len(q) \in Nat
      /\ r[Len(q) + 1] = row
      /\ \A i \in 1..Len(q) : r[i] = q[i]
  BY <1>2
<1> HIDE DEF r
<1>4. \A i \in 1..Len(q) : q[i] \in Int /\ q[i] < row
  <2>1. \A i \in 1..Len(q) : q[i] \in Row \cup {Sentinel}
    OBVIOUS
  <2>2. \A i \in 1..Len(q) : q[i] <= job.rows
    BY <1>3 DEF Ordered
  <2> QED
    BY <2>1, <2>2, <1>1 DEF Row, Sentinel
<1>5. \A m \in DOMAIN s : s[m] \in Int /\ s[m] < row
  <2>1. \A m \in DOMAIN s : s[m] \in Row
    OBVIOUS
  <2>2. \A m \in DOMAIN s : s[m] <= job.rows
    BY DEF Ordered
  <2> QED
    BY <2>1, <2>2, <1>1 DEF Row
<1>6. \A i \in DOMAIN r : r[i] # Sentinel
  BY <1>2, <1>3
<1>7. \A m, n \in DOMAIN q : m < n => q[m] < q[n]
  BY DEF Ordered
<1>8. \A n \in DOMAIN q, m \in DOMAIN s : s[m] < q[n]
  BY DEF Ordered
<1>9. \A m, n \in DOMAIN r : m < n => r[m] < r[n]
  BY <1>3, <1>4, <1>7
<1>10. \A n \in DOMAIN r, m \in DOMAIN s : s[m] < r[n]
  BY <1>3, <1>5, <1>8
<1>11. \A n \in DOMAIN r : r[n] <= row
  BY <1>1, <1>3, <1>4
<1>12. \A m \in DOMAIN s : s[m] <= row
  BY <1>1, <1>5
<1>13. \A m, n \in DOMAIN s : m < n => s[m] < s[n]
  BY DEF Ordered
<1>14. Ordered(next, r, s)
  BY <1>9, <1>10, <1>11, <1>12, <1>13 DEF Ordered, row
<1> QED
  BY <1>3, <1>6, <1>14 DEF r, row

\* A row that is dropped.
LEMMA RowDropped ==
  ASSUME NEW job \in JobRec, NEW next \in JobRec, next.rows = job.rows + 1,
         NEW q \in Seq(Row \cup {Sentinel}), NEW s \in Seq(Row),
         Ordered(job, q, s)
  PROVE  Ordered(next, q, s)
<1>1. job.rows \in Int
  BY DEF JobRec
<1>2. \A m \in DOMAIN s : s[m] \in Int /\ s[m] <= job.rows
  <2>1. \A m \in DOMAIN s : s[m] \in Row
    OBVIOUS
  <2> QED
    BY <2>1 DEF Ordered, Row
<1>3. \A n \in DOMAIN q : q[n] \in Int /\ q[n] <= job.rows
  <2>1. \A n \in DOMAIN q : q[n] \in Row \cup {Sentinel}
    OBVIOUS
  <2> QED
    BY <2>1 DEF Ordered, Row, Sentinel
<1>4. /\ \A m \in DOMAIN s : s[m] <= next.rows
      /\ \A n \in DOMAIN q : q[n] <= next.rows
  BY <1>1, <1>2, <1>3
<1> QED
  BY <1>4 DEF Ordered

\* A cycle's row goes to the end of the queue or is dropped.
LEMMA CycleEndsInv ==
  ASSUME IInv, NEW j \in Job, CycleEnds(j)
  PROVE  IInv'
<1> DEFINE row == jobs[j].rows + 1
           job == [jobs[j] EXCEPT !.phase = "loop", !.rows = row]
<1>1. row \in 0..MaxRows
  BY RunnerTyped, ReidServerAssumption DEF JobRec, CycleEnds, Staged
<1>2. jobs' = [jobs EXCEPT ![j] = job] /\ jobs[j].phase = "cycle"
  BY DEF CycleEnds
<1>3. queue' = [queue EXCEPT ![j] = Saved(j)] /\ Saved(j) \in {queue[j], Append(queue[j], row)}
  BY DEF CycleEnds, Saved
<1> HIDE DEF row
<1>4. /\ job \in JobRec /\ job.client = jobs[j].client
      /\ job.storage = jobs[j].storage /\ job.rows = row
      /\ job.phase = "loop"
  BY <1>1, RunnerTyped DEF JobRec, Phase
<1>5. job.rows = jobs[j].rows + 1
  BY <1>4 DEF row
<1> HIDE DEF job
<1>6. \A i \in DOMAIN queue[j] : queue[j][i] # Sentinel
  BY <1>2, RunnerTyped DEF Staged
<1>7. /\ Saved(j) \in Seq(Row \cup {Sentinel})
      /\ \A i \in DOMAIN Saved(j) : Saved(j)[i] # Sentinel
      /\ Ordered(job, Saved(j), stored[j])
  <2>1. CASE Saved(j) = queue[j]
    <3>1. Ordered(job, queue[j], stored[j])
      BY <1>4, <1>5, RunnerTyped, RowDropped
    <3> QED
      BY <3>1, <2>1, <1>6, RunnerTyped
  <2>2. CASE Saved(j) = Append(queue[j], row)
    <3>1. /\ Append(queue[j], job.rows) \in Seq(Row \cup {Sentinel})
          /\ \A i \in DOMAIN Append(queue[j], job.rows) :
               Append(queue[j], job.rows)[i] # Sentinel
          /\ Ordered(job, Append(queue[j], job.rows), stored[j])
      BY <1>4, <1>5, <1>6, RunnerTyped, RowAppended
    <3> QED
      BY <3>1, <2>2, <1>4
  <2> QED
    BY <2>1, <2>2, <1>3
<1>8. Staged(job, Saved(j))
  BY <1>2, <1>4, <1>7, RunnerTyped DEF Staged
<1>9. InLine'
  BY <1>2, <1>4, LineKept DEF CycleEnds
<1> QED
  BY <1>2, <1>3, <1>4, <1>7, <1>8, <1>9, RunnerTyped, OneRunner DEF CycleEnds

LEMMA StopsCapturesInv ==
  ASSUME IInv, NEW j \in Job, StopsCaptures(j)
  PROVE  IInv'
<1> DEFINE left == jobs[j].captures \ InTable(jobs[j].request)
           job == [jobs[j] EXCEPT !.phase = "sentinel", !.captures = left]
<1>1. /\ job \in JobRec /\ job.client = jobs[j].client
      /\ job.storage = jobs[j].storage /\ job.rows = jobs[j].rows
      /\ job.phase = "sentinel"
  BY RunnerTyped DEF JobRec, Phase
<1>2. jobs' = [jobs EXCEPT ![j] = job] /\ jobs[j].phase = "closing"
  BY DEF StopsCaptures
<1> HIDE DEF job
<1>3. Staged(job, queue[j])
  BY <1>1, <1>2, RunnerTyped DEF Staged
<1>4. Ordered(job, queue[j], stored[j])
  BY <1>1, RunnerTyped DEF Ordered
<1>5. InLine'
  BY <1>1, <1>2, LineKept DEF StopsCaptures
<1> QED
  BY <1>1, <1>2, <1>3, <1>4, <1>5, RunnerTyped, OneRunner DEF StopsCaptures

\* The sentinel goes behind every row.
LEMMA PutsSentinelInv ==
  ASSUME IInv, NEW j \in Job, PutsSentinel(j)
  PROVE  IInv'
<1> DEFINE job == [jobs[j] EXCEPT !.phase = "ended"]
           q == queue[j]
           s == stored[j]
           r == Append(q, Sentinel)
<1>1. /\ job \in JobRec /\ job.client = jobs[j].client
      /\ job.storage = jobs[j].storage /\ job.rows = jobs[j].rows
      /\ job.phase = "ended"
  BY RunnerTyped DEF JobRec, Phase
<1>2. /\ jobs' = [jobs EXCEPT ![j] = job] /\ jobs[j].phase = "sentinel"
      /\ queue' = [queue EXCEPT ![j] = r]
  BY DEF PutsSentinel
<1> HIDE DEF job
<1>3. q \in Seq(Row \cup {Sentinel}) /\ s \in Seq(Row)
  BY RunnerTyped
<1>4. Staged(jobs[j], q) /\ Ordered(jobs[j], q, s) /\ jobs[j] \in JobRec
  BY RunnerTyped
<1> HIDE DEF q, s
<1>5. /\ r \in Seq(Row \cup {Sentinel}) /\ Len(r) = Len(q) + 1
      /\ DOMAIN r = 1..Len(q) + 1 /\ DOMAIN q = 1..Len(q) /\ Len(q) \in Nat
      /\ r[Len(q) + 1] = Sentinel
      /\ \A i \in 1..Len(q) : r[i] = q[i]
  BY <1>3
<1> HIDE DEF r
<1>6. \A i \in DOMAIN q : q[i] # Sentinel
  BY <1>2, <1>4 DEF Staged
<1>7. Staged(job, r)
  BY <1>1, <1>2, <1>4, <1>5, <1>6 DEF Staged
<1>8. 0 <= jobs[j].rows
  BY <1>4 DEF JobRec
<1>9. \A n \in DOMAIN r : r[n] <= job.rows
  BY <1>1, <1>4, <1>5, <1>8 DEF Ordered, Sentinel
<1>10. \A n \in DOMAIN r : r[n] # Sentinel =>
         /\ \A m \in DOMAIN r : m < n => r[m] < r[n]
         /\ \A m \in DOMAIN s : s[m] < r[n]
  BY <1>4, <1>5 DEF Ordered
<1>11. Ordered(job, r, s)
  BY <1>1, <1>4, <1>9, <1>10 DEF Ordered
<1>12. InLine'
  BY <1>1, <1>2, LineKept DEF PutsSentinel
<1>13. stored' = [stored EXCEPT ![j] = s] /\ waiting' \in Seq(Job)
       /\ UNCHANGED <<open, sessions>>
  BY RunnerTyped DEF PutsSentinel, s
<1> QED
  BY <1>1, <1>2, <1>3, <1>5, <1>7, <1>11, <1>12, <1>13, OneRunner

\* The first in the line gets a thread.
LEMMA StorageBeginsInv ==
  ASSUME IInv, NEW j \in Job, StorageBegins(j)
  PROVE  IInv'
<1>1. jobs' = [jobs EXCEPT ![j].storage = "saving"]
  BY DEF StorageBegins
<1> DEFINE job == [jobs[j] EXCEPT !.storage = "saving"]
<1>2. /\ job \in JobRec /\ job.client = jobs[j].client
      /\ job.storage = "saving" /\ job.rows = jobs[j].rows
      /\ job.phase = jobs[j].phase
  BY RunnerTyped DEF JobRec
<1>3. jobs' = [jobs EXCEPT ![j] = job]
  BY <1>1
<1> HIDE DEF job
<1>4. waiting \in Seq(Job) /\ waiting # <<>> /\ Head(waiting) = j /\ waiting' = Tail(waiting)
  BY RunnerTyped DEF StorageBegins
<1>5. /\ DOMAIN waiting = 1..Len(waiting) /\ Len(waiting) \in Nat \ {0}
      /\ waiting[1] = j
      /\ waiting' \in Seq(Job) /\ DOMAIN waiting' = 1..Len(waiting) - 1
      /\ \A i \in 1..Len(waiting) - 1 : waiting'[i] = waiting[i + 1]
      /\ \A i \in 1..Len(waiting) : waiting[i] \in Job
  BY <1>4
<1>6. \A i \in 1..Len(waiting) : jobs[waiting[i]].storage = "waiting"
  BY <1>5 DEF IInv, InLine
<1>7. \A h, i \in 1..Len(waiting) : waiting[h] = waiting[i] => h = i
  BY <1>5 DEF IInv, InLine
<1>8. \A k \in Job : k # j => jobs'[k] = jobs[k]
  BY <1>3 DEF IInv, TypeOK, Job
<1>9. \A i \in 1..Len(waiting) : i # 1 => jobs'[waiting[i]].storage = "waiting"
  BY <1>5, <1>6, <1>7, <1>8
<1>10. \A i \in DOMAIN waiting' : jobs'[waiting'[i]].storage = "waiting"
  BY <1>5, <1>9
<1>11. \A h, i \in DOMAIN waiting' : waiting'[h] = waiting'[i] => h = i
  BY <1>5, <1>7
<1>12. InLine'
  BY <1>10, <1>11 DEF InLine
<1>13. jobs[j].storage = "waiting"
  BY <1>5, <1>6
<1>14. Staged(job, queue[j])
  BY <1>2, <1>13, RunnerTyped DEF Staged
<1>15. Ordered(job, queue[j], stored[j])
  BY <1>2, RunnerTyped DEF Ordered
<1>16. UNCHANGED <<open, sessions, queue, stored>>
  BY DEF StorageBegins
<1> QED
  BY <1>2, <1>3, <1>5, <1>12, <1>14, <1>15, <1>16, RunnerTyped, OneRunner

\* A row is taken out of the queue and saved or lost.
LEMMA TakesRowInv ==
  ASSUME IInv, NEW j \in Job, TakesRow(j)
  PROVE  IInv'
<1> DEFINE job == jobs[j]
           q == queue[j]
           s == stored[j]
           r == Tail(q)
<1>1. /\ job \in JobRec /\ q \in Seq(Row \cup {Sentinel}) /\ s \in Seq(Row)
      /\ Staged(job, q) /\ Ordered(job, q, s)
      /\ jobs' = [jobs EXCEPT ![j] = job]
  BY RunnerTyped DEF TakesRow, IInv, TypeOK, Job
<1>2. /\ q # <<>> /\ Head(q) # Sentinel /\ queue' = [queue EXCEPT ![j] = r]
      /\ job.storage = "saving"
      /\ stored' = [stored EXCEPT ![j] = Append(s, Head(q))] \/ stored' = stored
      /\ UNCHANGED <<open, sessions, jobs, waiting>>
  BY DEF TakesRow, Storing
<1> HIDE DEF job, q, s
<1>3. /\ DOMAIN q = 1..Len(q) /\ Len(q) \in Nat \ {0} /\ Head(q) = q[1]
      /\ r \in Seq(Row \cup {Sentinel}) /\ Len(r) = Len(q) - 1
      /\ DOMAIN r = 1..Len(q) - 1
      /\ \A i \in DOMAIN r : i + 1 \in DOMAIN q /\ r[i] = q[i + 1]
      /\ q[1] \in Row
  BY <1>1, <1>2
<1> HIDE DEF r
<1>4. Staged(job, r)
  <2>1. \A i \in DOMAIN r : r[i] = Sentinel => i = Len(r) /\ job.phase = "ended"
    <3>1. \A i \in DOMAIN q : q[i] = Sentinel => i = Len(q) /\ job.phase = "ended"
      BY <1>1 DEF Staged
    <3> QED
      BY <3>1, <1>3
  <2>2. job.phase \notin {"queued", "dropped", "setup"}
    BY <1>1, <1>2 DEF Staged
  <2>3. job.phase = "ended" => Len(q) > 0 /\ q[Len(q)] = Sentinel
    BY <1>1, <1>2 DEF Staged
  <2>4. job.phase = "ended" => Len(q) > 1
    BY <2>3, <1>2, <1>3
  <2>5. job.phase = "ended" => Len(r) > 0 /\ r[Len(r)] = Sentinel
    BY <2>3, <2>4, <1>3
  <2> QED
    BY <2>1, <2>2, <2>5, <1>1, <1>2 DEF Staged
<1>5. /\ \A m, n \in DOMAIN q : m < n /\ q[n] # Sentinel => q[m] < q[n]
      /\ \A n \in DOMAIN q : q[n] <= job.rows
      /\ \A n \in DOMAIN q : q[n] # Sentinel => \A m \in DOMAIN s : s[m] < q[n]
  BY <1>1 DEF Ordered
<1>6. /\ \A m, n \in DOMAIN r : m < n /\ r[n] # Sentinel => r[m] < r[n]
      /\ \A n \in DOMAIN r : r[n] <= job.rows
  <2>1. ASSUME NEW m \in DOMAIN r, NEW n \in DOMAIN r, m < n, r[n] # Sentinel
        PROVE  r[m] < r[n]
    <3>1. m + 1 < n + 1
      BY <2>1, <1>3
    <3> QED
      BY <2>1, <3>1, <1>3, <1>5
  <2>2. \A n \in DOMAIN r : r[n] <= job.rows
    BY <1>3, <1>5
  <2> QED
    BY <2>1, <2>2
<1>7. ASSUME NEW n \in DOMAIN r, r[n] # Sentinel
      PROVE  q[1] < r[n] /\ \A m \in DOMAIN s : s[m] < r[n]
  <2>1. 1 \in DOMAIN q /\ n + 1 \in DOMAIN q /\ 1 < n + 1 /\ r[n] = q[n + 1]
    BY <1>3
  <2> QED
    BY <2>1, <1>5, <1>7
<1>8. InLine'
  BY <1>2 DEF IInv, InLine
<1>9. waiting' \in Seq(Job)
  BY <1>2, RunnerTyped
<1>10. CASE stored' = stored
  <2>1. Ordered(job, r, s)
    BY <1>1, <1>6, <1>7 DEF Ordered
  <2>2. stored' = [stored EXCEPT ![j] = s]
    BY <1>10, RunnerTyped DEF s
  <2> QED
    BY <2>1, <2>2, <1>1, <1>2, <1>3, <1>4, <1>8, <1>9, OneRunner DEF job
<1>11. CASE stored' = [stored EXCEPT ![j] = Append(s, Head(q))]
  <2> DEFINE u == Append(s, q[1])
  <2>1. /\ u \in Seq(Row) /\ DOMAIN u = 1..Len(s) + 1
        /\ DOMAIN s = 1..Len(s) /\ Len(s) \in Nat
        /\ u[Len(s) + 1] = q[1] /\ \A i \in 1..Len(s) : u[i] = s[i]
    BY <1>1, <1>3
  <2> HIDE DEF u
  <2>2. q[1] <= job.rows /\ \A m \in DOMAIN s : s[m] < q[1] /\ s[m] <= job.rows
    BY <1>1, <1>2, <1>3 DEF Ordered
  <2>3. \A m, n \in DOMAIN s : m < n => s[m] < s[n]
    BY <1>1 DEF Ordered
  <2>4. \A m, n \in DOMAIN u : m < n => u[m] < u[n]
    BY <2>1, <2>2, <2>3
  <2>5. \A m \in DOMAIN u : u[m] <= job.rows
    BY <2>1, <2>2
  <2>6. \A n \in DOMAIN r : r[n] # Sentinel => \A m \in DOMAIN u : u[m] < r[n]
    BY <2>1, <1>7
  <2>7. Ordered(job, r, u)
    BY <2>4, <2>5, <2>6, <1>6 DEF Ordered
  <2>8. stored' = [stored EXCEPT ![j] = u]
    BY <1>11, <1>3 DEF u
  <2> QED
    BY <2>1, <2>7, <2>8, <1>1, <1>2, <1>3, <1>4, <1>8, <1>9, OneRunner DEF job
<1> QED
  BY <1>2, <1>10, <1>11

\* The sentinel is the last thing a storage worker takes.
LEMMA TakesSentinelInv ==
  ASSUME IInv, NEW j \in Job, TakesSentinel(j)
  PROVE  IInv'
<1> DEFINE job == [jobs[j] EXCEPT !.storage = "done"]
           q == queue[j]
           r == Tail(q)
<1>1. /\ job \in JobRec /\ job.client = jobs[j].client
      /\ job.storage = "done" /\ job.rows = jobs[j].rows
      /\ job.phase = jobs[j].phase
  BY RunnerTyped DEF JobRec
<1>2. /\ jobs' = [jobs EXCEPT ![j] = job]
      /\ q # <<>> /\ Head(q) = Sentinel /\ queue' = [queue EXCEPT ![j] = r]
      /\ UNCHANGED <<open, sessions, waiting, stored>>
      /\ jobs[j].storage = "saving"
  BY DEF TakesSentinel, Storing
<1> HIDE DEF job
<1>3. q \in Seq(Row \cup {Sentinel})
  BY RunnerTyped
<1>4. Staged(jobs[j], q)
  BY RunnerTyped
<1> HIDE DEF q
<1>5. 1 \in DOMAIN q /\ q[1] = Sentinel /\ Len(q) \in Nat
  BY <1>2, <1>3
<1>6. Len(q) = 1 /\ jobs[j].phase = "ended"
  BY <1>4, <1>5 DEF Staged
<1>7. r = <<>>
  <2>1. r \in Seq(Row \cup {Sentinel}) /\ Len(r) = 0
    BY <1>2, <1>3, <1>6
  <2> QED
    BY <2>1, EmptySeq
<1> HIDE DEF r
<1>8. Staged(job, r)
  BY <1>1, <1>6, <1>7 DEF Staged
<1>9. Ordered(job, r, stored[j])
  BY <1>1, <1>7, RunnerTyped DEF Ordered
<1>10. /\ \A k \in Job : k # j => jobs'[k] = jobs[k]
       /\ waiting \in Seq(Job)
  BY <1>2 DEF IInv, TypeOK, Job
<1>11. \A i \in DOMAIN waiting : waiting[i] \in Job /\ waiting[i] # j
  BY <1>2, <1>10 DEF IInv, InLine
<1>12. InLine'
  BY <1>2, <1>10, <1>11 DEF IInv, InLine
<1>13. r \in Seq(Row \cup {Sentinel})
  BY <1>7
<1> QED
  BY <1>1, <1>2, <1>8, <1>9, <1>10, <1>12, <1>13, RunnerTyped, OneRunner

-----------------------------------------------------------------------------
(* The handlers, which only cancel jobs and submit new ones *)

\* The table names runners of the right client.
TableTyped ==
  /\ open \subseteq Conn
  /\ DOMAIN sessions \subseteq Client
  /\ sessions \in [DOMAIN sessions -> Entry]
  /\ \A c \in DOMAIN sessions :
       sessions[c].job # NoJob =>
         sessions[c].job \in Job /\ jobs[sessions[c].job].client = c

LEMMA CancelledTyped ==
  ASSUME IInv, NEW entry \in Entry
  PROVE  /\ Cancelled(entry) \in Seq(JobRec)
         /\ Len(Cancelled(entry)) = Len(jobs)
         /\ \A j \in Job :
              /\ Cancelled(entry)[j].client = jobs[j].client
              /\ Cancelled(entry)[j].phase = jobs[j].phase
              /\ Cancelled(entry)[j].rows = jobs[j].rows
              /\ Cancelled(entry)[j].storage = jobs[j].storage
<1>1. ASSUME NEW j \in Job
      PROVE  /\ Cancelled(entry)[j] = [jobs[j] EXCEPT !.cancelled = @ \/ j = entry.job]
             /\ jobs[j] \in JobRec
  BY RunnerTyped DEF Cancelled
<1>2. ASSUME NEW j \in Job
      PROVE  /\ Cancelled(entry)[j] \in JobRec
             /\ Cancelled(entry)[j].client = jobs[j].client
             /\ Cancelled(entry)[j].phase = jobs[j].phase
             /\ Cancelled(entry)[j].rows = jobs[j].rows
             /\ Cancelled(entry)[j].storage = jobs[j].storage
  <2> DEFINE b == jobs[j].cancelled \/ j = entry.job
  <2>1. b \in BOOLEAN
    OBVIOUS
  <2>2. Cancelled(entry)[j] = [jobs[j] EXCEPT !.cancelled = b]
    BY <1>1
  <2> HIDE DEF b
  <2> QED
    BY <1>1, <2>1, <2>2 DEF JobRec
<1>3. Len(jobs) \in Nat
  BY DEF IInv, TypeOK
<1>4. Cancelled(entry) \in [1..Len(jobs) -> JobRec]
  BY <1>2 DEF Cancelled, Job
<1>5. Cancelled(entry) \in Seq(JobRec) /\ Len(Cancelled(entry)) = Len(jobs)
  BY <1>3, <1>4, IsASeq, LenProperties
<1> QED
  BY <1>2, <1>5

\* Cancelling changes nothing that the runners' invariant speaks of.
LEMMA JobsAlike ==
  ASSUME IInv, TableTyped', UNCHANGED <<waiting, queue, stored>>,
         jobs' \in Seq(JobRec), Len(jobs') = Len(jobs),
         \A j \in Job : /\ jobs'[j].client = jobs[j].client
                        /\ jobs'[j].phase = jobs[j].phase
                        /\ jobs'[j].rows = jobs[j].rows
                        /\ jobs'[j].storage = jobs[j].storage
  PROVE  IInv'
<1>1. Job' = Job
  BY DEF Job
<1>2. TypeOK'
  BY <1>1 DEF IInv, TypeOK, TableTyped
<1>3. InLine'
  <2>1. \A i \in DOMAIN waiting : waiting[i] \in Job
    BY DEF IInv, TypeOK
  <2> QED
    BY <2>1 DEF IInv, InLine
<1>4. ASSUME NEW j \in Job
      PROVE  Staged(jobs'[j], queue'[j]) /\ Ordered(jobs'[j], queue'[j], stored'[j])
  <2>1. Staged(jobs'[j], queue[j])
    BY RunnerTyped DEF Staged
  <2>2. Ordered(jobs'[j], queue[j], stored[j])
    BY RunnerTyped DEF Ordered
  <2> QED
    BY <2>1, <2>2
<1>5. \A j \in Job' :
        Staged(jobs[j], queue[j])' /\ Ordered(jobs[j], queue[j], stored[j])'
  BY <1>1, <1>4 DEF Staged, Ordered
<1> QED
  BY <1>2, <1>3, <1>5 DEF IInv

LEMMA ConnectInv ==
  ASSUME IInv, NEW x \in Conn, Connect(x)
  PROVE  IInv'
<1>1. ClientOf[x] \in Client
  BY ReidServerAssumption
<1>2. TableTyped'
  BY <1>1 DEF Connect, WithEntry, IInv, TypeOK, TableTyped, Entry, NoJob, Job
<1> QED
  BY <1>2, JobsAlike DEF Connect, IInv, TypeOK

LEMMA FailsInv ==
  ASSUME IInv, NEW x \in Conn, Fails(x)
  PROVE  IInv'
<1>1. TableTyped'
  BY DEF Fails, IInv, TypeOK, TableTyped, Job
<1> QED
  BY <1>1, JobsAlike DEF Fails, IInv, TypeOK

LEMMA StopStreamInv ==
  ASSUME IInv, NEW x \in Conn, StopStream(x)
  PROVE  IInv'
<1> DEFINE c == ClientOf[x]
<1>1. c \in DOMAIN sessions /\ sessions[c] \in Entry
  BY DEF StopStream, IInv, TypeOK
<1>2. /\ jobs' = Cancelled(sessions[c])
      /\ sessions' = [sessions EXCEPT ![c].streaming = FALSE]
      /\ UNCHANGED <<open, waiting, queue, stored>>
  BY DEF StopStream
<1> HIDE DEF c
<1>3. /\ jobs' \in Seq(JobRec) /\ Len(jobs') = Len(jobs)
      /\ \A j \in Job : /\ jobs'[j].client = jobs[j].client
                        /\ jobs'[j].phase = jobs[j].phase
                        /\ jobs'[j].rows = jobs[j].rows
                        /\ jobs'[j].storage = jobs[j].storage
  BY <1>1, <1>2, CancelledTyped
<1>4. TableTyped'
  <2>1. Job' = Job
    BY <1>3 DEF Job
  <2>2. /\ DOMAIN sessions' = DOMAIN sessions
        /\ sessions' \in [DOMAIN sessions -> Entry]
        /\ \A d \in DOMAIN sessions : sessions'[d].job = sessions[d].job
    BY <1>1, <1>2 DEF IInv, TypeOK, Entry
  <2>3. \A d \in DOMAIN sessions :
          sessions[d].job # NoJob =>
            sessions[d].job \in Job /\ jobs'[sessions[d].job].client = d
    BY <1>3 DEF IInv, TypeOK
  <2>4. /\ open' \subseteq Conn /\ DOMAIN sessions' \subseteq Client
        /\ sessions' \in [DOMAIN sessions' -> Entry]
    BY <1>2, <2>2 DEF IInv, TypeOK
  <2>5. \A d \in DOMAIN sessions' :
          sessions'[d].job # NoJob =>
            sessions'[d].job \in Job' /\ jobs'[sessions'[d].job].client = d
    BY <2>1, <2>2, <2>3
  <2> QED
    BY <2>4, <2>5 DEF TableTyped
<1> QED
  BY <1>2, <1>3, <1>4, JobsAlike

LEMMA LeaveInv ==
  ASSUME IInv, NEW x \in Conn, Leave(x)
  PROVE  IInv'
<1> DEFINE c == ClientOf[x]
<1>1. c \in DOMAIN sessions /\ sessions[c] \in Entry
  BY DEF Leave, IInv, TypeOK
<1>2. /\ jobs' = Cancelled(sessions[c])
      /\ open' = open \ {x}
      /\ sessions' = [d \in DOMAIN sessions \ {c} |-> sessions[d]]
      /\ UNCHANGED <<waiting, queue, stored>>
  BY DEF Leave
<1> HIDE DEF c
<1>3. /\ jobs' \in Seq(JobRec) /\ Len(jobs') = Len(jobs)
      /\ \A j \in Job : /\ jobs'[j].client = jobs[j].client
                        /\ jobs'[j].phase = jobs[j].phase
                        /\ jobs'[j].rows = jobs[j].rows
                        /\ jobs'[j].storage = jobs[j].storage
  BY <1>1, <1>2, CancelledTyped
<1>4. TableTyped'
  <2>1. Job' = Job
    BY <1>3 DEF Job
  <2>2. \A d \in DOMAIN sessions :
          sessions[d].job # NoJob =>
            sessions[d].job \in Job /\ jobs'[sessions[d].job].client = d
    BY <1>3 DEF IInv, TypeOK
  <2>3. /\ DOMAIN sessions' = DOMAIN sessions \ {c}
        /\ \A d \in DOMAIN sessions' : sessions'[d] = sessions[d]
    BY <1>2
  <2>4. /\ open' \subseteq Conn /\ DOMAIN sessions' \subseteq Client
        /\ sessions' \in [DOMAIN sessions' -> Entry]
    BY <1>2, <2>3 DEF IInv, TypeOK
  <2>5. \A d \in DOMAIN sessions' :
          sessions'[d].job # NoJob =>
            sessions'[d].job \in Job' /\ jobs'[sessions'[d].job].client = d
    BY <2>1, <2>2, <2>3
  <2> QED
    BY <2>4, <2>5 DEF TableTyped
<1> QED
  BY <1>2, <1>3, <1>4, JobsAlike

LEMMA StartStreamInv ==
  ASSUME IInv, NEW x \in Conn, StartStream(x)
  PROVE  IInv'
<1> DEFINE c == ClientOf[x]
           before == IF Streaming(c) THEN Cancelled(sessions[c]) ELSE jobs
           new == Len(jobs) + 1
<1>1. c \in Client /\ c \in DOMAIN sessions /\ sessions[c] \in Entry
  BY ReidServerAssumption DEF StartStream, IInv, TypeOK
<1>0. PICK r \in Requests : jobs' = Append(before, NewJob(c, r))
  BY DEF StartStream
<1> DEFINE job == NewJob(c, r)
<1>2. /\ jobs' = Append(before, job)
      /\ queue' = Append(queue, <<>>)
      /\ stored' = Append(stored, <<>>)
      /\ sessions' = [sessions EXCEPT ![c] = [streaming |-> TRUE, job |-> new]]
      /\ UNCHANGED <<open, waiting>>
  BY <1>0 DEF StartStream
<1>3. /\ before \in Seq(JobRec) /\ Len(before) = Len(jobs)
      /\ \A j \in Job : /\ before[j].client = jobs[j].client
                        /\ before[j].phase = jobs[j].phase
                        /\ before[j].rows = jobs[j].rows
                        /\ before[j].storage = jobs[j].storage
  <2>1. CASE Streaming(c)
    BY <2>1, <1>1, CancelledTyped
  <2>2. CASE ~Streaming(c)
    BY <2>2 DEF IInv, TypeOK
  <2> QED
    BY <2>1, <2>2
<1> HIDE DEF c, before
<1>4. /\ job \in JobRec /\ job.client = c
      /\ job.phase = "queued" /\ job.storage = "none"
      /\ job.rows = 0
  BY <1>1, ReidServerAssumption DEF NewJob, JobRec, Phase
<1> HIDE DEF job
<1>5. /\ Len(jobs) \in Nat /\ Len(queue) = Len(jobs) /\ Len(stored) = Len(jobs)
      /\ queue \in Seq(Seq(Row \cup {Sentinel})) /\ stored \in Seq(Seq(Row))
  BY DEF IInv, TypeOK
<1>6. /\ jobs' \in Seq(JobRec) /\ Len(jobs') = new /\ jobs'[new] = job
      /\ \A j \in 1..Len(jobs) : jobs'[j] = before[j]
  BY <1>2, <1>3, <1>4
<1>7. /\ queue' \in Seq(Seq(Row \cup {Sentinel})) /\ Len(queue') = new
      /\ queue'[new] = <<>>
      /\ \A j \in 1..Len(jobs) : queue'[j] = queue[j]
  BY <1>2, <1>5
<1>8. /\ stored' \in Seq(Seq(Row)) /\ Len(stored') = new
      /\ stored'[new] = <<>>
      /\ \A j \in 1..Len(jobs) : stored'[j] = stored[j]
  <2>1. <<>> \in Seq(Row)
    OBVIOUS
  <2>2. stored' \in Seq(Seq(Row))
    BY <2>1, <1>2, <1>5
  <2> QED
    BY <2>1, <2>2, <1>2, <1>5, AppendProperties
<1>9. new \in Nat \ {0} /\ Job' = Job \cup {new} /\ new \notin Job /\ Job = 1..Len(jobs)
  BY <1>5, <1>6 DEF Job
<1> HIDE DEF new
<1>10. waiting \in Seq(Job) /\ waiting' = waiting /\ waiting' \in Seq(Job')
  <2>1. waiting \in Seq(Job) /\ Job \subseteq Job'
    BY <1>9 DEF IInv, TypeOK
  <2> QED
    BY <2>1, <1>2, SeqMonotonic
<1>11. \A j \in Job : /\ jobs'[j].client = jobs[j].client
                      /\ jobs'[j].phase = jobs[j].phase
                      /\ jobs'[j].rows = jobs[j].rows
                      /\ jobs'[j].storage = jobs[j].storage
  BY <1>3, <1>6, <1>9
<1>12. InLine'
  <2>1. \A i \in DOMAIN waiting : waiting[i] \in Job
    BY <1>10
  <2> QED
    BY <2>1, <1>10, <1>11 DEF IInv, InLine
<1>13. ASSUME NEW j \in Job'
       PROVE  Staged(jobs'[j], queue'[j]) /\ Ordered(jobs'[j], queue'[j], stored'[j])
  <2>1. CASE j = new
    <3>1. Staged(job, <<>>)
      BY <1>4 DEF Staged
    <3>2. Ordered(job, <<>>, <<>>)
      BY DEF Ordered
    <3> QED
      BY <2>1, <3>1, <3>2, <1>6, <1>7, <1>8
  <2>2. CASE j \in Job
    <3>1. Staged(jobs'[j], queue[j])
      BY <2>2, <1>11, RunnerTyped DEF Staged
    <3>2. Ordered(jobs'[j], queue[j], stored[j])
      BY <2>2, <1>11, RunnerTyped DEF Ordered
    <3> QED
      BY <2>2, <3>1, <3>2, <1>7, <1>8, <1>9
  <2> QED
    BY <2>1, <2>2, <1>9
<1>14. \A j \in Job' :
         Staged(jobs[j], queue[j])' /\ Ordered(jobs[j], queue[j], stored[j])'
  BY <1>13 DEF Staged, Ordered
<1>15. /\ DOMAIN sessions' = DOMAIN sessions
       /\ sessions' \in [DOMAIN sessions -> Entry]
       /\ sessions'[c].job = new
       /\ \A d \in DOMAIN sessions : d # c => sessions'[d] = sessions[d]
  BY <1>1, <1>2, <1>9 DEF IInv, TypeOK, Entry
<1>16. \A d \in DOMAIN sessions' :
         sessions'[d].job # NoJob =>
           sessions'[d].job \in Job' /\ jobs'[sessions'[d].job].client = d
  <2>1. \A d \in DOMAIN sessions :
          sessions[d].job # NoJob =>
            sessions[d].job \in Job /\ jobs'[sessions[d].job].client = d
    BY <1>11 DEF IInv, TypeOK
  <2> QED
    BY <2>1, <1>4, <1>6, <1>9, <1>15
<1>17. TypeOK'
  <2>1. /\ open' \subseteq Conn /\ DOMAIN sessions' \subseteq Client
        /\ sessions' \in [DOMAIN sessions' -> Entry]
    BY <1>2, <1>15 DEF IInv, TypeOK
  <2>2. Len(queue') = Len(jobs') /\ Len(stored') = Len(jobs')
    BY <1>6, <1>7, <1>8
  <2> QED
    BY <2>1, <2>2, <1>6, <1>7, <1>8, <1>10, <1>16 DEF TypeOK
<1> QED
  BY <1>12, <1>14, <1>17 DEF IInv

-----------------------------------------------------------------------------
LEMMA RunnerInv ==
  ASSUME IInv, NEW j \in Job, Runner(j)
  PROVE  IInv'
<1>1. CASE SetUp(j)
  BY <1>1, SetUpInv
<1>2. CASE SetUpFails(j)
  BY <1>2, Proceeds DEF SetUpFails, Phase
<1>3. CASE CycleBegins(j)
  <2>1. jobs[j].phase = "loop" /\ jobs[j].rows < MaxRows /\ Moves(j, "cycle")
    BY <1>3 DEF CycleBegins
  <2>2. jobs[j].storage # "none"
    BY <2>1, RunnerTyped DEF Staged
  <2> QED
    BY <2>1, <2>2, Proceeds DEF Phase
<1>4. CASE CycleEnds(j)
  BY <1>4, CycleEndsInv
<1>5. CASE LeavesLoop(j)
  <2>1. jobs[j].phase \in {"loop", "cycle"} /\ Moves(j, "closing")
    BY <1>5 DEF LeavesLoop
  <2>2. jobs[j].storage # "none"
    BY <2>1, RunnerTyped DEF Staged
  <2> QED
    BY <2>1, <2>2, Proceeds DEF Phase
<1>6. CASE StopsCaptures(j)
  BY <1>6, StopsCapturesInv
<1>7. CASE PutsSentinel(j)
  BY <1>7, PutsSentinelInv
<1> QED
  BY <1>1, <1>2, <1>3, <1>4, <1>5, <1>6, <1>7 DEF Runner

LEMMA PoolInv ==
  ASSUME IInv, NEW j \in Job, Dropped(j) \/ Begins(j)
  PROVE  IInv'
<1>1. jobs[j].phase = "queued"
  BY DEF Dropped, Begins, Queued
<1>2. CASE Dropped(j)
  BY <1>1, <1>2, Proceeds DEF Dropped, Phase
<1>3. CASE Begins(j)
  BY <1>1, <1>3, Proceeds DEF Begins, Phase
<1> QED
  BY <1>2, <1>3

LEMMA StepInv == IInv /\ [Next]_vars => IInv'
<1> SUFFICES ASSUME IInv, [Next]_vars PROVE IInv'
  OBVIOUS
<1>1. ASSUME NEW x \in Conn,
             Connect(x) \/ StartStream(x) \/ StopStream(x) \/ Leave(x) \/ Fails(x)
      PROVE  IInv'
  BY <1>1, ConnectInv, StartStreamInv, StopStreamInv, LeaveInv, FailsInv
<1>2. ASSUME NEW j \in Job, Dropped(j) \/ Begins(j)
      PROVE  IInv'
  BY <1>2, PoolInv
<1>3. ASSUME NEW j \in Job, Runner(j)
      PROVE  IInv'
  BY <1>3, RunnerInv
<1>4. ASSUME NEW j \in Job, StorageWorker(j)
      PROVE  IInv'
  BY <1>4, StorageBeginsInv, TakesRowInv, TakesSentinelInv DEF StorageWorker
<1>5. CASE UNCHANGED vars
  <2>1. TableTyped'
    BY <1>5 DEF vars, IInv, TypeOK, TableTyped, Job
  <2> QED
    BY <1>5, <2>1, JobsAlike DEF vars, IInv, TypeOK
<1> QED
  BY <1>1, <1>2, <1>3, <1>4, <1>5 DEF Next

LEMMA InvCorrect == Spec => []IInv
  BY InitInv, StepInv, PTL DEF Spec

\* Every variable keeps its shape, and a table entry's future is a runner of
\* that client id.
THEOREM TypeCorrect == Spec => []TypeOK
<1>1. IInv => TypeOK
  BY DEF IInv
<1> QED
  BY <1>1, InvCorrect, PTL

\* Once a runner is gone its sentinel stands behind every row, so that the
\* storage worker can come to its end.
THEOREM StorageCanEndCorrect == Spec => []StorageCanEnd
<1>1. ASSUME IInv PROVE StorageCanEnd
  <2> SUFFICES ASSUME NEW j \in Job
               PROVE
                 /\ \A i \in 1..Len(queue[j]) :
                      queue[j][i] = Sentinel => i = Len(queue[j])
                 /\ jobs[j].storage \in {"waiting", "saving"} =>
                      (jobs[j].phase = "ended" <=>
                         Len(queue[j]) > 0 /\ queue[j][Len(queue[j])] = Sentinel)
    BY DEF StorageCanEnd
  <2>1. DOMAIN queue[j] = 1..Len(queue[j]) /\ Len(queue[j]) \in Nat
    BY <1>1, RunnerTyped
  <2>2. Staged(jobs[j], queue[j])
    BY <1>1, RunnerTyped
  <2> QED
    BY <2>1, <2>2 DEF Staged
<1> QED
  BY <1>1, InvCorrect, PTL

\* The rows of a runner are saved in the order of its cycles, none twice.
THEOREM RowsInOrderCorrect == Spec => []RowsInOrder
<1>1. ASSUME IInv PROVE RowsInOrder
  BY <1>1, RunnerTyped DEF RowsInOrder, Ordered
<1> QED
  BY <1>1, InvCorrect, PTL

=============================================================================
