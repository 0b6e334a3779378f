--------------------------- MODULE TrainingProofs ---------------------------
(***************************************************************************)
(* Proofs about a training job: the types and bounds of its counters, what *)
(* the files it leaves behind are worth, what model_best holds, and that a *)
(* job that dies and resumes stays on the course of an uninterrupted one.  *)
(***************************************************************************)
EXTENDS Training, FiniteSetTheorems, SequenceTheorems, TLAPS

-----------------------------------------------------------------------------
(* The inductive invariant *)

\* Inside an epoch, and behind its iterations.
Ongoing   == {"step", "schedule", "evaluate", "checkpoint", "save", "leaving"}
EpochOver == Ongoing \ {"step"}

\* Nothing has happened in this start.
Fresh ==
  /\ epoch = 0 /\ iter = 0 /\ weights = Untrained /\ frozenSteps = 0
  /\ layers = "open" /\ warm = 0 /\ sched = 0
  /\ metric = Unmeasured /\ best = -1 /\ saves = <<>> /\ stage = "open"
  /\ top = -1

\* The file an epoch ends with, if it ends with one.
Target == IF LastEpoch THEN Final ELSE epoch

\* The saves under way are the end of <<Best, Target>>.
Saving ==
  /\ saves \in {<<>>, <<Target>>, <<Best, Target>>}
  /\ saves # <<>> /\ ~LastEpoch => Periodic
  /\ saves = <<>> => stage = "open"

\* What n iterations can have counted, updates and steps of warm-up.
Counted(w, k, n) ==
  w.head <= n /\ w.backbone <= n /\ w.stats <= n /\ k <= n

\* Where the counters are when the process is at pc.
Placed ==
  /\ pc \in {"down", "building"} => Fresh
  /\ pc \in Ongoing =>
       /\ epoch < cfg.maxEpoch
       /\ Counted(weights, warm, iter) /\ frozenSteps <= iter
  /\ pc \in {"step", "schedule"} => sched <= epoch
  /\ pc \in EpochOver =>
       iter = (epoch + 1) * cfg.itersPerEpoch /\ sched <= epoch + 1
  /\ pc = "step" => /\ epoch * cfg.itersPerEpoch <= iter
                    /\ iter < (epoch + 1) * cfg.itersPerEpoch
  /\ pc \in Ongoing \ {"save"} => saves = <<>> /\ stage = "open"
  /\ pc = "save" => Saving

\* What a checkpoint can hold.
Filed ==
  \A n \in DOMAIN files : Whole(n) =>
    LET c == files[n][1] IN
    /\ Counted(c.weights, c.warm, (c.epoch + 1) * cfg.itersPerEpoch)
    /\ c.sched <= c.epoch + 1
    /\ n >= 0 => c.epoch = n
    /\ n = Final => c.epoch = cfg.maxEpoch - 1

Shape == TypeOK /\ Placed /\ Filed

\* The file last_checkpoint names inside an epoch: one of an earlier epoch, the
\* model_best the job was resumed from, or what this epoch has saved so far.
Tagged ==
  pc \in Ongoing /\ tag \in Names =>
    \/ tag >= 0 /\ tag < epoch
    \/ tag = Best /\ resumed = Best
    \/ tag = Best /\ pc = "save" /\ saves = <<Target>>
    \/ tag = Target /\ pc \in {"save", "leaving"} /\ saves = <<>>

\* The file that is named loads, and holds the newest epoch or a later one.
Holds(n) == Whole(n) /\ files[n][1].epoch >= newest
Named ==
  /\ tag \in Names => Holds(tag) \/ Overwriting
  /\ tag = TornTag => \E n \in DOMAIN files : Holds(n)
  /\ tag = NoTag => newest = -1
  /\ pc \in Ongoing => newest <= epoch
  /\ pc \in Ongoing /\ tag = TornTag => pc = "save" /\ stage = "tag"
  /\ pc = "save" /\ stage \in {"untag", "tag"} =>
       Whole(Head(saves)) /\ files[Head(saves)][1].epoch = epoch

\* model_best holds the metric v, unless nothing has been saved.
Bests(v) == v >= 0 => Whole(Best) /\ files[Best][1].metric.value = v
Topped ==
  /\ pc \in Ongoing =>
       \/ Bests(top)
       \/ pc = "save" /\ saves # <<>> /\ Head(saves) = Best /\ stage = "write"
  /\ pc \in Ongoing =>
       \/ top = best
       \/ pc \in {"save", "leaving"} /\ LastEpoch
       \/ /\ pc = "save" /\ saves # <<>> /\ Head(saves) = Best
          /\ stage \in {"untag", "tag"}
  /\ pc = "save" /\ saves # <<>> =>
       IF Head(saves) # Best THEN metric.value <= top
       ELSE IF stage \in {"open", "write"} THEN metric.value > top
       ELSE metric.value = top

\* An epoch that is due for it has been measured when it is saved.
Measured ==
  /\ pc \in {"checkpoint", "save"} /\ EvaluationDue => metric.epoch = epoch
  /\ cfg.evalPeriod > 0 /\ Divides(cfg.evalPeriod, cfg.checkpointPeriod) =>
       \A n \in DOMAIN files : n >= 0 /\ Whole(n) =>
         files[n][1].metric.epoch = n

\* The counters of the process, with the epoch in place of the quotient.
Now == [weights |-> weights, warm |-> warm]
InMemory ==
  /\ pc \in Ongoing => Trained(Now, iter)
  /\ pc \in {"step", "schedule"} => sched = Cardinality(Scheduled(epoch))
  /\ pc \in EpochOver \ {"schedule"} =>
       sched = Cardinality(Scheduled(epoch + 1))
  /\ pc \in Ongoing /\ layers = "stirred"
       /\ cfg.freezeIters <= cfg.evalPeriod * cfg.itersPerEpoch =>
       iter >= cfg.freezeIters

\* And the files.
OnDisk ==
  \A n \in DOMAIN files : Whole(n) =>
    LET c == files[n][1] IN
    /\ Trained(c, (c.epoch + 1) * cfg.itersPerEpoch)
    /\ c.sched = Cardinality(Scheduled(c.epoch + 1))

-----------------------------------------------------------------------------
(* Arithmetic, and the maxima and minima of two numbers *)

\* A product grows with its factors.
LEMMA ProductGrows ==
  ASSUME NEW a \in Nat, NEW b \in Nat, NEW c \in Nat, a <= b
  PROVE  a * c <= b * c
<1> DEFINE d == b - a
<1>1. d \in Nat /\ b = a + d
  OBVIOUS
<1> HIDE DEF d
<1>2. d * c \in Nat
  BY <1>1
<1>3. b * c = a * c + d * c
  BY <1>1
<1>4. a * c \in Nat /\ b * c \in Nat
  OBVIOUS
<1> QED
  BY <1>2, <1>3, <1>4

\* A number in the e-th block of size n has the quotient e.
LEMMA Quotient ==
  ASSUME NEW n \in Nat \ {0}, NEW e \in Nat, NEW i \in Nat,
         e * n <= i, i < (e + 1) * n
  PROVE  i \div n = e
<1> DEFINE q == i \div n
<1>1. q \in Nat /\ q * n <= i /\ i < (q + 1) * n
  OBVIOUS
<1> HIDE DEF q
<1>2. ~ q + 1 <= e
  BY <1>1, ProductGrows
<1>3. ~ e + 1 <= q
  BY <1>1, ProductGrows
<1> QED
  BY <1>1, <1>2, <1>3 DEF q

\* A multiple of k that is positive is no less than k.
LEMMA MultipleNotLess ==
  ASSUME NEW k \in Nat \ {0}, NEW n \in Nat \ {0}, n % k = 0
  PROVE  k <= n
  OBVIOUS

\* What b divides, a divides when a divides b.
LEMMA DividesTransitive ==
  ASSUME NEW a \in Nat \ {0}, NEW b \in Nat \ {0}, NEW n \in Nat,
         b % a = 0, n % b = 0
  PROVE  n % a = 0
<1> DEFINE q == n \div b
           r == b \div a
<1>1. q \in Nat /\ n = b * q
  OBVIOUS
<1>2. r \in Nat /\ b = a * r
  OBVIOUS
<1> HIDE DEF q, r
<1> DEFINE m == r * q
<1>3. m \in Nat /\ n = m * a
  BY <1>1, <1>2
<1> HIDE DEF m
<1>4. m * a <= n /\ n < (m + 1) * a
  BY <1>3
<1>5. n \div a = m
  BY <1>3, <1>4, Quotient
<1>6. n = a * (n \div a) + (n % a)
  OBVIOUS
<1> QED
  BY <1>3, <1>5, <1>6

LEMMA MaxOfTwo ==
  ASSUME NEW a \in Int, NEW b \in Int
  PROVE  Max({a, b}) = IF a >= b THEN a ELSE b
  BY DEF Max

LEMMA MinOfTwo ==
  ASSUME NEW a \in Int, NEW b \in Int
  PROVE  Min({a, b}) = IF a <= b THEN a ELSE b
  BY DEF Min

-----------------------------------------------------------------------------
(* Configurations, files, and the steps that go nowhere *)

LEMMA ConfigTypes ==
  ASSUME cfg \in Configs
  PROVE  /\ cfg.maxEpoch \in Nat \ {0} /\ cfg.itersPerEpoch \in Nat \ {0}
         /\ cfg.warmupIters \in Nat /\ cfg.delayEpochs \in Nat
         /\ cfg.freezeIters \in Nat /\ cfg.checkpointPeriod \in Nat \ {0}
         /\ cfg.evalPeriod \in Nat /\ cfg.amp \in BOOLEAN
  BY TrainingAssumption DEF Config

LEMMA SameSets ==
  ASSUME cfg' = cfg
  PROVE  /\ Names' = Names /\ Iterations' = Iterations /\ Weights' = Weights
         /\ Metrics' = Metrics /\ Checkpoints' = Checkpoints
  BY DEF Names, Iterations, Weights, Metrics, Checkpoints

\* Opening a file loses what it held and nothing else.
LEMMA FileOpened ==
  ASSUME NEW n, Put(n, <<>>)
  PROVE  /\ DOMAIN files' = DOMAIN files \cup {n}
         /\ \A m : Whole(m)' <=> Whole(m) /\ m # n
         /\ \A m : Whole(m)' => files'[m] = files[m]
         /\ \A m \in DOMAIN files' :
              files'[m] = <<>> \/ (m \in DOMAIN files /\ files'[m] = files[m])
  BY DEF Put, Whole

\* Writing a file makes it whole and leaves the others alone.
LEMMA FileWritten ==
  ASSUME NEW n, NEW r, Put(n, <<r>>)
  PROVE  /\ DOMAIN files' = DOMAIN files \cup {n}
         /\ Whole(n)' /\ files'[n] = <<r>> /\ files'[n][1] = r
         /\ \A m : m # n =>
              /\ Whole(m)' <=> Whole(m)
              /\ Whole(m)' => files'[m] = files[m]
         /\ \A m \in DOMAIN files' :
              m # n => m \in DOMAIN files /\ files'[m] = files[m]
<1>1. DOMAIN files' = DOMAIN files \cup {n} /\ files'[n] = <<r>>
  BY DEF Put
<1>2. <<r>> # <<>> /\ <<r>>[1] = r
  OBVIOUS
<1>3. \A m \in DOMAIN files : m # n => files'[m] = files[m]
  BY DEF Put
<1> QED
  BY <1>1, <1>2, <1>3 DEF Whole

\* Leaving, failing, hanging and loading.
QuietStep ==
  /\ cfg' = cfg /\ starts' = starts
  /\ UNCHANGED <<loop, metric, best, saves, stage, disk, resumed>>
  /\ pc' = pc \/ pc' \in {"failing", "hung", "raised", "finished"}
  /\ loader' \in [alive : BOOLEAN, queue : 0..MaxPrefetch]

LEMMA QuietSteps ==
  ASSUME TypeOK,
         \/ Fails \/ EvaluationHangs \/ LoaderPuts \/ LoaderDies \/ AfterTrain
         \/ UNCHANGED vars
  PROVE  QuietStep
<1>1. loader \in [alive : BOOLEAN, queue : 0..MaxPrefetch]
  BY DEF TypeOK
<1>2. CASE Fails \/ EvaluationHangs \/ AfterTrain \/ UNCHANGED vars
  BY <1>1, <1>2 DEF QuietStep, Fails, EvaluationHangs, AfterTrain, vars, job
<1>3. CASE LoaderPuts
  <2>1. [loader EXCEPT !.queue = @ + 1]
          \in [alive : BOOLEAN, queue : 0..MaxPrefetch]
    BY <1>1, <1>3, TrainingAssumption DEF LoaderPuts
  <2> QED
    BY <2>1, <1>3 DEF QuietStep, LoaderPuts, job
<1>4. CASE LoaderDies
  BY <1>1, <1>4 DEF QuietStep, LoaderDies, job
<1> QED
  BY <1>2, <1>3, <1>4

\* Starting and dying.
ForgetStep ==
  /\ Forgotten /\ pc' \in {"down", "building"} /\ starts' \in 0..MaxStarts
  /\ UNCHANGED <<cfg, files, tag, newest, resumed>>

LEMMA ForgetSteps ==
  ASSUME TypeOK, Launch \/ Crash
  PROVE  ForgetStep
  BY TrainingAssumption DEF ForgetStep, Launch, Crash, TypeOK, job

\* Handing out a batch keeps the queue within its bound.
LEMMA BatchTaken ==
  ASSUME TypeOK, NextBatch
  PROVE  loader' \in [alive : BOOLEAN, queue : 0..MaxPrefetch]
<1>1. loader \in [alive : BOOLEAN, queue : 0..MaxPrefetch]
  BY DEF TypeOK
<1> QED
  BY <1>1, TrainingAssumption DEF NextBatch

-----------------------------------------------------------------------------
(* Types and bounds *)

\* The iterations of the first e epochs are iterations of the job.
LEMMA EpochIterations ==
  ASSUME cfg \in Configs, NEW e \in Nat, e <= cfg.maxEpoch
  PROVE  /\ e * cfg.itersPerEpoch \in Nat
         /\ e * cfg.itersPerEpoch <= cfg.maxEpoch * cfg.itersPerEpoch
         /\ \A n \in Nat : n <= e * cfg.itersPerEpoch => n \in Iterations
<1>1. cfg.maxEpoch \in Nat /\ cfg.itersPerEpoch \in Nat
  BY ConfigTypes
<1>2. e * cfg.itersPerEpoch <= cfg.maxEpoch * cfg.itersPerEpoch
  BY <1>1, ProductGrows
<1>3. e * cfg.itersPerEpoch \in Nat
      /\ cfg.maxEpoch * cfg.itersPerEpoch \in Nat
  BY <1>1
<1>4. Iterations = 0..cfg.maxEpoch * cfg.itersPerEpoch
  BY DEF Iterations
<1> HIDE DEF Iterations
<1> QED
  BY <1>2, <1>3, <1>4

\* One epoch more is that many iterations more.
LEMMA NextEpoch ==
  ASSUME cfg \in Configs, NEW e \in Nat
  PROVE  /\ (e + 1) * cfg.itersPerEpoch
              = e * cfg.itersPerEpoch + cfg.itersPerEpoch
         /\ e * cfg.itersPerEpoch \in Nat
         /\ e * cfg.itersPerEpoch < (e + 1) * cfg.itersPerEpoch
<1>1. cfg.itersPerEpoch \in Nat \ {0}
  BY ConfigTypes
<1> QED
  BY <1>1

LEMMA FiledSame ==
  ASSUME Filed, cfg' = cfg, files' = files
  PROVE  Filed'
  BY DEF Filed, Whole, Counted

LEMMA ShapeQuiet ==
  ASSUME Shape, QuietStep
  PROVE  Shape'
<1>1. TypeOK'
  <2>1. Names' = Names /\ Iterations' = Iterations /\ Weights' = Weights
        /\ Metrics' = Metrics /\ Checkpoints' = Checkpoints
    BY SameSets DEF QuietStep
  <2> QED
    BY <2>1 DEF Shape, TypeOK, QuietStep, loop, disk
<1>2. Placed'
  BY DEF Shape, Placed, Saving, Fresh, QuietStep, Counted, Target, LastEpoch,
         Periodic, Divides, loop, disk, Ongoing, EpochOver
<1>3. Filed'
  BY FiledSame DEF Shape, QuietStep, disk
<1> QED
  BY <1>1, <1>2, <1>3 DEF Shape

LEMMA ShapeForget ==
  ASSUME Shape, ForgetStep
  PROVE  Shape'
<1>1. TypeOK'
  <2>1. Names' = Names /\ Iterations' = Iterations /\ Weights' = Weights
        /\ Metrics' = Metrics /\ Checkpoints' = Checkpoints
    BY SameSets DEF ForgetStep
  <2>2. cfg \in Configs
    BY DEF Shape, TypeOK
  <2>3. 0 \in Iterations
    BY <2>2, EpochIterations, ConfigTypes
  <2>4. weights' \in Weights
    BY <2>3 DEF ForgetStep, Forgotten, Untrained, Weights
  <2>5. metric' \in Metrics
    <3>1. -1 \in -1..cfg.maxEpoch - 1
      BY <2>2, ConfigTypes
    <3> QED
      BY <3>1 DEF ForgetStep, Forgotten, Unmeasured, Metrics
  <2>6. loader' \in [alive : BOOLEAN, queue : 0..MaxPrefetch]
    BY TrainingAssumption DEF ForgetStep, Forgotten, NewLoader
  <2>7. /\ epoch' \in 0..cfg.maxEpoch /\ iter' \in Iterations
        /\ frozenSteps' \in 0..cfg.freezeIters
        /\ warm' \in 0..cfg.warmupIters /\ sched' \in 0..cfg.maxEpoch
    BY <2>2, <2>3, ConfigTypes DEF ForgetStep, Forgotten
  <2>8. saves' \in Seq(Names) /\ Len(saves') <= 2
    BY DEF ForgetStep, Forgotten
  <2> QED
    BY <2>1, <2>4, <2>5, <2>6, <2>7, <2>8
       DEF Shape, TypeOK, ForgetStep, Forgotten
<1>2. Placed'
  BY DEF Placed, Fresh, ForgetStep, Forgotten, Ongoing, EpochOver, Untrained,
         Unmeasured
<1>3. Filed'
  BY FiledSame DEF Shape, ForgetStep
<1> QED
  BY <1>1, <1>2, <1>3 DEF Shape

\* A sequence that has at most one element and is not empty.
LEMMA SingleElement ==
  ASSUME NEW S, NEW q \in Seq(S), q # <<>>, Len(q) <= 1
  PROVE  Len(q) = 1 /\ q[1] \in S /\ q = <<q[1]>>
<1>1. Len(q) \in Nat \ {0}
  BY EmptySeq
<1>2. Len(q) = 1
  BY <1>1
<1>3. q[1] \in S /\ q = <<q[1]>>
  BY <1>2
<1> QED
  BY <1>2, <1>3

\* The checkpoint a job resumes from.
LEMMA Loaded ==
  ASSUME TypeOK, NEW n, Whole(n)
  PROVE  /\ n \in DOMAIN files /\ files[n][1] \in Checkpoints
         /\ files[n] = <<files[n][1]>> /\ files[n][1].epoch \in Nat
         /\ files[n][1].epoch + 1 <= cfg.maxEpoch
<1>1. n \in DOMAIN files /\ files[n] # <<>>
  BY DEF Whole
<1>2. files[n] \in Seq(Checkpoints) /\ Len(files[n]) <= 1
  BY <1>1 DEF TypeOK
<1>3. Len(files[n]) = 1 /\ files[n][1] \in Checkpoints
      /\ files[n] = <<files[n][1]>>
  BY <1>1, <1>2, SingleElement
<1>4. files[n][1].epoch \in 0..cfg.maxEpoch - 1
  BY <1>3 DEF Checkpoints
<1>5. cfg.maxEpoch \in Nat
  BY ConfigTypes DEF TypeOK
<1> QED
  BY <1>1, <1>3, <1>4, <1>5

\* Resuming either leaves a start as it is, or takes the state of a checkpoint.
Continues(c) ==
  /\ epoch' = c.epoch + 1 /\ iter' = (c.epoch + 1) * cfg.itersPerEpoch
  /\ weights' = c.weights /\ warm' = c.warm /\ sched' = c.sched
  /\ frozenSteps' = frozenSteps /\ layers' = layers
  /\ pc' = IF c.epoch + 1 < cfg.maxEpoch THEN "step" ELSE "raised"

LEMMA ResumeCases ==
  ASSUME Resume
  PROVE  /\ pc = "building" /\ resumed' = tag
         /\ UNCHANGED <<job, metric, best, saves, stage, disk>>
         /\ \/ tag = NoTag /\ pc' = "step" /\ UNCHANGED loop
            \/ pc' = "raised" /\ UNCHANGED loop
            \/ /\ tag # NoTag /\ tag # TornTag /\ Whole(tag)
               /\ Continues(files[tag][1])
<1>1. CASE tag = NoTag
  BY <1>1 DEF Resume
<1>2. CASE tag # NoTag /\ tag # TornTag /\ Whole(tag)
  <2>1. Continues(files[tag][1])
    BY <1>2 DEF Resume, Continues, EpochAfter
  <2> QED
    BY <1>2, <2>1 DEF Resume
<1>3. CASE tag # NoTag /\ ~(tag # TornTag /\ Whole(tag))
  BY <1>3 DEF Resume
<1> QED
  BY <1>1, <1>2, <1>3

LEMMA ShapeResume ==
  ASSUME Shape, Resume
  PROVE  Shape'
<1>1. /\ cfg \in Configs /\ cfg' = cfg /\ pc = "building" /\ Fresh
      /\ UNCHANGED <<job, metric, best, saves, stage, disk>>
  BY ResumeCases DEF Shape, TypeOK, Placed, job
<1>2. /\ Names' = Names /\ Iterations' = Iterations /\ Weights' = Weights
      /\ Metrics' = Metrics /\ Checkpoints' = Checkpoints
  BY <1>1, SameSets
<1>3. loader' \in [alive : BOOLEAN, queue : 0..MaxPrefetch]
  BY BatchTaken DEF Shape, Resume
<1>4. Filed'
  BY <1>1, FiledSame DEF Shape, disk
<1>5. {tag', resumed'} \subseteq Names \cup {NoTag, TornTag}
  BY <1>1, ResumeCases DEF Shape, TypeOK, disk
<1>6. CASE UNCHANGED loop /\ pc' \in {"step", "raised"}
  <2>1. TypeOK'
    BY <1>1, <1>2, <1>3, <1>5, <1>6 DEF Shape, TypeOK, loop, job, disk
  <2>2. 0 * cfg.itersPerEpoch = 0 /\ (0 + 1) * cfg.itersPerEpoch > 0
        /\ 0 < cfg.maxEpoch
    BY <1>1, ConfigTypes
  <2>3. Placed'
    BY <1>1, <1>6, <2>2 DEF Placed, Fresh, Counted, Untrained, loop, job,
       Ongoing, EpochOver
  <2> QED
    BY <1>4, <2>1, <2>3 DEF Shape
<1>7. ASSUME Whole(tag), Continues(files[tag][1])
      PROVE  Shape'
  <2> DEFINE c == files[tag][1]
  <2>1. /\ tag \in DOMAIN files /\ c \in Checkpoints /\ c.epoch \in Nat
        /\ c.epoch + 1 <= cfg.maxEpoch /\ cfg.maxEpoch \in Nat
    BY <1>1, <1>7, Loaded, ConfigTypes DEF Shape
  <2>2. Continues(c)
    BY <1>7
  <2>3. /\ Counted(c.weights, c.warm, (c.epoch + 1) * cfg.itersPerEpoch)
        /\ c.sched <= c.epoch + 1
    BY <1>7, <2>1 DEF Shape, Filed
  <2> HIDE DEF c
  <2>4. /\ c.epoch + 1 \in Nat
        /\ (c.epoch + 1) * cfg.itersPerEpoch \in Iterations \cap Nat
        /\ (c.epoch + 1) * cfg.itersPerEpoch
             < (c.epoch + 1 + 1) * cfg.itersPerEpoch
    BY <1>1, <2>1, EpochIterations, NextEpoch
  <2>5. epoch' \in 0..cfg.maxEpoch /\ iter' \in Iterations
    BY <2>1, <2>2, <2>4 DEF Continues
  <2>6. weights' \in Weights /\ warm' \in 0..cfg.warmupIters
        /\ sched' \in 0..cfg.maxEpoch
    BY <2>1, <2>2 DEF Continues, Checkpoints
  <2>7. pc' \in {"step", "raised"} /\ frozenSteps' = frozenSteps
        /\ layers' = layers
    BY <2>2 DEF Continues
  <2>8. TypeOK'
    BY <1>1, <1>2, <1>3, <1>5, <2>5, <2>6, <2>7
       DEF Shape, TypeOK, job, disk
  <2>9. Placed'
    <3>1. CASE pc' = "raised"
      BY <3>1 DEF Placed, Ongoing, EpochOver
    <3>2. CASE pc' = "step"
      <4>1. epoch' = c.epoch + 1 /\ iter' = (c.epoch + 1) * cfg.itersPerEpoch
            /\ weights' = c.weights /\ sched' = c.sched /\ warm' = c.warm
            /\ frozenSteps' = 0 /\ c.epoch + 1 < cfg.maxEpoch
        BY <1>1, <2>2, <3>2 DEF Continues, Fresh
      <4>2. Counted(weights, warm, iter)' /\ frozenSteps' <= iter'
            /\ sched' <= epoch'
        BY <2>3, <2>4, <4>1 DEF Counted
      <4>3. /\ epoch' * cfg'.itersPerEpoch <= iter'
            /\ iter' < (epoch' + 1) * cfg'.itersPerEpoch
        BY <1>1, <2>4, <4>1
      <4>4. saves' = <<>> /\ stage' = "open"
        BY <1>1 DEF Fresh
      <4> QED
        BY <1>1, <3>2, <4>1, <4>2, <4>3, <4>4
           DEF Placed, Ongoing, EpochOver
    <3> QED
      BY <2>7, <3>1, <3>2
  <2> QED
    BY <1>4, <2>8, <2>9 DEF Shape
<1> QED
  BY ResumeCases, <1>6, <1>7

\* The steps of one iteration and of the hooks behind it.
LEMMA ShapeRunStep ==
  ASSUME Shape, RunStep
  PROVE  Shape'
<1>1. /\ cfg \in Configs /\ cfg' = cfg /\ pc = "step" /\ epoch' = epoch
      /\ UNCHANGED <<job, sched, metric, best, saves, stage, disk, resumed>>
      /\ iter' = iter + 1
      /\ pc' = IF iter' = (epoch + 1) * cfg.itersPerEpoch THEN "schedule"
                                                          ELSE "step"
  BY DEF Shape, TypeOK, RunStep, job
<1>2. /\ Names' = Names /\ Iterations' = Iterations /\ Weights' = Weights
      /\ Metrics' = Metrics /\ Checkpoints' = Checkpoints
  BY <1>1, SameSets
<1>3. loader' \in [alive : BOOLEAN, queue : 0..MaxPrefetch]
  BY BatchTaken DEF Shape, RunStep
<1>4. Filed'
  BY <1>1, FiledSame DEF Shape, disk
<1>5. /\ epoch \in Nat /\ epoch < cfg.maxEpoch /\ iter \in Nat
      /\ epoch * cfg.itersPerEpoch <= iter
      /\ iter < (epoch + 1) * cfg.itersPerEpoch
      /\ Counted(weights, warm, iter) /\ frozenSteps <= iter /\ sched <= epoch
      /\ saves = <<>> /\ stage = "open"
  <2>1. epoch \in Nat /\ iter \in Nat
    BY <1>1, ConfigTypes DEF Shape, TypeOK, Iterations
  <2> QED
    BY <1>1, <2>1 DEF Shape, Placed, Ongoing, EpochOver
<1>6. /\ weights.head \in Nat /\ weights.backbone \in Nat
      /\ weights.stats \in Nat /\ frozenSteps \in Nat
      /\ frozenSteps <= cfg.freezeIters /\ cfg.freezeIters \in Nat
      /\ warm \in Nat /\ warm <= cfg.warmupIters /\ cfg.warmupIters \in Nat
  BY <1>1, ConfigTypes DEF Shape, TypeOK, Weights, Iterations
<1>7. epoch + 1 \in Nat /\ epoch + 1 <= cfg.maxEpoch
      /\ (epoch + 1) * cfg.itersPerEpoch \in Nat
      /\ epoch * cfg.itersPerEpoch \in Nat
  BY <1>1, <1>5, ConfigTypes
<1>8. iter' \in Nat /\ iter' <= (epoch + 1) * cfg.itersPerEpoch
  BY <1>1, <1>5, <1>7
<1>9. PICK scale \in Scalings :
        LET applied == scale # "dropped" IN
        /\ weights' =
             [head     |-> weights.head + IF applied THEN 1 ELSE 0,
              backbone |-> weights.backbone
                             + IF applied /\ Thawed THEN 1 ELSE 0,
              stats    |-> weights.stats + IF Layers = "held" THEN 0 ELSE 1]
        /\ frozenSteps' = IF applied /\ ~Thawed THEN frozenSteps + 1
                                                ELSE frozenSteps
        /\ warm' = IF WarmsUp /\ scale = "same" THEN warm + 1 ELSE warm
  BY DEF RunStep
<1>10. /\ weights' = [head |-> weights'.head, backbone |-> weights'.backbone,
                      stats |-> weights'.stats]
       /\ weights'.head \in Nat /\ weights'.head <= iter'
       /\ weights'.backbone \in Nat /\ weights'.backbone <= iter'
       /\ weights'.stats \in Nat /\ weights'.stats <= iter'
  BY <1>1, <1>5, <1>6, <1>9 DEF Counted
<1>11. frozenSteps' \in 0..cfg.freezeIters /\ frozenSteps' <= iter'
  BY <1>1, <1>5, <1>6, <1>9 DEF Thawed
<1>12. \A n \in Nat : n <= iter' => n \in Iterations
  BY <1>1, <1>7, <1>8, EpochIterations
<1>13. weights' \in Weights
  BY <1>10, <1>12 DEF Weights
<1>14. layers' \in {"open", "held", "stirred"}
  BY DEF Shape, TypeOK, RunStep, Layers
<1>15. warm' \in 0..cfg.warmupIters /\ warm' <= iter'
  BY <1>1, <1>5, <1>6, <1>9 DEF WarmsUp, Counted
<1>16. TypeOK'
  <2>1. iter' \in Iterations
    BY <1>8, <1>12
  <2>2. pc' \in {"schedule", "step"}
    BY <1>1
  <2> QED
    BY <1>1, <1>2, <1>3, <1>11, <1>13, <1>14, <1>15, <2>1, <2>2
       DEF Shape, TypeOK, job, disk
<1>17. Placed'
  <2>1. Counted(weights, warm, iter)' /\ frozenSteps' <= iter'
    BY <1>10, <1>11, <1>15 DEF Counted
  <2>2. epoch' < cfg'.maxEpoch /\ saves' = <<>> /\ stage' = "open"
        /\ sched' <= epoch' /\ epoch' = epoch
    BY <1>1, <1>5
  <2>3. CASE iter' = (epoch + 1) * cfg.itersPerEpoch
    <3>1. pc' = "schedule" /\ sched' <= epoch' + 1
          /\ iter' = (epoch' + 1) * cfg'.itersPerEpoch
      <4>1. sched' \in Nat
        BY <1>1, ConfigTypes DEF Shape, TypeOK
      <4> QED
        BY <1>1, <1>5, <2>2, <2>3, <4>1
    <3> QED
      BY <2>1, <2>2, <3>1 DEF Placed, Ongoing, EpochOver
  <2>4. CASE iter' # (epoch + 1) * cfg.itersPerEpoch
    <3>1. pc' = "step" /\ epoch' * cfg'.itersPerEpoch <= iter'
          /\ iter' < (epoch' + 1) * cfg'.itersPerEpoch
      BY <1>1, <1>5, <1>7, <1>8, <2>4
    <3> QED
      BY <2>1, <2>2, <3>1 DEF Placed, Ongoing, EpochOver
  <2> QED
    BY <2>3, <2>4
<1> QED
  BY <1>4, <1>16, <1>17 DEF Shape

\* The facts that hold behind the iterations of an epoch.
LEMMA AtEpochEnd ==
  ASSUME Shape, pc \in EpochOver
  PROVE  /\ cfg \in Configs
         /\ epoch \in Nat /\ epoch < cfg.maxEpoch /\ cfg.maxEpoch \in Nat
         /\ epoch \in 0..cfg.maxEpoch - 1
         /\ iter = (epoch + 1) * cfg.itersPerEpoch /\ iter \in Nat
         /\ Counted(weights, warm, iter) /\ frozenSteps <= iter
         /\ sched \in Nat /\ sched <= epoch + 1
         /\ metric \in Metrics /\ metric.value \in Int /\ best \in Int
         /\ top \in Int /\ newest \in Int
         /\ metric.value \in Scores \cup {-1}
<1>1. cfg \in Configs /\ epoch \in 0..cfg.maxEpoch /\ iter \in Iterations
      /\ sched \in 0..cfg.maxEpoch /\ metric \in Metrics
      /\ best \in Scores \cup {-1} /\ top \in Scores \cup {-1}
      /\ newest \in -1..cfg.maxEpoch - 1
  BY DEF Shape, TypeOK
<1>2. cfg.maxEpoch \in Nat /\ cfg.itersPerEpoch \in Nat
  BY <1>1, ConfigTypes
<1>3. metric.value \in Scores \cup {-1}
  BY <1>1 DEF Metrics
<1>4. epoch \in Nat /\ sched \in Nat /\ newest \in Int
  BY <1>1, <1>2
<1>5. epoch < cfg.maxEpoch /\ Counted(weights, warm, iter)
      /\ frozenSteps <= iter /\ sched <= epoch + 1
      /\ iter = (epoch + 1) * cfg.itersPerEpoch
  BY DEF Shape, Placed, Ongoing, EpochOver
<1>6. (epoch + 1) * cfg.itersPerEpoch \in Nat
  BY <1>2, <1>4
<1>7. epoch \in 0..cfg.maxEpoch - 1
  BY <1>2, <1>4, <1>5
<1>8. Scores \cup {-1} \subseteq Int
  BY TrainingAssumption
<1> QED
  BY <1>1, <1>2, <1>3, <1>4, <1>5, <1>6, <1>7, <1>8

\* From one hook to the next.
LEMMA PlacedOn ==
  ASSUME Shape, pc \in EpochOver, pc' \in EpochOver \ {"schedule"},
         UNCHANGED <<cfg, epoch, iter, weights, warm, frozenSteps>>,
         sched' <= epoch + 1,
         pc' # "save" => saves' = <<>> /\ stage' = "open",
         pc' = "save" => Saving'
  PROVE  Placed'
<1>1. epoch < cfg.maxEpoch /\ iter = (epoch + 1) * cfg.itersPerEpoch
      /\ Counted(weights, warm, iter) /\ frozenSteps <= iter
  BY AtEpochEnd
<1>2. epoch' < cfg'.maxEpoch /\ iter' = (epoch' + 1) * cfg'.itersPerEpoch
      /\ Counted(weights, warm, iter)' /\ frozenSteps' <= iter'
      /\ sched' <= epoch' + 1
  BY <1>1 DEF Counted
<1> HIDE DEF Counted
<1> QED
  BY <1>2 DEF Placed, Ongoing, EpochOver

LEMMA ShapeSchedule ==
  ASSUME Shape, Schedule
  PROVE  Shape'
<1>1. /\ cfg' = cfg /\ pc = "schedule" /\ pc' = "evaluate"
      /\ UNCHANGED <<job, epoch, iter, weights, frozenSteps, layers, warm,
                     metric, best, saves, stage, loader, disk, resumed>>
  BY DEF Schedule, job
<1>2. /\ Names' = Names /\ Iterations' = Iterations /\ Weights' = Weights
      /\ Metrics' = Metrics /\ Checkpoints' = Checkpoints
  BY <1>1, SameSets
<1>3. Filed'
  BY <1>1, FiledSame DEF Shape, disk
<1>4. /\ epoch \in Nat /\ epoch < cfg.maxEpoch /\ cfg.maxEpoch \in Nat
      /\ sched \in Nat
  BY <1>1, AtEpochEnd DEF EpochOver, Ongoing
<1>5. sched <= epoch /\ saves = <<>> /\ stage = "open"
  BY <1>1 DEF Shape, Placed, Ongoing
<1>6. sched' \in 0..cfg.maxEpoch /\ sched' <= epoch + 1
  BY <1>4, <1>5 DEF Schedule
<1>7. TypeOK'
  BY <1>1, <1>2, <1>6 DEF Shape, TypeOK, job, disk
<1>8. Placed'
  BY <1>1, <1>5, <1>6, PlacedOn DEF EpochOver, Ongoing
<1> QED
  BY <1>3, <1>7, <1>8 DEF Shape

LEMMA ShapeEvaluate ==
  ASSUME Shape, Evaluate
  PROVE  Shape'
<1>1. /\ cfg' = cfg /\ pc = "evaluate" /\ pc' = "checkpoint"
      /\ UNCHANGED <<job, epoch, iter, weights, frozenSteps, warm, sched, best,
                     saves, stage, loader, disk, resumed>>
  BY DEF Evaluate, job
<1>2. /\ Names' = Names /\ Iterations' = Iterations /\ Weights' = Weights
      /\ Metrics' = Metrics /\ Checkpoints' = Checkpoints
  BY <1>1, SameSets
<1>3. Filed'
  BY <1>1, FiledSame DEF Shape, disk
<1>4. epoch \in 0..cfg.maxEpoch - 1 /\ sched <= epoch + 1
      /\ epoch \in -1..cfg.maxEpoch - 1
  BY <1>1, AtEpochEnd DEF EpochOver, Ongoing
<1>5. saves = <<>> /\ stage = "open"
  BY <1>1 DEF Shape, Placed, Ongoing
<1>6. metric' \in Metrics
  BY <1>4 DEF Evaluate, Metrics, Shape, TypeOK
<1>7. layers' \in {"open", "held", "stirred"}
  BY DEF Evaluate, Shape, TypeOK
<1>8. TypeOK'
  BY <1>1, <1>2, <1>6, <1>7 DEF Shape, TypeOK, job, disk
<1>9. Placed'
  BY <1>1, <1>4, <1>5, PlacedOn DEF EpochOver, Ongoing
<1> QED
  BY <1>3, <1>8, <1>9 DEF Shape

\* Sequences of one element and of two.
LEMMA OneAndTwo ==
  ASSUME NEW S, NEW x \in S, NEW y \in S
  PROVE  /\ <<x>> # <<>> /\ <<x, y>> # <<>> /\ <<x, y>> # <<x>>
         /\ <<x>> \in Seq(S) /\ <<x, y>> \in Seq(S)
         /\ Len(<<x>>) = 1 /\ Len(<<x, y>>) = 2
         /\ Head(<<x>>) = x /\ Head(<<x, y>>) = x
         /\ Tail(<<x>>) = <<>> /\ Tail(<<x, y>>) = <<y>>
         /\ <<>> \o <<x>> = <<x>> /\ <<x>> \o <<y>> = <<x, y>>
<1>1. /\ <<x>> \in Seq(S) /\ <<x, y>> \in Seq(S) /\ <<y>> \in Seq(S)
      /\ <<>> \in Seq(S)
  OBVIOUS
<1>2. Len(<<x>>) = 1 /\ Len(<<x, y>>) = 2 /\ Len(<<>>) = 0
  OBVIOUS
<1>3. Head(<<x>>) = x /\ Head(<<x, y>>) = x
  OBVIOUS
<1>4. Tail(<<x>>) = <<>>
  OBVIOUS
<1>5. Tail(<<x, y>>) = <<y>>
  OBVIOUS
<1>6. <<>> \o <<x>> = <<x>>
  BY <1>1, ConcatEmptySeq
<1>7. <<x>> \o <<y>> = <<x, y>>
  <2>1. Len(<<y>>) = 1 /\ <<x>> \o <<y>> \in Seq(S)
        /\ Len(<<x>> \o <<y>>) = 2
    BY <1>1, <1>2, ConcatProperties
  <2>2. (<<x>> \o <<y>>)[1] = x /\ (<<x>> \o <<y>>)[2] = y
    BY <1>1, <1>2, <2>1, ConcatProperties
  <2>3. <<x, y>>[1] = x /\ <<x, y>>[2] = y /\ 1..2 = {1, 2}
    OBVIOUS
  <2> DEFINE s == <<x>> \o <<y>>
             t == <<x, y>>
  <2>4. s \in Seq(S) /\ t \in Seq(S) /\ Len(s) = Len(t)
        /\ \A i \in 1..Len(s) : s[i] = t[i]
    BY <1>1, <1>2, <2>1, <2>2, <2>3
  <2>5. s = t
    <3> HIDE DEF s, t
    <3> QED
      BY <2>4, SeqEqual
  <2> QED
    BY <2>5
<1>8. <<x>> # <<>> /\ <<x, y>> # <<>> /\ <<x, y>> # <<x>>
  BY <1>2
<1> QED
  BY <1>1, <1>2, <1>3, <1>4, <1>5, <1>6, <1>7, <1>8

\* What is due is the end of <<Best, Target>>.
LEMMA DueSaves ==
  /\ Due \in {<<>>, <<Target>>, <<Best, Target>>}
  /\ Due # <<>> /\ ~LastEpoch => Periodic
  /\ Due = <<Target>> => ~Better
  /\ Due = <<Best, Target>> => Better
  /\ LastEpoch => Due # <<>>
<1>1. BestSave \in {<<>>, <<Best>>} /\ (BestSave = <<Best>> <=> Better)
  BY DEF BestSave
<1>2. /\ <<>> \o <<Target>> = <<Target>>
      /\ <<Best>> \o <<Target>> = <<Best, Target>>
      /\ <<Target>> # <<>> /\ <<Best, Target>> # <<>>
      /\ <<Best, Target>> # <<Target>>
  <2>1. Best \in {Best, Target} /\ Target \in {Best, Target}
    OBVIOUS
  <2>2. Len(<<Best, Target>>) = 2 /\ Len(<<Target>>) = 1
    BY <2>1, OneAndTwo
  <2> QED
    BY <2>1, <2>2, OneAndTwo
<1>3. Due = IF LastEpoch \/ Periodic THEN BestSave \o <<Target>> ELSE <<>>
  BY DEF Due, Target
<1> QED
  BY <1>1, <1>2, <1>3

LEMMA SavesTyped ==
  ASSUME Shape, pc \in EpochOver,
         NEW s \in {<<>>, <<Target>>, <<Best, Target>>}
  PROVE  /\ s \in Seq(Names) /\ Len(s) <= 2
         /\ s # <<>> => /\ Head(s) \in Names /\ Head(s) \in {Best, Target}
                        /\ Tail(s) \in {<<>>, <<Target>>}
         /\ Target \in Names /\ Target # Best
<1>1. Target \in Names /\ Best \in Names /\ Target # Best
  BY AtEpochEnd DEF Target, Names, Best, Final
<1>2. CASE s = <<>>
  BY <1>1, <1>2
<1>3. CASE s = <<Target>>
  BY <1>1, <1>3, OneAndTwo
<1>4. CASE s = <<Best, Target>>
  BY <1>1, <1>4, OneAndTwo
<1> QED
  BY <1>2, <1>3, <1>4

LEMMA ShapeCheckpoint ==
  ASSUME Shape, Checkpoint
  PROVE  Shape'
<1>1. /\ cfg' = cfg /\ pc = "checkpoint" /\ pc' = "save"
      /\ saves' = Due /\ stage' = "open"
      /\ UNCHANGED <<job, loop, metric, best, loader, disk, resumed>>
  BY DEF Checkpoint, job
<1>2. /\ Names' = Names /\ Iterations' = Iterations /\ Weights' = Weights
      /\ Metrics' = Metrics /\ Checkpoints' = Checkpoints
  BY <1>1, SameSets
<1>3. Filed'
  BY <1>1, FiledSame DEF Shape, disk
<1>4. saves' \in Seq(Names) /\ Len(saves') <= 2
  BY <1>1, DueSaves, SavesTyped DEF EpochOver, Ongoing
<1>5. TypeOK'
  BY <1>1, <1>2, <1>4 DEF Shape, TypeOK, job, disk, loop
<1>6. Saving'
  <2>1. Target' = Target /\ LastEpoch' = LastEpoch /\ Periodic' = Periodic
    BY <1>1 DEF Target, LastEpoch, Periodic, Divides, loop
  <2> QED
    BY <1>1, <2>1, DueSaves DEF Saving
<1>7. Placed'
  BY <1>1, <1>6, PlacedOn, AtEpochEnd DEF EpochOver, Ongoing, loop
<1> QED
  BY <1>3, <1>5, <1>7 DEF Shape

LEMMA ShapeEndEpoch ==
  ASSUME Shape, EndEpoch
  PROVE  Shape'
<1>1. /\ cfg' = cfg /\ pc = "save" /\ saves = <<>>
      /\ UNCHANGED <<job, iter, weights, frozenSteps, layers, warm, sched,
                     metric, best, saves, stage, loader, disk, resumed>>
      /\ IF LastEpoch THEN pc' = "leaving" /\ epoch' = epoch
                      ELSE pc' = "step" /\ epoch' = epoch + 1
  BY DEF EndEpoch, job
<1>2. /\ Names' = Names /\ Iterations' = Iterations /\ Weights' = Weights
      /\ Metrics' = Metrics /\ Checkpoints' = Checkpoints
  BY <1>1, SameSets
<1>3. Filed'
  BY <1>1, FiledSame DEF Shape, disk
<1>4. /\ cfg \in Configs
      /\ epoch \in Nat /\ epoch < cfg.maxEpoch /\ cfg.maxEpoch \in Nat
      /\ iter = (epoch + 1) * cfg.itersPerEpoch
      /\ Counted(weights, warm, iter) /\ frozenSteps <= iter
      /\ sched <= epoch + 1
  BY <1>1, AtEpochEnd DEF EpochOver, Ongoing
<1>5. stage = "open"
  BY <1>1 DEF Shape, Placed, Saving
<1>6. epoch' \in 0..cfg.maxEpoch /\ pc' \in {"leaving", "step"}
  BY <1>1, <1>4
<1>7. TypeOK'
  BY <1>1, <1>2, <1>6 DEF Shape, TypeOK, job, disk
<1>8. Placed'
  <2>1. CASE LastEpoch
    BY <1>1, <1>4, <1>5, <2>1, PlacedOn DEF EpochOver, Ongoing
  <2>2. CASE ~LastEpoch
    <3>1. pc' = "step" /\ epoch' = epoch + 1
      BY <1>1, <2>2
    <3>2. epoch' < cfg'.maxEpoch /\ sched' <= epoch'
      BY <1>1, <1>4, <2>2, <3>1 DEF LastEpoch
    <3>3. /\ epoch' * cfg'.itersPerEpoch <= iter'
          /\ iter' < (epoch' + 1) * cfg'.itersPerEpoch
      <4>1. epoch + 1 \in Nat
        BY <1>4
      <4>2. /\ (epoch + 1) * cfg.itersPerEpoch \in Nat
            /\ (epoch + 1) * cfg.itersPerEpoch
                 < (epoch + 1 + 1) * cfg.itersPerEpoch
        BY <1>4, <4>1, NextEpoch
      <4> QED
        BY <1>1, <1>4, <3>1, <4>2
    <3>4. Counted(weights, warm, iter)' /\ frozenSteps' <= iter'
      BY <1>1, <1>4 DEF Counted
    <3> QED
      BY <1>1, <1>5, <3>1, <3>2, <3>3, <3>4 DEF Placed, EpochOver, Ongoing
  <2> QED
    BY <2>1, <2>2
<1> QED
  BY <1>3, <1>7, <1>8 DEF Shape

\* What every step of a save keeps.
LEMMA SaveFacts ==
  ASSUME Shape, Save
  PROVE  /\ pc = "save" /\ pc' = "save" /\ saves # <<>> /\ cfg' = cfg
         /\ UNCHANGED <<job, loop, metric, loader, resumed>>
         /\ saves \in {<<Target>>, <<Best, Target>>}
         /\ Head(saves) \in Names /\ Head(saves) \in {Best, Target}
         /\ Target \in Names /\ Target # Best
         /\ ~LastEpoch => Periodic
         /\ Target' = Target /\ LastEpoch' = LastEpoch
         /\ Periodic' = Periodic
<1>1. /\ pc = "save" /\ pc' = "save" /\ saves # <<>> /\ cfg' = cfg
      /\ UNCHANGED <<job, loop, metric, loader, resumed>>
  BY DEF Save, job
<1>2. saves \in {<<Target>>, <<Best, Target>>} /\ (~LastEpoch => Periodic)
  BY <1>1 DEF Shape, Placed, Saving
<1>3. /\ Head(saves) \in Names /\ Head(saves) \in {Best, Target}
      /\ Target \in Names /\ Target # Best
  BY <1>1, <1>2, SavesTyped DEF EpochOver, Ongoing
<1>4. Target' = Target /\ LastEpoch' = LastEpoch /\ Periodic' = Periodic
  BY <1>1 DEF Target, LastEpoch, Periodic, Divides, loop
<1> QED
  BY <1>1, <1>2, <1>3, <1>4

\* What a save writes is a checkpoint of this epoch.
LEMMA RecordTyped ==
  ASSUME Shape, pc = "save"
  PROVE  Record \in Checkpoints /\ Record.epoch = epoch
<1>1. epoch \in 0..cfg.maxEpoch - 1 /\ metric \in Metrics
  BY AtEpochEnd DEF EpochOver, Ongoing
<1>2. weights \in Weights /\ warm \in 0..cfg.warmupIters
      /\ sched \in 0..cfg.maxEpoch
  BY DEF Shape, TypeOK
<1> QED
  BY <1>1, <1>2 DEF Record, Checkpoints

LEMMA ShapeOpenFile ==
  ASSUME Shape, Save, OpenFile
  PROVE  Shape'
<1>1. /\ stage' = "write" /\ Put(Head(saves), <<>>)
      /\ UNCHANGED <<saves, best, tag, newest, top>>
  BY DEF OpenFile
<1>2. /\ Names' = Names /\ Iterations' = Iterations /\ Weights' = Weights
      /\ Metrics' = Metrics /\ Checkpoints' = Checkpoints
  BY SaveFacts, SameSets
<1>3. /\ DOMAIN files' \subseteq Names
      /\ \A n \in DOMAIN files' :
           files'[n] \in Seq(Checkpoints) /\ Len(files'[n]) <= 1
  <2>1. <<>> \in Seq(Checkpoints) /\ Len(<<>>) <= 1
    BY EmptySeq
  <2>2. /\ DOMAIN files \subseteq Names
        /\ \A n \in DOMAIN files :
             files[n] \in Seq(Checkpoints) /\ Len(files[n]) <= 1
    BY DEF Shape, TypeOK
  <2>3. DOMAIN files' = DOMAIN files \cup {Head(saves)}
        /\ Head(saves) \in Names
    BY <1>1, SaveFacts, FileOpened
  <2>4. \A m \in DOMAIN files' :
          files'[m] = <<>> \/ (m \in DOMAIN files /\ files'[m] = files[m])
    BY <1>1, FileOpened
  <2> QED
    BY <2>1, <2>2, <2>3, <2>4
<1>4. TypeOK'
  BY <1>1, <1>2, <1>3, SaveFacts DEF Shape, TypeOK, job, loop
<1>5. Saving'
  BY <1>1, SaveFacts DEF Saving
<1>6. Placed'
  <2>1. sched <= epoch + 1
    BY SaveFacts, AtEpochEnd DEF EpochOver, Ongoing
  <2> QED
    BY <1>1, <1>5, <2>1, SaveFacts, PlacedOn DEF EpochOver, Ongoing, loop
<1>7. Filed'
  <2> SUFFICES ASSUME NEW n \in DOMAIN files', Whole(n)'
               PROVE  LET c == files'[n][1] IN
                      /\ Counted(c.weights, c.warm,
                                 (c.epoch + 1) * cfg'.itersPerEpoch)
                      /\ c.sched <= c.epoch + 1
                      /\ n >= 0 => c.epoch = n
                      /\ n = Final => c.epoch = cfg'.maxEpoch - 1
    BY DEF Filed
  <2>1. Whole(n) /\ n \in DOMAIN files /\ files'[n] = files[n]
    BY <1>1, FileOpened DEF Whole
  <2> QED
    BY <2>1, SaveFacts DEF Shape, Filed
<1> QED
  BY <1>4, <1>6, <1>7 DEF Shape

LEMMA ShapeWriteFile ==
  ASSUME Shape, Save, WriteFile
  PROVE  Shape'
<1>1. /\ stage' = "untag" /\ Put(Head(saves), <<Record>>)
      /\ top' = Max({top, metric.value})
      /\ UNCHANGED <<saves, best, tag, newest>>
  BY DEF WriteFile
<1>2. /\ Names' = Names /\ Iterations' = Iterations /\ Weights' = Weights
      /\ Metrics' = Metrics /\ Checkpoints' = Checkpoints
  BY SaveFacts, SameSets
<1>3. Record \in Checkpoints /\ Record.epoch = epoch
  BY SaveFacts, RecordTyped
<1>4. /\ DOMAIN files' \subseteq Names
      /\ \A n \in DOMAIN files' :
           files'[n] \in Seq(Checkpoints) /\ Len(files'[n]) <= 1
  <2>1. <<Record>> \in Seq(Checkpoints) /\ Len(<<Record>>) <= 1
    BY <1>3
  <2> QED
    BY <1>1, <2>1, SaveFacts, FileWritten DEF Shape, TypeOK
<1>5. top' \in Scores \cup {-1}
  <2>1. /\ top \in Int /\ metric.value \in Int
        /\ metric.value \in Scores \cup {-1}
    BY SaveFacts, AtEpochEnd DEF EpochOver, Ongoing
  <2>2. top' = IF top >= metric.value THEN top ELSE metric.value
    BY <1>1, <2>1, MaxOfTwo
  <2> QED
    BY <2>1, <2>2 DEF Shape, TypeOK
<1>6. TypeOK'
  BY <1>1, <1>2, <1>4, <1>5, SaveFacts DEF Shape, TypeOK, job, loop
<1>7. Saving'
  BY <1>1, SaveFacts DEF Saving
<1>8. Placed'
  <2>1. sched <= epoch + 1
    BY SaveFacts, AtEpochEnd DEF EpochOver, Ongoing
  <2> QED
    BY <1>1, <1>7, <2>1, SaveFacts, PlacedOn DEF EpochOver, Ongoing, loop
<1>9. Filed'
  <2> SUFFICES ASSUME NEW n \in DOMAIN files', Whole(n)'
               PROVE  LET c == files'[n][1] IN
                      /\ Counted(c.weights, c.warm,
                                 (c.epoch + 1) * cfg'.itersPerEpoch)
                      /\ c.sched <= c.epoch + 1
                      /\ n >= 0 => c.epoch = n
                      /\ n = Final => c.epoch = cfg'.maxEpoch - 1
    BY DEF Filed
  <2>1. CASE n # Head(saves)
    <3>1. Whole(n) /\ n \in DOMAIN files /\ files'[n] = files[n]
      BY <1>1, <2>1, FileWritten DEF Whole
    <3> QED
      BY <3>1, SaveFacts DEF Shape, Filed
  <2>2. CASE n = Head(saves)
    <3>1. files'[n][1] = Record
      BY <1>1, <2>2, FileWritten
    <3>2. /\ Record.weights = weights /\ Record.warm = warm
          /\ Record.sched = sched /\ Record.epoch = epoch
      BY DEF Record
    <3>3. /\ epoch \in Nat /\ epoch < cfg.maxEpoch /\ cfg.maxEpoch \in Nat
          /\ iter = (epoch + 1) * cfg.itersPerEpoch
          /\ Counted(weights, warm, iter) /\ sched <= epoch + 1
      BY SaveFacts, AtEpochEnd DEF EpochOver, Ongoing
    <3>4. n = Best \/ n = Target
      BY <2>2, SaveFacts
    <3>5. (n >= 0 => epoch = n) /\ (n = Final => epoch = cfg.maxEpoch - 1)
      BY <3>3, <3>4 DEF Target, LastEpoch, Best, Final
    <3> QED
      BY <3>1, <3>2, <3>3, <3>5, SaveFacts
  <2> QED
    BY <2>1, <2>2
<1> QED
  BY <1>6, <1>8, <1>9 DEF Shape

LEMMA ShapeOpenTag ==
  ASSUME Shape, Save, OpenTag
  PROVE  Shape'
<1>1. /\ stage' = "tag" /\ tag' = TornTag
      /\ UNCHANGED <<saves, best, files, newest, top>>
  BY DEF OpenTag
<1>2. /\ Names' = Names /\ Iterations' = Iterations /\ Weights' = Weights
      /\ Metrics' = Metrics /\ Checkpoints' = Checkpoints
  BY SaveFacts, SameSets
<1>3. TypeOK'
  BY <1>1, <1>2, SaveFacts DEF Shape, TypeOK, job, loop
<1>4. Saving'
  BY <1>1, SaveFacts DEF Saving
<1>5. Placed'
  <2>1. sched <= epoch + 1
    BY SaveFacts, AtEpochEnd DEF EpochOver, Ongoing
  <2> QED
    BY <1>1, <1>4, <2>1, SaveFacts, PlacedOn DEF EpochOver, Ongoing, loop
<1>6. Filed'
  BY <1>1, SaveFacts, FiledSame DEF Shape
<1> QED
  BY <1>3, <1>5, <1>6 DEF Shape

LEMMA ShapeWriteTag ==
  ASSUME Shape, Save, WriteTag
  PROVE  Shape'
<1>1. /\ stage' = "open" /\ tag' = Head(saves)
      /\ newest' = Max({newest, epoch}) /\ saves' = Tail(saves)
      /\ best' = NextBest /\ UNCHANGED <<files, top>>
  BY DEF WriteTag
<1>2. /\ Names' = Names /\ Iterations' = Iterations /\ Weights' = Weights
      /\ Metrics' = Metrics /\ Checkpoints' = Checkpoints
  BY SaveFacts, SameSets
<1>3. /\ epoch \in 0..cfg.maxEpoch - 1 /\ epoch \in Nat /\ newest \in Int
      /\ sched <= epoch + 1 /\ metric.value \in Scores \cup {-1}
  BY SaveFacts, AtEpochEnd DEF EpochOver, Ongoing
<1>4. newest' \in -1..cfg.maxEpoch - 1
  BY <1>1, <1>3, MaxOfTwo DEF Shape, TypeOK
<1>5. best' \in Scores \cup {-1}
  BY <1>1, <1>3 DEF NextBest, Shape, TypeOK
<1>6. saves' \in {<<>>, <<Target>>} /\ saves' \in Seq(Names)
      /\ Len(saves') <= 2
  BY <1>1, SaveFacts, SavesTyped DEF EpochOver, Ongoing
<1>7. TypeOK'
  BY <1>1, <1>2, <1>4, <1>5, <1>6, SaveFacts
     DEF Shape, TypeOK, job, loop
<1>8. Saving'
  BY <1>1, <1>6, SaveFacts DEF Saving
<1>9. Placed'
  BY <1>1, <1>3, <1>8, SaveFacts, PlacedOn DEF EpochOver, Ongoing, loop
<1>10. Filed'
  BY <1>1, SaveFacts, FiledSame DEF Shape
<1> QED
  BY <1>7, <1>9, <1>10 DEF Shape

\* The steps of a job, one operation each.
LEMMA NextCases ==
  ASSUME TypeOK, [Next]_vars
  PROVE  \/ QuietStep \/ ForgetStep
         \/ Resume \/ RunStep \/ Schedule \/ Evaluate \/ Checkpoint \/ EndEpoch
         \/ Save /\ OpenFile
         \/ Save /\ WriteFile
         \/ Save /\ OpenTag
         \/ Save /\ WriteTag
<1>1. CASE Save
  BY <1>1 DEF Save
<1>2. CASE Launch \/ Crash
  BY <1>2, ForgetSteps
<1>3. CASE \/ Fails \/ EvaluationHangs \/ LoaderPuts \/ LoaderDies \/ AfterTrain
           \/ UNCHANGED vars
  BY <1>3, QuietSteps
<1> QED
  BY <1>1, <1>2, <1>3 DEF Next, Train

LEMMA ShapeInductive ==
  ASSUME Shape, [Next]_vars
  PROVE  Shape'
<1>1. TypeOK
  BY DEF Shape
<1> QED
  BY <1>1, NextCases, ShapeQuiet, ShapeForget, ShapeResume, ShapeRunStep,
     ShapeSchedule, ShapeEvaluate, ShapeCheckpoint, ShapeEndEpoch,
     ShapeOpenFile, ShapeWriteFile, ShapeOpenTag, ShapeWriteTag

LEMMA ShapeInit ==
  ASSUME Init
  PROVE  Shape
<1>1. cfg \in Configs /\ 0 \in Nat
  BY DEF Init
<1>2. cfg.maxEpoch \in Nat /\ cfg.warmupIters \in Nat
      /\ cfg.freezeIters \in Nat /\ cfg.itersPerEpoch \in Nat
      /\ cfg.maxEpoch # 0
  BY <1>1, ConfigTypes
<1>3. 0 \in Iterations
  BY <1>1, <1>2, EpochIterations
<1>4. weights \in Weights
  BY <1>3 DEF Init, Untrained, Weights
<1>5. metric \in Metrics
  <2>1. -1 \in -1..cfg.maxEpoch - 1
    BY <1>2
  <2> QED
    BY <2>1 DEF Init, Unmeasured, Metrics
<1>6. loader \in [alive : BOOLEAN, queue : 0..MaxPrefetch]
  BY TrainingAssumption DEF Init, NewLoader
<1>7. /\ epoch \in 0..cfg.maxEpoch /\ iter \in Iterations
      /\ frozenSteps \in 0..cfg.freezeIters /\ starts \in 0..MaxStarts
      /\ warm \in 0..cfg.warmupIters /\ sched \in 0..cfg.maxEpoch
  BY <1>2, <1>3, TrainingAssumption DEF Init
<1>8. saves \in Seq(Names) /\ Len(saves) <= 2
  BY EmptySeq DEF Init
<1>9. DOMAIN files = {}
  BY DEF Init
<1>10. newest \in -1..cfg.maxEpoch - 1
  BY <1>2 DEF Init
<1>11. TypeOK
  BY <1>1, <1>4, <1>5, <1>6, <1>7, <1>8, <1>9, <1>10 DEF Init, TypeOK
<1>12. Placed
  BY DEF Init, Placed, Fresh, Ongoing, EpochOver
<1>13. Filed
  BY <1>9 DEF Filed
<1> QED
  BY <1>11, <1>12, <1>13 DEF Shape

\* A job's counters stay within what its configuration allows, on disk and in
\* memory, however often it dies and resumes (TrainerBase.train, Checkpointer).
THEOREM TypeCorrect == Spec => []TypeOK
<1>1. Init => Shape
  BY ShapeInit
<1>2. Shape /\ [Next]_vars => Shape'
  BY ShapeInductive
<1>3. Shape => TypeOK
  BY DEF Shape
<1> QED
  BY <1>1, <1>2, <1>3, PTL DEF Spec

-----------------------------------------------------------------------------
(* What last_checkpoint names *)

\* Before its saves an epoch leaves the disk alone.
LEMMA DiskKept ==
  ASSUME Shape, Tagged, Named,
         pc \in {"step", "schedule", "evaluate", "checkpoint"},
         pc' \in Ongoing, pc' = "save" => stage' = "open",
         UNCHANGED <<cfg, epoch, disk, resumed>>
  PROVE  Tagged' /\ Named'
<1>1. tag # TornTag
  BY DEF Named, Ongoing
<1>2. Names' = Names
  BY SameSets
<1>3. Tagged'
  BY <1>2 DEF Tagged, Ongoing, disk
<1>4. Named'
  BY <1>1, <1>2 DEF Named, Holds, Whole, Overwriting, Ongoing, disk
<1> QED
  BY <1>3, <1>4

LEMMA DiskQuiet ==
  ASSUME Shape, Tagged, Named, QuietStep
  PROVE  Tagged' /\ Named'
<1>1. Names' = Names
  BY SameSets DEF QuietStep
<1>2. Tagged'
  BY <1>1 DEF Tagged, Ongoing, disk, loop, QuietStep, Target, LastEpoch
<1>3. Named'
  BY <1>1 DEF Named, Holds, Whole, Overwriting, Ongoing, disk, loop, QuietStep
<1> QED
  BY <1>2, <1>3

LEMMA DiskForget ==
  ASSUME Shape, Tagged, Named, ForgetStep
  PROVE  Tagged' /\ Named'
<1>1. Names' = Names
  BY SameSets DEF ForgetStep
<1>2. Tagged'
  BY DEF Tagged, Ongoing, ForgetStep
<1>3. Named'
  BY <1>1 DEF Named, Holds, Whole, Overwriting, Ongoing, ForgetStep
<1> QED
  BY <1>2, <1>3

LEMMA DiskResume ==
  ASSUME Shape, Tagged, Named, Resume
  PROVE  Tagged' /\ Named'
<1>1. /\ cfg' = cfg /\ pc = "building" /\ resumed' = tag /\ Fresh
      /\ UNCHANGED <<job, metric, best, saves, stage, disk>>
      /\ Names' = Names /\ pc' \in {"step", "raised"}
  BY ResumeCases, SameSets DEF Shape, Placed, job, Continues
<1>2. /\ tag \in Names => Holds(tag)' \/ Overwriting'
      /\ tag = TornTag => \E n \in DOMAIN files' : Holds(n)'
      /\ tag = NoTag => newest = -1
  BY <1>1 DEF Named, Holds, Whole, Overwriting, disk
<1>3. CASE pc' = "raised"
  BY <1>1, <1>2, <1>3 DEF Tagged, Named, Ongoing, disk
<1>4. CASE pc' = "step" /\ tag = NoTag /\ UNCHANGED loop
  <2>1. tag \notin Names
    BY <1>4 DEF Names, Best, Final, NoTag
  <2>2. Tagged'
    BY <1>1, <2>1 DEF Tagged, disk
  <2>3. newest' <= epoch'
    BY <1>1, <1>2, <1>4 DEF Fresh, loop, disk
  <2>4. Named'
    BY <1>1, <1>2, <1>4, <2>3 DEF Named, disk, NoTag, TornTag
  <2> QED
    BY <2>2, <2>4
<1>5. CASE /\ pc' = "step" /\ tag # NoTag /\ tag # TornTag /\ Whole(tag)
           /\ Continues(files[tag][1])
  <2> DEFINE e == files[tag][1].epoch
  <2>1. /\ tag \in DOMAIN files /\ tag \in Names /\ e \in Nat
        /\ e + 1 <= cfg.maxEpoch
    BY <1>5, Loaded DEF Shape, TypeOK
  <2>2. epoch' = e + 1 /\ e + 1 < cfg.maxEpoch
    BY <1>5 DEF Continues
  <2>3. newest \in Int /\ cfg.maxEpoch \in Nat
    BY ConfigTypes DEF Shape, TypeOK
  <2>4. newest <= e
    BY <1>5, <2>1 DEF Named, Holds, Overwriting
  <2>5. (tag >= 0 => e = tag) /\ (tag = Final => e = cfg.maxEpoch - 1)
    BY <1>5, <2>1 DEF Shape, Filed
  <2> HIDE DEF e
  <2>6. tag # Final
    BY <2>1, <2>2, <2>3, <2>5
  <2>7. tag = Best \/ (tag \in Nat /\ tag >= 0)
    BY <2>1, <2>3, <2>6 DEF Names
  <2>8. (tag >= 0 /\ tag < epoch') \/ (tag = Best /\ resumed' = Best)
    BY <1>1, <2>1, <2>2, <2>5, <2>7
  <2>9. Tagged'
    BY <1>1, <2>8 DEF Tagged, disk
  <2>10. newest' <= epoch'
    BY <1>1, <2>1, <2>2, <2>3, <2>4 DEF disk
  <2>11. Named'
    BY <1>1, <1>2, <1>5, <2>10 DEF Named, disk
  <2> QED
    BY <2>9, <2>11
<1> QED
  BY <1>1, <1>3, <1>4, <1>5, ResumeCases

LEMMA DiskEndEpoch ==
  ASSUME Shape, Tagged, Named, EndEpoch
  PROVE  Tagged' /\ Named'
<1>1. /\ cfg' = cfg /\ pc = "save" /\ saves = <<>> /\ saves' = <<>>
      /\ stage' = stage /\ stage = "open" /\ Names' = Names
      /\ UNCHANGED <<disk, resumed>>
      /\ IF LastEpoch THEN pc' = "leaving" /\ epoch' = epoch
                      ELSE pc' = "step" /\ epoch' = epoch + 1
  BY SameSets DEF EndEpoch, job, Shape, Placed, Saving
<1>2. epoch \in Nat /\ newest \in Int /\ Target # Best /\ <<Target>> # <<>>
      /\ cfg.maxEpoch \in Nat
  <2>1. <<>> \in {<<>>, <<Target>>, <<Best, Target>>}
    OBVIOUS
  <2>2. Target # Best
    BY <1>1, <2>1, SavesTyped DEF EpochOver, Ongoing
  <2>3. <<Target>> # <<>>
    OBVIOUS
  <2> QED
    BY <1>1, <2>2, <2>3, AtEpochEnd DEF EpochOver, Ongoing
<1>3. tag # TornTag
  BY <1>1 DEF Named, Ongoing
<1>4. tag \in Names => \/ tag >= 0 /\ tag < epoch
                       \/ tag = Best /\ resumed = Best
                       \/ tag = Target
  BY <1>1, <1>2 DEF Tagged, Ongoing
<1>5. newest <= epoch
  BY <1>1 DEF Named, Ongoing
<1>6. CASE LastEpoch
  <2>1. Target' = Target
    BY <1>1, <1>6 DEF Target, LastEpoch
  <2>2. Tagged'
    BY <1>1, <1>4, <1>6, <2>1 DEF Tagged, disk
  <2>3. Named'
    BY <1>1, <1>3, <1>5, <1>6 DEF Named, Holds, Whole, Overwriting, disk
  <2> QED
    BY <2>2, <2>3
<1>7. CASE ~LastEpoch
  <2>1. epoch' = epoch + 1 /\ Target = epoch
    BY <1>1, <1>7 DEF Target
  <2>2. tag \in Names => (tag >= 0 /\ tag < epoch')
                         \/ (tag = Best /\ resumed = Best)
    <3>1. tag \in Names => tag \in Int
      BY <1>2 DEF Names, Best, Final
    <3> QED
      BY <1>2, <1>4, <2>1, <3>1
  <2>3. Tagged'
    BY <1>1, <2>2 DEF Tagged, disk
  <2>4. newest' <= epoch'
    BY <1>1, <1>2, <1>5, <2>1 DEF disk
  <2>5. Named'
    BY <1>1, <1>3, <1>7, <2>4 DEF Named, Holds, Whole, Overwriting, disk
  <2> QED
    BY <2>3, <2>5
<1> QED
  BY <1>6, <1>7

\* Whatever is opened, last_checkpoint does not name it, unless it is the
\* model_best the job was resumed from.
LEMMA OpensOther ==
  ASSUME Shape, Tagged, Save, tag \in Names, tag = Head(saves)
  PROVE  tag = Best /\ resumed = Best
<1>1. epoch \in Nat /\ pc = "save" /\ saves # <<>>
  BY SaveFacts, AtEpochEnd DEF EpochOver, Ongoing
<1>2. Target = epoch \/ Target = Final
  BY DEF Target
<1>3. Head(saves) \in {Best, Target}
      /\ (saves = <<Target>> => Head(saves) = Target) /\ Target # Best
  <2>1. Head(<<Target>>) = Target
    OBVIOUS
  <2> QED
    BY <2>1, SaveFacts
<1> QED
  BY <1>1, <1>2, <1>3 DEF Tagged, Ongoing, Best, Final

LEMMA DiskOpenFile ==
  ASSUME Shape, Tagged, Named, Save, OpenFile
  PROVE  Tagged' /\ Named'
<1>1. /\ stage = "open" /\ stage' = "write" /\ Put(Head(saves), <<>>)
      /\ UNCHANGED <<saves, best, tag, newest, top>>
  BY DEF OpenFile
<1>2. /\ pc = "save" /\ pc' = "save" /\ UNCHANGED <<cfg, epoch, resumed>>
      /\ Target' = Target /\ Names' = Names
  BY SaveFacts, SameSets DEF loop
<1>3. Tagged'
  BY <1>1, <1>2 DEF Tagged, Ongoing
<1>4. tag # TornTag
  BY <1>1, <1>2 DEF Named, Ongoing
<1>5. ASSUME tag \in Names
      PROVE  Holds(tag)' \/ Overwriting'
  <2>1. CASE tag = Head(saves)
    <3>1. tag = Best /\ resumed = Best
      BY <1>5, <2>1, OpensOther
    <3>2. ~Whole(Best)'
      BY <1>1, <2>1, <3>1, FileOpened
    <3> QED
      BY <1>1, <1>2, <3>1, <3>2 DEF Overwriting
  <2>2. CASE tag # Head(saves)
    <3>1. Whole(tag)' <=> Whole(tag)
      BY <1>1, <2>2, FileOpened
    <3>2. Whole(tag)' => files'[tag] = files[tag]
      BY <1>1, FileOpened
    <3>3. Holds(tag) \/ Overwriting
      BY <1>5 DEF Named
    <3>4. Holds(tag) => Holds(tag)'
      BY <1>1, <3>1, <3>2 DEF Holds
    <3>5. Overwriting => Overwriting'
      BY <1>1, <1>2, <3>1 DEF Overwriting
    <3> QED
      BY <3>3, <3>4, <3>5
  <2> QED
    BY <2>1, <2>2
<1>6. Named'
  BY <1>1, <1>2, <1>4, <1>5 DEF Named, Ongoing
<1> QED
  BY <1>3, <1>6

LEMMA DiskWriteFile ==
  ASSUME Shape, Tagged, Named, Save, WriteFile
  PROVE  Tagged' /\ Named'
<1>1. /\ stage = "write" /\ stage' = "untag" /\ Put(Head(saves), <<Record>>)
      /\ UNCHANGED <<saves, best, tag, newest>>
  BY DEF WriteFile
<1>2. /\ pc = "save" /\ pc' = "save" /\ UNCHANGED <<cfg, epoch, resumed>>
      /\ Target' = Target /\ Names' = Names
  BY SaveFacts, SameSets DEF loop
<1>3. Tagged'
  BY <1>1, <1>2 DEF Tagged, Ongoing
<1>4. tag # TornTag /\ newest <= epoch
  BY <1>1, <1>2 DEF Named, Ongoing
<1>5. Whole(Head(saves))' /\ files'[Head(saves)][1].epoch = epoch
  <2>1. Whole(Head(saves))' /\ files'[Head(saves)][1] = Record
    BY <1>1, FileWritten
  <2> QED
    BY <1>2, <2>1, RecordTyped
<1>6. epoch \in Int /\ newest \in Int
  BY <1>2, AtEpochEnd DEF EpochOver, Ongoing
<1>7. ASSUME tag \in Names
      PROVE  Holds(tag)' \/ Overwriting'
  <2>1. CASE tag = Head(saves)
    BY <1>1, <1>4, <1>5, <1>6, <2>1 DEF Holds
  <2>2. CASE tag # Head(saves)
    <3>1. /\ Whole(tag)' <=> Whole(tag)
          /\ Whole(tag)' => files'[tag] = files[tag]
      BY <1>1, <2>2, FileWritten
    <3>2. Holds(tag) \/ Overwriting
      BY <1>7 DEF Named
    <3>3. Holds(tag) => Holds(tag)'
      BY <1>1, <3>1 DEF Holds
    <3>4. Overwriting => Overwriting'
      BY <1>1, <1>2, <3>1 DEF Overwriting
    <3> QED
      BY <3>2, <3>3, <3>4
  <2> QED
    BY <2>1, <2>2
<1>8. Named'
  BY <1>1, <1>2, <1>4, <1>5, <1>7 DEF Named, Ongoing
<1> QED
  BY <1>3, <1>8

LEMMA DiskOpenTag ==
  ASSUME Shape, Tagged, Named, Save, OpenTag
  PROVE  Tagged' /\ Named'
<1>1. /\ stage = "untag" /\ stage' = "tag" /\ tag' = TornTag
      /\ UNCHANGED <<saves, best, files, newest, top>>
  BY DEF OpenTag
<1>2. /\ pc = "save" /\ pc' = "save" /\ UNCHANGED <<cfg, epoch, resumed>>
      /\ Names' = Names /\ cfg.maxEpoch \in Nat
  BY SaveFacts, SameSets, AtEpochEnd DEF loop, EpochOver, Ongoing
<1>3. TornTag \notin Names
  BY <1>2 DEF Names, TornTag, Best, Final
<1>4. Tagged'
  BY <1>1, <1>2, <1>3 DEF Tagged
<1>5. /\ Whole(Head(saves)) /\ files[Head(saves)][1].epoch = epoch
      /\ newest <= epoch
  BY <1>1, <1>2 DEF Named, Ongoing
<1>6. epoch \in Int /\ newest \in Int
  BY <1>2, AtEpochEnd DEF EpochOver, Ongoing
<1>7. Head(saves) \in DOMAIN files' /\ Holds(Head(saves))'
  BY <1>1, <1>5, <1>6 DEF Holds, Whole
<1>8. TornTag # NoTag
  BY DEF TornTag, NoTag
<1>9. Named'
  BY <1>1, <1>2, <1>3, <1>5, <1>7, <1>8 DEF Named, Ongoing, Whole
<1> QED
  BY <1>4, <1>9

LEMMA DiskWriteTag ==
  ASSUME Shape, Tagged, Named, Save, WriteTag
  PROVE  Tagged' /\ Named'
<1>1. /\ stage = "tag" /\ stage' = "open" /\ tag' = Head(saves)
      /\ newest' = Max({newest, epoch}) /\ saves' = Tail(saves)
      /\ UNCHANGED <<files, top>>
  BY DEF WriteTag
<1>2. /\ pc = "save" /\ pc' = "save" /\ UNCHANGED <<cfg, epoch, resumed>>
      /\ Names' = Names /\ Target' = Target
  BY SaveFacts, SameSets DEF loop
<1>3. epoch \in Int /\ newest \in Int /\ cfg.maxEpoch \in Nat
  BY <1>2, AtEpochEnd DEF EpochOver, Ongoing
<1>4. Whole(Head(saves)) /\ files[Head(saves)][1].epoch = epoch
      /\ newest <= epoch
  BY <1>1, <1>2 DEF Named, Ongoing
<1>5. newest' = epoch
  BY <1>1, <1>3, <1>4, MaxOfTwo
<1>6. Holds(tag)'
  BY <1>1, <1>3, <1>4, <1>5 DEF Holds, Whole
<1>7. \/ tag' = Best /\ saves' = <<Target>>
      \/ tag' = Target /\ saves' = <<>>
  <2>1. /\ Head(<<Target>>) = Target /\ Tail(<<Target>>) = <<>>
        /\ Head(<<Best, Target>>) = Best
        /\ Tail(<<Best, Target>>) = <<Target>>
    <3>1. Best \in {Best, Target} /\ Target \in {Best, Target}
      OBVIOUS
    <3> QED
      BY <3>1, OneAndTwo
  <2> QED
    BY <1>1, <2>1, SaveFacts
<1>8. Tagged'
  BY <1>1, <1>2, <1>7 DEF Tagged
<1>9. tag' # TornTag /\ tag' # NoTag
  BY <1>1, <1>3, SaveFacts DEF Names, Best, Final, TornTag, NoTag
<1>10. Named'
  BY <1>1, <1>2, <1>3, <1>5, <1>6, <1>9 DEF Named, Ongoing
<1> QED
  BY <1>8, <1>10

LEMMA DiskInductive ==
  ASSUME Shape, Tagged, Named, [Next]_vars
  PROVE  Tagged' /\ Named'
<1>1. TypeOK
  BY DEF Shape
<1>2. CASE RunStep \/ Schedule \/ Evaluate \/ Checkpoint
  <2>1. /\ pc \in {"step", "schedule", "evaluate", "checkpoint"}
        /\ pc' \in Ongoing /\ (pc' = "save" => stage' = "open")
        /\ UNCHANGED <<cfg, epoch, disk, resumed>>
    BY <1>2 DEF RunStep, Schedule, Evaluate, Checkpoint, Ongoing, job, loop
  <2> QED
    BY <2>1, DiskKept
<1> QED
  BY <1>1, <1>2, NextCases, DiskQuiet, DiskForget, DiskResume, DiskEndEpoch,
     DiskOpenFile, DiskWriteFile, DiskOpenTag, DiskWriteTag

LEMMA DiskInit ==
  ASSUME Init
  PROVE  Tagged /\ Named
<1>1. tag = NoTag /\ newest = -1 /\ pc = "down" /\ cfg \in Configs
  BY DEF Init
<1>2. NoTag \notin Names
  BY <1>1, ConfigTypes DEF Names, NoTag, Best, Final
<1> QED
  BY <1>1, <1>2 DEF Tagged, Named, Ongoing, NoTag, TornTag

\* However a job dies and resumes, last_checkpoint names a whole file and the
\* newest epoch it has named is not lost, but for one that overwrites the
\* model_best it was resumed from (PeriodicCheckpointer.step, Checkpointer.save).
THEOREM RecoverableCorrect == Spec => []Recoverable
<1>1. Init => Shape /\ Tagged /\ Named
  BY ShapeInit, DiskInit
<1>2. Shape /\ Tagged /\ Named /\ [Next]_vars => (Shape /\ Tagged /\ Named)'
  BY ShapeInductive, DiskInductive
<1>3. Shape /\ Tagged /\ Named => Recoverable
  <2> SUFFICES ASSUME Shape, Tagged, Named, ~Overwriting
               PROVE  /\ tag \in Names => Whole(tag)
                      /\ newest >= 0 =>
                           \E n \in DOMAIN files :
                             Whole(n) /\ files[n][1].epoch >= newest
    BY DEF Recoverable
  <2>1. tag \in Names => Holds(tag)
    BY DEF Named
  <2>2. tag \in Names \cup {NoTag, TornTag}
    BY DEF Shape, TypeOK
  <2>3. newest >= 0 => \E n \in DOMAIN files : Holds(n)
    BY <2>1, <2>2 DEF Named, Holds, Whole
  <2> QED
    BY <2>1, <2>3 DEF Holds
<1> QED
  BY <1>1, <1>2, <1>3, PTL DEF Spec

-----------------------------------------------------------------------------
(* What model_best holds *)

LEMMA SavesHead ==
  ASSUME Shape, pc = "save"
  PROVE  /\ Target # Best
         /\ \/ saves = <<>>
            \/ saves # <<>> /\ Head(saves) = Target /\ Tail(saves) = <<>>
            \/ /\ saves # <<>> /\ Head(saves) = Best
               /\ Tail(saves) = <<Target>>
         /\ <<Target>> # <<>> /\ Head(<<Target>>) = Target
<1>1. saves \in {<<>>, <<Target>>, <<Best, Target>>}
  BY DEF Shape, Placed, Saving
<1>2. Target # Best
  BY <1>1, SavesTyped DEF EpochOver, Ongoing
<1>3. Best \in {Best, Target} /\ Target \in {Best, Target}
  OBVIOUS
<1>4. /\ <<Target>> # <<>> /\ <<Best, Target>> # <<>>
      /\ Head(<<Target>>) = Target /\ Tail(<<Target>>) = <<>>
      /\ Head(<<Best, Target>>) = Best /\ Tail(<<Best, Target>>) = <<Target>>
  BY <1>3, OneAndTwo
<1> QED
  BY <1>1, <1>2, <1>4

LEMMA ToppedQuiet ==
  ASSUME Topped, QuietStep
  PROVE  Topped'
BY DEF Topped, Bests, Whole, QuietStep, Ongoing, LastEpoch, disk, loop

LEMMA ToppedStart ==
  ASSUME Shape, ForgetStep \/ Resume
  PROVE  Topped'
<1>1. /\ top' = -1 /\ best' = -1 /\ saves' = <<>>
      /\ pc' \in {"down", "building", "step", "raised"}
  <2>1. CASE ForgetStep
    BY <2>1 DEF ForgetStep, Forgotten
  <2>2. CASE Resume
    BY <2>2, ResumeCases DEF Shape, Placed, Fresh, disk, Continues
  <2> QED
    BY <2>1, <2>2
<1>2. Bests(top)'
  BY <1>1 DEF Bests
<1> QED
  BY <1>1, <1>2 DEF Topped

LEMMA ToppedHook ==
  ASSUME Topped, RunStep \/ Schedule \/ Evaluate
  PROVE  Topped'
<1>1. /\ pc \in Ongoing \ {"save", "leaving"}
      /\ pc' \in Ongoing \ {"save", "leaving"}
      /\ UNCHANGED <<best, disk>>
  BY DEF RunStep, Schedule, Evaluate, Ongoing
<1>2. Bests(top)' /\ top' = best'
  BY <1>1 DEF Topped, Bests, Whole, disk
<1> QED
  BY <1>1, <1>2 DEF Topped

LEMMA ToppedCheckpoint ==
  ASSUME Shape, Topped, Checkpoint
  PROVE  Topped'
<1>1. /\ pc = "checkpoint" /\ pc' = "save"
      /\ saves' = Due /\ stage' = "open" /\ UNCHANGED <<metric, best, disk>>
  BY DEF Checkpoint
<1>2. top = best /\ Bests(top)
  BY <1>1 DEF Topped, Ongoing
<1>3. Bests(top)' /\ top' = best'
  BY <1>1, <1>2 DEF Bests, Whole, disk
<1>4. metric.value \in Int /\ best \in Int
  BY <1>1, AtEpochEnd DEF EpochOver, Ongoing
<1>5. ASSUME Due # <<>>
      PROVE  IF Head(Due) # Best THEN metric.value <= top
                                 ELSE metric.value > top
  <2>1. <<>> \in {<<>>, <<Target>>, <<Best, Target>>}
    OBVIOUS
  <2>2. Target # Best
    BY <1>1, <2>1, SavesTyped DEF EpochOver, Ongoing
  <2>3. Best \in {Best, Target} /\ Target \in {Best, Target}
    OBVIOUS
  <2>4. Head(<<Target>>) = Target /\ Head(<<Best, Target>>) = Best
    BY <2>3, OneAndTwo
  <2>5. \/ Head(Due) = Target /\ ~Better
        \/ Head(Due) = Best /\ Better
    BY <1>5, <2>4, DueSaves
  <2> QED
    BY <1>2, <1>4, <2>2, <2>5 DEF Better
<1>6. saves' # <<>> =>
        IF Head(saves') # Best THEN metric'.value <= top'
                               ELSE metric'.value > top'
  BY <1>1, <1>5 DEF disk
<1> QED
  BY <1>1, <1>3, <1>6 DEF Topped

LEMMA ToppedEndEpoch ==
  ASSUME Shape, Topped, EndEpoch
  PROVE  Topped'
<1>1. /\ pc = "save" /\ saves = <<>> /\ saves' = <<>>
      /\ UNCHANGED <<cfg, best, disk>>
      /\ IF LastEpoch THEN pc' = "leaving" /\ epoch' = epoch
                      ELSE pc' = "step"
  BY DEF EndEpoch, job
<1>2. Bests(top) /\ (top = best \/ LastEpoch)
  BY <1>1 DEF Topped, Ongoing
<1>3. Bests(top)'
  BY <1>1, <1>2 DEF Bests, Whole, disk
<1>4. CASE LastEpoch
  BY <1>1, <1>3, <1>4 DEF Topped, LastEpoch
<1>5. CASE ~LastEpoch
  BY <1>1, <1>2, <1>3, <1>5 DEF Topped, disk
<1> QED
  BY <1>4, <1>5

LEMMA ToppedOpenFile ==
  ASSUME Shape, Topped, Save, OpenFile
  PROVE  Topped'
<1>1. /\ stage = "open" /\ stage' = "write" /\ Put(Head(saves), <<>>)
      /\ UNCHANGED <<saves, best, tag, newest, top>>
  BY DEF OpenFile
<1>2. /\ pc = "save" /\ pc' = "save" /\ saves # <<>>
      /\ metric' = metric /\ LastEpoch' = LastEpoch
  BY SaveFacts
<1>3. Head(saves) # Best => Bests(top)'
  <2> SUFFICES ASSUME Head(saves) # Best
               PROVE  Bests(top)'
    OBVIOUS
  <2>1. Bests(top)
    BY <1>1, <1>2 DEF Topped, Ongoing
  <2>2. Whole(Best) => Whole(Best)' /\ files'[Best] = files[Best]
    BY <1>1, FileOpened
  <2> QED
    BY <1>1, <2>1, <2>2 DEF Bests
<1>4. top = best \/ LastEpoch
  BY <1>1, <1>2 DEF Topped, Ongoing
<1>5. IF Head(saves) # Best THEN metric.value <= top ELSE metric.value > top
  BY <1>1, <1>2 DEF Topped
<1> QED
  BY <1>1, <1>2, <1>3, <1>4, <1>5 DEF Topped, Ongoing

LEMMA ToppedWriteFile ==
  ASSUME Shape, Topped, Save, WriteFile
  PROVE  Topped'
<1>1. /\ stage = "write" /\ stage' = "untag" /\ Put(Head(saves), <<Record>>)
      /\ top' = Max({top, metric.value})
      /\ UNCHANGED <<saves, best, tag, newest>>
  BY DEF WriteFile
<1>2. /\ pc = "save" /\ pc' = "save" /\ saves # <<>>
      /\ metric' = metric /\ LastEpoch' = LastEpoch
  BY SaveFacts
<1>3. top \in Int /\ metric.value \in Int
  BY <1>2, AtEpochEnd DEF EpochOver, Ongoing
<1>4. CASE Head(saves) = Best
  <2>1. metric.value > top
    BY <1>1, <1>2, <1>4 DEF Topped
  <2>2. top' = metric.value
    BY <1>1, <1>3, <2>1, MaxOfTwo
  <2>3. Whole(Best)' /\ files'[Best][1] = Record
    BY <1>1, <1>4, FileWritten
  <2>4. Bests(top)'
    BY <2>2, <2>3 DEF Bests, Record
  <2> QED
    BY <1>1, <1>2, <1>4, <2>2, <2>4 DEF Topped
<1>5. CASE Head(saves) # Best
  <2>1. metric.value <= top
    BY <1>1, <1>2, <1>5 DEF Topped
  <2>2. top' = top
    BY <1>1, <1>3, <2>1, MaxOfTwo
  <2>3. Whole(Best) => Whole(Best)' /\ files'[Best] = files[Best]
    BY <1>1, <1>5, FileWritten
  <2>4. Bests(top) /\ (top = best \/ LastEpoch)
    BY <1>1, <1>2, <1>5 DEF Topped, Ongoing
  <2>5. Bests(top)'
    BY <2>2, <2>3, <2>4 DEF Bests
  <2> QED
    BY <1>1, <1>2, <1>5, <2>1, <2>2, <2>4, <2>5 DEF Topped
<1> QED
  BY <1>4, <1>5

LEMMA ToppedOpenTag ==
  ASSUME Shape, Topped, Save, OpenTag
  PROVE  Topped'
<1>1. /\ stage = "untag" /\ stage' = "tag"
      /\ UNCHANGED <<saves, best, files, newest, top>>
  BY DEF OpenTag
<1>2. /\ pc = "save" /\ pc' = "save" /\ saves # <<>>
      /\ metric' = metric /\ LastEpoch' = LastEpoch
  BY SaveFacts
<1>3. Bests(top)'
  BY <1>1, <1>2 DEF Topped, Bests, Whole, Ongoing
<1>4. top = best \/ LastEpoch \/ Head(saves) = Best
  BY <1>1, <1>2 DEF Topped, Ongoing
<1>5. IF Head(saves) # Best THEN metric.value <= top ELSE metric.value = top
  BY <1>1, <1>2 DEF Topped
<1> QED
  BY <1>1, <1>2, <1>3, <1>4, <1>5 DEF Topped

LEMMA ToppedWriteTag ==
  ASSUME Shape, Topped, Save, WriteTag
  PROVE  Topped'
<1>1. /\ stage = "tag" /\ stage' = "open"
      /\ saves' = Tail(saves) /\ best' = NextBest /\ UNCHANGED <<files, top>>
  BY DEF WriteTag
<1>2. /\ pc = "save" /\ pc' = "save" /\ saves # <<>>
      /\ metric' = metric /\ LastEpoch' = LastEpoch
  BY SaveFacts
<1>3. top \in Int /\ metric.value \in Int
  BY <1>2, AtEpochEnd DEF EpochOver, Ongoing
<1>4. Bests(top)'
  BY <1>1, <1>2 DEF Topped, Bests, Whole, Ongoing
<1>5. top = best \/ LastEpoch \/ Head(saves) = Best
  BY <1>1, <1>2 DEF Topped, Ongoing
<1>6. CASE Head(saves) = Best
  <2>1. metric.value = top
    BY <1>1, <1>2, <1>6 DEF Topped
  <2>2. best' = top' \/ LastEpoch'
    BY <1>1, <1>2, <1>6, <2>1 DEF NextBest
  <2>3. saves' = <<Target>> /\ Head(saves') # Best
    BY <1>1, <1>2, <1>6, SavesHead
  <2>4. metric'.value <= top'
    BY <1>1, <1>2, <1>3, <2>1
  <2> QED
    BY <1>2, <1>4, <2>2, <2>3, <2>4 DEF Topped
<1>7. CASE Head(saves) # Best
  <2>1. best' = best /\ saves' = <<>>
    BY <1>1, <1>2, <1>7, SavesHead DEF NextBest
  <2> QED
    BY <1>1, <1>2, <1>4, <1>5, <1>7, <2>1 DEF Topped
<1> QED
  BY <1>6, <1>7

LEMMA ToppedInductive ==
  ASSUME Shape, Topped, [Next]_vars
  PROVE  Topped'
<1>1. TypeOK
  BY DEF Shape
<1> QED
  BY <1>1, NextCases, ToppedQuiet, ToppedStart, ToppedHook, ToppedCheckpoint,
     ToppedEndEpoch, ToppedOpenFile, ToppedWriteFile, ToppedOpenTag,
     ToppedWriteTag

-----------------------------------------------------------------------------
(* The metric that is saved with an epoch *)

LEMMA MeasuredKept ==
  ASSUME Measured, cfg' = cfg, files' = files,
         \/ pc' \notin {"checkpoint", "save"}
         \/ /\ pc \in {"checkpoint", "save"}
            /\ UNCHANGED <<epoch, metric>>
         \/ epoch' = epoch /\ (EvaluationDue => metric'.epoch = epoch')
  PROVE  Measured'
BY DEF Measured, Whole, EvaluationDue, Divides

LEMMA MeasuredOpenFile ==
  ASSUME Shape, Measured, Save, OpenFile
  PROVE  Measured'
<1>1. /\ Put(Head(saves), <<>>) /\ pc = "save"
      /\ UNCHANGED <<cfg, epoch, metric>>
  BY SaveFacts DEF OpenFile, loop
<1>2. EvaluationDue' => metric'.epoch = epoch'
  BY <1>1 DEF Measured, EvaluationDue, Divides
<1>3. \A n : Whole(n)' => Whole(n) /\ files'[n] = files[n]
  BY <1>1, FileOpened
<1>4. \A n : Whole(n) => n \in DOMAIN files
  BY DEF Whole
<1> QED
  BY <1>1, <1>2, <1>3, <1>4 DEF Measured, Divides

LEMMA MeasuredWriteFile ==
  ASSUME Shape, Measured, Save, WriteFile
  PROVE  Measured'
<1>1. /\ Put(Head(saves), <<Record>>) /\ pc = "save"
      /\ UNCHANGED <<cfg, epoch, metric>>
  BY SaveFacts DEF WriteFile, loop
<1>2. EvaluationDue' => metric'.epoch = epoch'
  BY <1>1 DEF Measured, EvaluationDue, Divides
<1>3. ASSUME cfg.evalPeriod > 0, Divides(cfg.evalPeriod, cfg.checkpointPeriod),
             NEW n \in DOMAIN files', n >= 0, Whole(n)'
      PROVE  files'[n][1].metric.epoch = n
  <2>1. CASE n # Head(saves)
    <3>1. Whole(n) /\ n \in DOMAIN files /\ files'[n] = files[n]
      BY <1>1, <1>3, <2>1, FileWritten DEF Whole
    <3> QED
      BY <1>3, <3>1 DEF Measured
  <2>2. CASE n = Head(saves)
    <3>1. files'[n][1] = Record
      BY <1>1, <2>2, FileWritten
    <3>2. n = epoch /\ ~LastEpoch
      BY <1>3, <2>2, SaveFacts DEF Target, Best, Final
    <3>3. epoch + 1 \in Nat /\ cfg.evalPeriod \in Nat \ {0}
          /\ cfg.checkpointPeriod \in Nat \ {0}
      BY <1>1, <1>3, AtEpochEnd, ConfigTypes DEF EpochOver, Ongoing
    <3>4. cfg.checkpointPeriod % cfg.evalPeriod = 0
          /\ (epoch + 1) % cfg.checkpointPeriod = 0
      BY <1>3, <3>2, SaveFacts DEF Periodic, Divides
    <3>5. EvaluationDue
      BY <1>3, <3>3, <3>4, DividesTransitive DEF EvaluationDue, Divides
    <3>6. metric.epoch = epoch
      BY <1>1, <3>5 DEF Measured
    <3> QED
      BY <3>1, <3>2, <3>6 DEF Record
  <2> QED
    BY <2>1, <2>2
<1>4. cfg'.evalPeriod > 0 /\ Divides(cfg'.evalPeriod, cfg'.checkpointPeriod)
        => \A n \in DOMAIN files' : n >= 0 /\ Whole(n)' =>
             files'[n][1].metric.epoch = n
  BY <1>1, <1>3
<1> QED
  BY <1>2, <1>4 DEF Measured, Divides

LEMMA MeasuredInductive ==
  ASSUME Shape, Measured, [Next]_vars
  PROVE  Measured'
<1>1. TypeOK
  BY DEF Shape
<1>2. CASE QuietStep
  BY <1>2, MeasuredKept DEF QuietStep, disk, loop
<1>3. CASE ForgetStep
  BY <1>3, MeasuredKept DEF ForgetStep
<1>4. CASE Resume
  <2>1. cfg' = cfg /\ files' = files /\ pc' \in {"step", "raised"}
    BY <1>4, ResumeCases DEF job, disk, Continues
  <2> QED
    BY <2>1, MeasuredKept
<1>5. CASE RunStep \/ Schedule \/ EndEpoch
  <2>1. cfg' = cfg /\ files' = files
        /\ pc' \in {"schedule", "step", "evaluate", "leaving"}
    BY <1>5 DEF RunStep, Schedule, EndEpoch, job, disk
  <2> QED
    BY <2>1, MeasuredKept
<1>6. CASE Evaluate
  <2>1. cfg' = cfg /\ files' = files /\ epoch' = epoch
    BY <1>6 DEF Evaluate, job, disk
  <2>2. EvaluationDue => metric'.epoch = epoch'
    BY <1>6, <2>1 DEF Evaluate
  <2> QED
    BY <2>1, <2>2, MeasuredKept
<1>7. CASE Checkpoint \/ (Save /\ (OpenTag \/ WriteTag))
  <2>1. cfg' = cfg /\ files' = files /\ pc \in {"checkpoint", "save"}
        /\ UNCHANGED <<epoch, metric>>
    BY <1>7 DEF Checkpoint, Save, OpenTag, WriteTag, job, disk, loop
  <2> QED
    BY <2>1, MeasuredKept
<1> QED
  BY <1>1, <1>2, <1>3, <1>4, <1>5, <1>6, <1>7, NextCases, MeasuredOpenFile,
     MeasuredWriteFile

\* Between epochs model_best holds the best metric this start has saved, and
\* with aligned periods a periodic file the metric of its own epoch
\* (PeriodicCheckpointer.step, EvalHook.after_epoch).
THEOREM BestCorrect == Spec => []BestIsBest
<1>1. Init => Shape /\ Topped /\ Measured
  <2> SUFFICES ASSUME Init
               PROVE  Topped /\ Measured
    BY ShapeInit
  <2>1. pc = "down" /\ DOMAIN files = {}
    BY DEF Init
  <2> QED
    BY <2>1 DEF Topped, Measured, Ongoing
<1>2. Shape /\ Topped /\ Measured /\ [Next]_vars
        => (Shape /\ Topped /\ Measured)'
  BY ShapeInductive, ToppedInductive, MeasuredInductive
<1>3. Shape /\ Topped /\ Measured => BestIsBest
  BY DEF Topped, Measured, Bests, BestIsBest, Ongoing
<1> QED
  BY <1>1, <1>2, <1>3, PTL DEF Spec

-----------------------------------------------------------------------------
(* A job that dies and resumes stays on the course of an uninterrupted one *)

\* Trained without maxima and minima.
LEMMA TrainedIs ==
  ASSUME cfg \in Configs, NEW i \in Nat, NEW s
  PROVE  Trained(s, i) <=>
           /\ s.warm <= IF i <= cfg.warmupIters THEN i ELSE cfg.warmupIters
           /\ s.weights.head <= i
           /\ ~cfg.amp =>
                /\ s.warm = IF i <= cfg.warmupIters THEN i
                                                    ELSE cfg.warmupIters
                /\ s.weights.head = i
           /\ s.weights.backbone <= IF i <= cfg.freezeIters THEN 0
                                    ELSE i - cfg.freezeIters
           /\ cfg.freezeIters <= cfg.evalPeriod * cfg.itersPerEpoch =>
                s.weights.stats = IF i <= cfg.freezeIters THEN 0
                                  ELSE i - cfg.freezeIters
<1>1. cfg.warmupIters \in Int /\ cfg.freezeIters \in Int /\ i \in Int
  BY ConfigTypes
<1>2. Min({i, cfg.warmupIters})
        = IF i <= cfg.warmupIters THEN i ELSE cfg.warmupIters
  BY <1>1, MinOfTwo
<1>3. Unfrozen(i) = IF i <= cfg.freezeIters THEN 0 ELSE i - cfg.freezeIters
  <2>1. i - cfg.freezeIters \in Int /\ 0 \in Int
    BY <1>1
  <2>2. Unfrozen(i) = IF 0 >= i - cfg.freezeIters THEN 0
                                                  ELSE i - cfg.freezeIters
    BY <2>1, MaxOfTwo DEF Unfrozen
  <2> QED
    BY <1>1, <2>2
<1> QED
  BY <1>2, <1>3 DEF Trained

\* The schedule has not stepped before the first epoch, and steps once behind
\* each that is due.
LEMMA ScheduledFinite ==
  ASSUME NEW e \in Nat
  PROVE  IsFiniteSet(Scheduled(e)) /\ Cardinality(Scheduled(e)) \in Nat
<1>1. IsFiniteSet(1..e)
  BY FS_Interval
<1>2. Scheduled(e) \subseteq 1..e
  BY DEF Scheduled
<1>3. IsFiniteSet(Scheduled(e))
  BY <1>1, <1>2, FS_Subset
<1> QED
  BY <1>3, FS_CardinalityType

LEMMA ScheduledNone == Cardinality(Scheduled(0)) = 0
<1>1. Scheduled(0) = {}
  BY DEF Scheduled
<1> QED
  BY <1>1, FS_EmptySet

LEMMA ScheduledNext ==
  ASSUME cfg \in Configs, NEW e \in Nat
  PROVE  Cardinality(Scheduled(e + 1))
           = IF (e + 1) * cfg.itersPerEpoch >= cfg.warmupIters
                /\ e + 1 > cfg.delayEpochs
             THEN Cardinality(Scheduled(e)) + 1
             ELSE Cardinality(Scheduled(e))
<1> DEFINE Steps(k) == k * cfg.itersPerEpoch >= cfg.warmupIters
                       /\ k > cfg.delayEpochs
<1>1. 1..(e + 1) = (1..e) \cup {e + 1} /\ e + 1 \notin 1..e
  OBVIOUS
<1>2. Scheduled(e) = {k \in 1..e : Steps(k)}
      /\ Scheduled(e + 1) = {k \in 1..(e + 1) : Steps(k)}
  BY DEF Scheduled
<1> HIDE DEF Steps
<1>3. e + 1 \notin Scheduled(e)
  BY <1>1, <1>2
<1>4. CASE Steps(e + 1)
  <2>1. Scheduled(e + 1) = Scheduled(e) \cup {e + 1}
    BY <1>1, <1>2, <1>4
  <2> QED
    BY <1>3, <1>4, <2>1, ScheduledFinite, FS_AddElement DEF Steps
<1>5. CASE ~Steps(e + 1)
  <2>1. Scheduled(e + 1) = Scheduled(e)
    BY <1>1, <1>2, <1>5
  <2> QED
    BY <1>5, <2>1 DEF Steps
<1> QED
  BY <1>4, <1>5

LEMMA OnDiskKept ==
  ASSUME OnDisk, cfg' = cfg, files' = files
  PROVE  OnDisk'
BY DEF OnDisk, Whole, Trained, Scheduled, Unfrozen

LEMMA InMemoryKept ==
  ASSUME InMemory, UNCHANGED <<cfg, loop>>,
         \/ pc' = pc \/ pc' \notin Ongoing
         \/ pc' = "save" /\ pc = "checkpoint"
  PROVE  InMemory'
BY DEF InMemory, Trained, Scheduled, Unfrozen, Now, loop, Ongoing, EpochOver

LEMMA InMemoryResume ==
  ASSUME Shape, OnDisk, Resume
  PROVE  InMemory'
<1>1. /\ cfg' = cfg /\ cfg \in Configs /\ Fresh /\ pc' \in {"step", "raised"}
      /\ UNCHANGED disk
  BY ResumeCases DEF Shape, TypeOK, Placed, job, Continues
<1>2. CASE pc' = "raised"
  BY <1>2 DEF InMemory, Ongoing, EpochOver
<1>3. CASE pc' = "step" /\ UNCHANGED loop
  <2>1. Trained(Now, 0)
    <3>1. 0 \in Nat /\ cfg.warmupIters \in Nat /\ cfg.freezeIters \in Nat
      BY <1>1, ConfigTypes
    <3>2. Now.warm = 0 /\ Now.weights = Untrained
      BY <1>1 DEF Now, Fresh
    <3> QED
      BY <1>1, <3>1, <3>2, TrainedIs DEF Untrained
  <2>2. Trained(Now, iter)'
    BY <1>1, <1>3, <2>1 DEF Trained, Unfrozen, Now, loop, Fresh
  <2>3. sched' = Cardinality(Scheduled(epoch))'
    BY <1>1, <1>3, ScheduledNone DEF Scheduled, loop, Fresh
  <2>4. layers' = "open"
    BY <1>1, <1>3 DEF loop, Fresh
  <2> QED
    BY <1>3, <2>2, <2>3, <2>4 DEF InMemory, EpochOver
<1>4. CASE pc' = "step" /\ Whole(tag) /\ Continues(files[tag][1])
  <2> DEFINE c == files[tag][1]
  <2>1. /\ Trained(c, (c.epoch + 1) * cfg.itersPerEpoch)
        /\ c.sched = Cardinality(Scheduled(c.epoch + 1))
    BY <1>4 DEF OnDisk, Whole
  <2>2. Continues(c)
    BY <1>4
  <2> HIDE DEF c
  <2>3. Trained(Now, iter)'
    BY <1>1, <2>1, <2>2 DEF Trained, Unfrozen, Now, Continues
  <2>4. sched' = Cardinality(Scheduled(epoch))'
    BY <1>1, <2>1, <2>2 DEF Scheduled, Continues
  <2>5. layers' = "open"
    BY <1>1, <2>2 DEF Continues, Fresh
  <2> QED
    BY <1>4, <2>3, <2>4, <2>5 DEF InMemory, EpochOver
<1> QED
  BY <1>1, <1>2, <1>3, <1>4, ResumeCases

LEMMA InMemorySchedule ==
  ASSUME Shape, InMemory, Schedule
  PROVE  InMemory'
<1>1. /\ pc = "schedule" /\ pc' = "evaluate" /\ cfg' = cfg
      /\ UNCHANGED <<epoch, iter, weights, layers, warm>>
      /\ sched' = IF SchedulerSteps THEN sched + 1 ELSE sched
  BY DEF Schedule, job
<1>2. /\ cfg \in Configs /\ epoch \in Nat /\ iter \in Nat
      /\ iter = (epoch + 1) * cfg.itersPerEpoch
      /\ cfg.warmupIters \in Nat /\ cfg.delayEpochs \in Nat
  BY <1>1, AtEpochEnd, ConfigTypes DEF EpochOver, Ongoing
<1>3. Trained(Now, iter) /\ sched = Cardinality(Scheduled(epoch))
  BY <1>1 DEF InMemory, Ongoing
<1>4. SchedulerSteps <=> (epoch + 1) * cfg.itersPerEpoch >= cfg.warmupIters
                         /\ epoch + 1 > cfg.delayEpochs
  BY <1>2 DEF SchedulerSteps
<1>5. sched' = Cardinality(Scheduled(epoch + 1))
  BY <1>1, <1>2, <1>3, <1>4, ScheduledNext
<1>6. Scheduled(epoch + 1)' = Scheduled(epoch + 1)
  BY <1>1 DEF Scheduled
<1>7. Trained(Now, iter)'
  BY <1>1, <1>3 DEF Trained, Unfrozen, Now
<1> QED
  BY <1>1, <1>5, <1>6, <1>7 DEF InMemory, Ongoing

\* An evaluation that stirs frozen layers comes behind the freezing, when the
\* freezing ends within the first period of evaluations.
LEMMA EvaluatedLate ==
  ASSUME cfg \in Configs, NEW e \in Nat, cfg.evalPeriod > 0,
         Divides(cfg.evalPeriod, e + 1),
         cfg.freezeIters <= cfg.evalPeriod * cfg.itersPerEpoch
  PROVE  (e + 1) * cfg.itersPerEpoch >= cfg.freezeIters
<1>1. /\ cfg.evalPeriod \in Nat \ {0} /\ cfg.itersPerEpoch \in Nat
      /\ e + 1 \in Nat \ {0} /\ cfg.freezeIters \in Nat
  BY ConfigTypes
<1>2. cfg.evalPeriod <= e + 1
  BY <1>1, MultipleNotLess DEF Divides
<1>3. cfg.evalPeriod * cfg.itersPerEpoch <= (e + 1) * cfg.itersPerEpoch
  BY <1>1, <1>2, ProductGrows
<1>4. cfg.evalPeriod * cfg.itersPerEpoch \in Nat
      /\ (e + 1) * cfg.itersPerEpoch \in Nat
  BY <1>1
<1> QED
  BY <1>1, <1>3, <1>4

LEMMA InMemoryEvaluate ==
  ASSUME Shape, InMemory, Evaluate
  PROVE  InMemory'
<1>1. /\ pc = "evaluate" /\ pc' = "checkpoint" /\ cfg' = cfg
      /\ UNCHANGED <<epoch, iter, weights, sched, warm>>
      /\ layers' = IF EvaluationDue /\ layers = "held" THEN "stirred"
                                                       ELSE layers
  BY DEF Evaluate, job
<1>2. /\ cfg \in Configs /\ epoch \in Nat
      /\ iter = (epoch + 1) * cfg.itersPerEpoch
  BY <1>1, AtEpochEnd DEF EpochOver, Ongoing
<1>3. Trained(Now, iter)' /\ sched' = Cardinality(Scheduled(epoch + 1))'
  BY <1>1 DEF InMemory, Ongoing, EpochOver, Trained, Unfrozen, Now, Scheduled
<1>4. layers' = "stirred" => layers = "stirred" \/ EvaluationDue
  BY <1>1
<1>5. ASSUME layers' = "stirred",
             cfg.freezeIters <= cfg.evalPeriod * cfg.itersPerEpoch
      PROVE  iter >= cfg.freezeIters
  <2>1. CASE layers = "stirred"
    BY <1>1, <1>5, <2>1 DEF InMemory, Ongoing
  <2>2. CASE EvaluationDue
    BY <1>2, <1>5, <2>2, EvaluatedLate DEF EvaluationDue
  <2> QED
    BY <1>4, <1>5, <2>1, <2>2
<1> QED
  BY <1>1, <1>3, <1>5 DEF InMemory, Ongoing, EpochOver

LEMMA InMemoryEndEpoch ==
  ASSUME Shape, InMemory, EndEpoch
  PROVE  InMemory'
<1>1. /\ pc = "save" /\ cfg' = cfg
      /\ UNCHANGED <<iter, weights, layers, warm, sched>>
      /\ \/ pc' = "leaving" /\ epoch' = epoch
         \/ pc' = "step" /\ epoch' = epoch + 1
  BY DEF EndEpoch, job
<1>2. Trained(Now, iter)'
  BY <1>1 DEF InMemory, Ongoing, Trained, Unfrozen, Now
<1>3. sched = Cardinality(Scheduled(epoch + 1))
  BY <1>1 DEF InMemory, Ongoing, EpochOver
<1>4. CASE pc' = "leaving" /\ epoch' = epoch
  <2>1. sched' = Cardinality(Scheduled(epoch + 1))'
    BY <1>1, <1>3, <1>4 DEF Scheduled
  <2> QED
    BY <1>1, <1>2, <1>4, <2>1 DEF InMemory, Ongoing
<1>5. CASE pc' = "step" /\ epoch' = epoch + 1
  <2>1. sched' = Cardinality(Scheduled(epoch))'
    BY <1>1, <1>3, <1>5 DEF Scheduled
  <2> QED
    BY <1>1, <1>2, <1>5, <2>1 DEF InMemory, Ongoing, EpochOver
<1> QED
  BY <1>1, <1>4, <1>5

LEMMA InMemoryRunStep ==
  ASSUME Shape, InMemory, RunStep
  PROVE  InMemory'
<1>1. /\ pc = "step" /\ pc' \in {"step", "schedule"} /\ cfg' = cfg
      /\ epoch' = epoch /\ sched' = sched /\ iter' = iter + 1
      /\ layers' = Layers
  BY DEF RunStep, job
<1>2. PICK scale \in Scalings :
        LET applied == scale # "dropped" IN
        /\ weights' =
             [head     |-> weights.head + IF applied THEN 1 ELSE 0,
              backbone |-> weights.backbone
                             + IF applied /\ Thawed THEN 1 ELSE 0,
              stats    |-> weights.stats + IF Layers = "held" THEN 0 ELSE 1]
        /\ frozenSteps' = IF applied /\ ~Thawed THEN frozenSteps + 1
                                                ELSE frozenSteps
        /\ warm' = IF WarmsUp /\ scale = "same" THEN warm + 1 ELSE warm
  BY DEF RunStep
<1>3. /\ cfg \in Configs /\ iter \in Nat /\ iter + 1 \in Nat
      /\ weights.head \in Nat /\ weights.backbone \in Nat
      /\ weights.stats \in Nat /\ warm \in Nat
      /\ frozenSteps \in Nat /\ frozenSteps <= iter
      /\ layers \in {"open", "held", "stirred"}
      /\ cfg.warmupIters \in Nat /\ cfg.freezeIters \in Nat
      /\ cfg.amp \in BOOLEAN
  BY <1>1, ConfigTypes
     DEF Shape, TypeOK, Weights, Iterations, Placed, Ongoing
<1>4. /\ warm <= IF iter <= cfg.warmupIters THEN iter ELSE cfg.warmupIters
      /\ weights.head <= iter
      /\ ~cfg.amp =>
           /\ warm = IF iter <= cfg.warmupIters THEN iter ELSE cfg.warmupIters
           /\ weights.head = iter
      /\ weights.backbone <= IF iter <= cfg.freezeIters THEN 0
                             ELSE iter - cfg.freezeIters
      /\ cfg.freezeIters <= cfg.evalPeriod * cfg.itersPerEpoch =>
           weights.stats = IF iter <= cfg.freezeIters THEN 0
                           ELSE iter - cfg.freezeIters
  <2>1. Trained(Now, iter)
    BY <1>1 DEF InMemory, Ongoing
  <2> QED
    BY <1>3, <2>1, TrainedIs DEF Now
<1>5. cfg.freezeIters <= cfg.evalPeriod * cfg.itersPerEpoch
        => (layers = "stirred" => iter >= cfg.freezeIters)
  BY <1>1 DEF InMemory, Ongoing
<1>6. ~cfg.amp => scale = "same"
  BY <1>2 DEF Scalings
<1>7. /\ weights'.head <= iter + 1
      /\ ~cfg.amp => weights'.head = iter + 1
  BY <1>2, <1>3, <1>4, <1>6
<1>8. weights'.backbone <= IF iter + 1 <= cfg.freezeIters THEN 0
                           ELSE iter + 1 - cfg.freezeIters
  <2>1. Thawed => iter >= cfg.freezeIters
    BY <1>3 DEF Thawed
  <2>2. weights'.backbone <= weights.backbone + IF Thawed THEN 1 ELSE 0
    BY <1>2, <1>3
  <2>3. weights'.backbone \in Nat
    BY <1>2, <1>3
  <2> QED
    BY <1>3, <1>4, <2>1, <2>2, <2>3
<1>9. /\ warm' <= IF iter + 1 <= cfg.warmupIters THEN iter + 1
                  ELSE cfg.warmupIters
      /\ ~cfg.amp => warm' = IF iter + 1 <= cfg.warmupIters THEN iter + 1
                             ELSE cfg.warmupIters
  BY <1>2, <1>3, <1>4, <1>6 DEF WarmsUp
<1>10. ASSUME cfg.freezeIters <= cfg.evalPeriod * cfg.itersPerEpoch
       PROVE  /\ weights'.stats = IF iter + 1 <= cfg.freezeIters THEN 0
                                  ELSE iter + 1 - cfg.freezeIters
              /\ layers' # "stirred"
  <2>1. weights.stats = IF iter <= cfg.freezeIters THEN 0
                        ELSE iter - cfg.freezeIters
    BY <1>4, <1>10
  <2>2. Layers = IF iter < cfg.freezeIters THEN "held" ELSE "open"
    BY <1>3, <1>5, <1>10 DEF Layers
  <2>3. weights'.stats = weights.stats + IF Layers = "held" THEN 0 ELSE 1
    BY <1>2
  <2> QED
    BY <1>1, <1>3, <2>1, <2>2, <2>3
<1>11. Trained([weights |-> weights', warm |-> warm'], iter + 1)
  BY <1>3, <1>7, <1>8, <1>9, <1>10, TrainedIs
<1>12. Trained(Now, iter)'
  BY <1>1, <1>11 DEF Trained, Unfrozen, Now
<1>13. sched' = Cardinality(Scheduled(epoch))'
  BY <1>1 DEF InMemory, Scheduled
<1> QED
  BY <1>1, <1>10, <1>12, <1>13 DEF InMemory, EpochOver

LEMMA OnDiskOpenFile ==
  ASSUME Shape, OnDisk, Save, OpenFile
  PROVE  OnDisk'
<1>1. Put(Head(saves), <<>>) /\ cfg' = cfg
  BY SaveFacts DEF OpenFile
<1>2. \A n : Whole(n)' =>
        Whole(n) /\ n \in DOMAIN files /\ files'[n] = files[n]
  BY <1>1, FileOpened DEF Whole
<1> QED
  BY <1>1, <1>2 DEF OnDisk, Trained, Unfrozen, Scheduled

LEMMA OnDiskWriteFile ==
  ASSUME Shape, InMemory, OnDisk, Save, WriteFile
  PROVE  OnDisk'
<1>1. Put(Head(saves), <<Record>>) /\ cfg' = cfg /\ pc = "save"
  BY SaveFacts DEF WriteFile
<1>2. \A n : n # Head(saves) /\ Whole(n)' =>
        Whole(n) /\ n \in DOMAIN files /\ files'[n] = files[n]
  BY <1>1, FileWritten DEF Whole
<1>3. files'[Head(saves)][1] = Record
  BY <1>1, FileWritten
<1>4. /\ Trained(Record, (epoch + 1) * cfg.itersPerEpoch)
      /\ Record.sched = Cardinality(Scheduled(epoch + 1))
      /\ Record.epoch = epoch
  <2>1. /\ Trained(Now, iter) /\ sched = Cardinality(Scheduled(epoch + 1))
        /\ iter = (epoch + 1) * cfg.itersPerEpoch
    BY <1>1, AtEpochEnd DEF InMemory, Ongoing, EpochOver
  <2>2. /\ Record.weights = Now.weights /\ Record.warm = Now.warm
        /\ Record.sched = sched /\ Record.epoch = epoch
    BY DEF Record, Now
  <2> QED
    BY <2>1, <2>2 DEF Trained
<1>5. ASSUME NEW n \in DOMAIN files', Whole(n)'
      PROVE  LET c == files'[n][1] IN
             /\ Trained(c, (c.epoch + 1) * cfg.itersPerEpoch)
             /\ c.sched = Cardinality(Scheduled(c.epoch + 1))
  <2>1. CASE n = Head(saves)
    BY <1>3, <1>4, <2>1
  <2>2. CASE n # Head(saves)
    BY <1>2, <1>5, <2>2 DEF OnDisk
  <2> QED
    BY <2>1, <2>2
<1> QED
  BY <1>1, <1>5 DEF OnDisk, Trained, Unfrozen, Scheduled

LEMMA LineageInductive ==
  ASSUME Shape, InMemory, OnDisk, [Next]_vars
  PROVE  InMemory' /\ OnDisk'
<1>1. TypeOK
  BY DEF Shape
<1>2. CASE QuietStep
  <2>1. pc' = pc \/ pc' \notin Ongoing
    BY <1>2 DEF QuietStep, Ongoing
  <2> QED
    BY <1>2, <2>1, InMemoryKept, OnDiskKept DEF QuietStep, disk
<1>3. CASE ForgetStep
  <2>1. pc' \notin Ongoing
    BY <1>3 DEF ForgetStep, Ongoing
  <2> QED
    BY <1>3, <2>1, OnDiskKept DEF ForgetStep, InMemory, EpochOver, Ongoing
<1>4. CASE Resume
  <2>1. cfg' = cfg /\ files' = files
    BY <1>4, ResumeCases DEF job, disk
  <2> QED
    BY <1>4, <2>1, InMemoryResume, OnDiskKept
<1>5. CASE RunStep \/ Schedule \/ Evaluate \/ EndEpoch
  <2>1. cfg' = cfg /\ files' = files
    BY <1>5 DEF RunStep, Schedule, Evaluate, EndEpoch, job, disk
  <2> QED
    BY <1>5, <2>1, OnDiskKept, InMemoryRunStep, InMemorySchedule,
       InMemoryEvaluate, InMemoryEndEpoch
<1>6. CASE Checkpoint
  <2>1. UNCHANGED <<cfg, loop>> /\ files' = files
        /\ pc' = "save" /\ pc = "checkpoint"
    BY <1>6 DEF Checkpoint, job, disk
  <2> QED
    BY <2>1, InMemoryKept, OnDiskKept
<1>7. CASE Save
  <2>1. UNCHANGED <<cfg, loop>> /\ pc' = pc
    BY <1>7, SaveFacts
  <2>2. InMemory'
    BY <2>1, InMemoryKept
  <2>3. CASE OpenTag \/ WriteTag
    BY <2>1, <2>2, <2>3, OnDiskKept DEF OpenTag, WriteTag
  <2>4. OpenFile \/ WriteFile \/ OpenTag \/ WriteTag
    BY <1>7 DEF Save
  <2> QED
    BY <1>7, <2>2, <2>3, <2>4, OnDiskOpenFile, OnDiskWriteFile
<1> QED
  BY <1>1, <1>2, <1>3, <1>4, <1>5, <1>6, <1>7, NextCases

-----------------------------------------------------------------------------
(* What the frozen layers have missed *)

\* The updates a start has still to leave them out of are its freezing steps;
\* a job that is being built has not begun to.
Missed ==
  /\ Running => starts \in Nat \ {0}
  /\ pc \in Ongoing =>
       weights.head <= weights.backbone + frozenSteps
                         + cfg.freezeIters * (starts - 1)
  /\ \A n \in DOMAIN files : Whole(n) =>
       LET w == files[n][1].weights IN
       w.head <= w.backbone
         + cfg.freezeIters * (IF pc = "building" THEN starts - 1 ELSE starts)

\* One start more freezes freezeIters updates more.
LEMMA FreezesAgain ==
  ASSUME NEW f \in Nat, NEW s \in Nat \ {0}
  PROVE  /\ f * s = f * (s - 1) + f
         /\ f * s \in Nat /\ f * (s - 1) \in Nat
<1> DEFINE r == s - 1
<1>1. r \in Nat /\ s = r + 1
  OBVIOUS
<1> HIDE DEF r
<1>2. f * (r + 1) = f * r + f
  BY <1>1
<1>3. f * r \in Nat /\ f * (r + 1) \in Nat
  BY <1>1
<1>4. s - 1 = r
  BY <1>1
<1> QED
  BY <1>1, <1>2, <1>3, <1>4

LEMMA MissedTypes ==
  ASSUME TypeOK
  PROVE  /\ cfg.freezeIters \in Nat /\ starts \in Nat
         /\ weights.head \in Nat /\ weights.backbone \in Nat
         /\ frozenSteps \in Nat /\ frozenSteps <= cfg.freezeIters
         /\ \A n : Whole(n) =>
              /\ n \in DOMAIN files
              /\ files[n][1].weights.head \in Nat
              /\ files[n][1].weights.backbone \in Nat
<1>1. cfg \in Configs /\ cfg.freezeIters \in Nat /\ cfg.maxEpoch \in Nat
      /\ cfg.itersPerEpoch \in Nat
  BY ConfigTypes DEF TypeOK
<1>2. \A w \in Weights : w.head \in Nat /\ w.backbone \in Nat
  BY <1>1 DEF Iterations, Weights
<1>3. starts \in Nat /\ weights \in Weights
      /\ frozenSteps \in 0..cfg.freezeIters
  BY TrainingAssumption DEF TypeOK
<1>4. ASSUME NEW n, Whole(n)
      PROVE  n \in DOMAIN files /\ files[n][1].weights \in Weights
  BY <1>4, Loaded DEF Checkpoints
<1>5. weights.head \in Nat /\ weights.backbone \in Nat
  BY <1>2, <1>3
<1>6. \A n : Whole(n) =>
        /\ n \in DOMAIN files
        /\ files[n][1].weights.head \in Nat
        /\ files[n][1].weights.backbone \in Nat
  BY <1>2, <1>4
<1>7. frozenSteps \in Nat /\ frozenSteps <= cfg.freezeIters
  BY <1>1, <1>3
<1> QED
  BY <1>1, <1>3, <1>5, <1>6, <1>7

\* A start that resumes takes over what its file has missed, and counts anew.
LEMMA MissedResume ==
  ASSUME Shape, Missed, Resume
  PROVE  Missed'
<1>1. /\ pc = "building" /\ Fresh /\ cfg' = cfg /\ starts' = starts
      /\ files' = files /\ pc' \in {"step", "raised"}
  BY ResumeCases DEF Shape, Placed, job, disk, Continues
<1>2. TypeOK
  BY DEF Shape
<1>3. starts \in Nat \ {0} /\ cfg.freezeIters \in Nat
  BY <1>1, <1>2, MissedTypes DEF Missed, Running
<1>4. /\ cfg.freezeIters * starts = cfg.freezeIters * (starts - 1) + cfg.freezeIters
      /\ cfg.freezeIters * starts \in Nat
      /\ cfg.freezeIters * (starts - 1) \in Nat
  BY <1>3, FreezesAgain
<1>5. ASSUME NEW n, Whole(n)
      PROVE  files[n][1].weights.head <=
               files[n][1].weights.backbone + cfg.freezeIters * (starts - 1)
  BY <1>1, <1>5 DEF Missed, Whole
<1>6. ASSUME NEW n \in DOMAIN files', Whole(n)'
      PROVE  LET w == files'[n][1].weights IN
             w.head <= w.backbone
               + cfg'.freezeIters * (IF pc' = "building" THEN starts' - 1 ELSE starts')
  <2>1. Whole(n) /\ files'[n] = files[n]
    BY <1>1, <1>6 DEF Whole
  <2>2. /\ files[n][1].weights.head \in Nat
        /\ files[n][1].weights.backbone \in Nat
    BY <1>2, <2>1, MissedTypes
  <2> QED
    BY <1>1, <1>3, <1>4, <1>5, <2>1, <2>2
<1>7. ASSUME pc' \in Ongoing
      PROVE  weights'.head <= weights'.backbone + frozenSteps'
                                + cfg'.freezeIters * (starts' - 1)
  <2>1. pc' = "step"
    BY <1>1, <1>7 DEF Ongoing
  <2>2. CASE UNCHANGED loop
    <3>1. weights' = Untrained /\ frozenSteps' = 0
      BY <1>1, <2>2 DEF Fresh, loop
    <3> QED
      BY <1>1, <1>4, <3>1 DEF Untrained
  <2>3. CASE Whole(tag) /\ Continues(files[tag][1])
    <3>1. weights' = files[tag][1].weights /\ frozenSteps' = 0
      BY <1>1, <2>3 DEF Continues, Fresh
    <3>2. /\ files[tag][1].weights.head \in Nat
          /\ files[tag][1].weights.backbone \in Nat
      BY <1>2, <2>3, MissedTypes
    <3> QED
      BY <1>1, <1>4, <1>5, <2>3, <3>1, <3>2
  <2> QED
    BY <2>1, <2>2, <2>3, ResumeCases
<1>8. Running' => starts' \in Nat \ {0}
  BY <1>1, <1>3
<1> QED
  BY <1>6, <1>7, <1>8 DEF Missed

\* An update of the head is one of the backbone or a freezing step.
LEMMA MissedRunStep ==
  ASSUME Shape, Missed, RunStep
  PROVE  Missed'
<1>1. /\ pc = "step" /\ pc' \in {"step", "schedule"} /\ cfg' = cfg
      /\ starts' = starts /\ files' = files
  BY DEF RunStep, job, disk
<1>2. PICK scale \in Scalings :
        LET applied == scale # "dropped" IN
        /\ weights' =
             [head     |-> weights.head + IF applied THEN 1 ELSE 0,
              backbone |-> weights.backbone
                             + IF applied /\ Thawed THEN 1 ELSE 0,
              stats    |-> weights.stats + IF Layers = "held" THEN 0 ELSE 1]
        /\ frozenSteps' = IF applied /\ ~Thawed THEN frozenSteps + 1
                                                ELSE frozenSteps
  BY DEF RunStep
<1>3. TypeOK
  BY DEF Shape
<1>4. starts \in Nat \ {0}
  BY <1>1 DEF Missed, Running
<1>5. /\ weights.head \in Nat /\ weights.backbone \in Nat
      /\ frozenSteps \in Nat /\ cfg.freezeIters * (starts - 1) \in Nat
  BY <1>3, <1>4, MissedTypes, FreezesAgain
<1>6. weights.head <= weights.backbone + frozenSteps
                        + cfg.freezeIters * (starts - 1)
  BY <1>1 DEF Missed, Ongoing
<1>7. weights'.head - weights'.backbone - frozenSteps'
        = weights.head - weights.backbone - frozenSteps
  BY <1>2, <1>5
<1>8. weights'.head \in Nat /\ weights'.backbone \in Nat /\ frozenSteps' \in Nat
  BY <1>2, <1>5
<1>9. weights'.head <= weights'.backbone + frozenSteps'
                         + cfg.freezeIters * (starts - 1)
  BY <1>5, <1>6, <1>7, <1>8
<1> QED
  BY <1>1, <1>4, <1>9 DEF Missed, Whole

\* A file takes over what the job has missed; its freezing steps are part of
\* what this start may leave out.
LEMMA MissedWriteFile ==
  ASSUME Shape, Missed, Save, WriteFile
  PROVE  Missed'
<1>1. /\ Put(Head(saves), <<Record>>) /\ pc = "save" /\ pc' = "save"
      /\ cfg' = cfg /\ starts' = starts /\ UNCHANGED loop
  <2>1. UNCHANGED <<job, loop>>
    BY SaveFacts
  <2>2. cfg' = cfg /\ starts' = starts
    BY <2>1 DEF job
  <2> QED
    BY <2>1, <2>2, SaveFacts DEF WriteFile
<1>2. \A n : n # Head(saves) /\ Whole(n)' =>
        Whole(n) /\ n \in DOMAIN files /\ files'[n] = files[n]
  BY <1>1, FileWritten DEF Whole
<1>3. files'[Head(saves)][1].weights = weights
  <2>1. files'[Head(saves)][1] = Record
    BY <1>1, FileWritten
  <2> QED
    BY <2>1 DEF Record
<1>4. TypeOK
  BY DEF Shape
<1>5. starts \in Nat \ {0}
  BY <1>1 DEF Missed, Running
<1>6. /\ weights.head \in Nat /\ weights.backbone \in Nat
      /\ frozenSteps \in Nat /\ frozenSteps <= cfg.freezeIters
      /\ cfg.freezeIters \in Nat
  BY <1>4, MissedTypes
<1>7. /\ cfg.freezeIters * starts = cfg.freezeIters * (starts - 1) + cfg.freezeIters
      /\ cfg.freezeIters * (starts - 1) \in Nat
  BY <1>5, <1>6, FreezesAgain
<1>8. weights.head <= weights.backbone + frozenSteps
                        + cfg.freezeIters * (starts - 1)
  BY <1>1 DEF Missed, Ongoing
<1>9. weights.head <= weights.backbone + cfg.freezeIters * starts
  BY <1>6, <1>7, <1>8
<1>10. ASSUME NEW n \in DOMAIN files', Whole(n)'
       PROVE  LET w == files'[n][1].weights IN
              w.head <= w.backbone + cfg.freezeIters * starts
  <2>1. CASE n = Head(saves)
    BY <1>3, <1>9, <2>1
  <2>2. CASE n # Head(saves)
    BY <1>1, <1>2, <1>10, <2>2 DEF Missed
  <2> QED
    BY <2>1, <2>2
<1> QED
  BY <1>1, <1>5, <1>8, <1>10 DEF Missed, loop

\* A new start may miss more than those before it.
LEMMA MissedLaunch ==
  ASSUME Shape, Missed, Launch
  PROVE  Missed'
<1>1. TypeOK
  BY DEF Shape
<1>2. cfg' = cfg /\ files' = files /\ pc' = "building" /\ pc # "building"
      /\ starts' = starts + 1
  BY DEF Launch, Running
<1>3. \A n : Whole(n)' => Whole(n) /\ n \in DOMAIN files /\ files'[n] = files[n]
  BY <1>2 DEF Whole
<1>4. starts' - 1 = starts /\ starts' \in Nat \ {0}
  BY <1>1, <1>2, MissedTypes
<1> QED
  BY <1>2, <1>3, <1>4 DEF Missed, Ongoing

\* What the files have missed, whether or not this start has resumed.
LEMMA FilesMissed ==
  ASSUME TypeOK, Missed, NEW n, Whole(n)
  PROVE  files[n][1].weights.head <=
           files[n][1].weights.backbone + cfg.freezeIters * starts
<1>1. /\ files[n][1].weights.head \in Nat
      /\ files[n][1].weights.backbone \in Nat /\ n \in DOMAIN files
      /\ cfg.freezeIters \in Nat
  BY MissedTypes
<1>2. CASE pc = "building"
  <2>1. starts \in Nat \ {0}
    BY <1>2 DEF Missed, Running
  <2>2. /\ cfg.freezeIters * starts
             = cfg.freezeIters * (starts - 1) + cfg.freezeIters
        /\ cfg.freezeIters * (starts - 1) \in Nat
    BY <1>1, <2>1, FreezesAgain
  <2>3. files[n][1].weights.head <=
          files[n][1].weights.backbone + cfg.freezeIters * (starts - 1)
    BY <1>1, <1>2 DEF Missed
  <2> QED
    BY <1>1, <2>2, <2>3
<1>3. CASE pc # "building"
  BY <1>1, <1>3 DEF Missed
<1> QED
  BY <1>2, <1>3

\* No other step makes a job or a file miss more.
LEMMA MissedKept ==
  ASSUME Shape, Missed, cfg' = cfg, starts' = starts,
         Running' => Running, pc' = "building" => pc = "building",
         pc' \in Ongoing =>
           pc \in Ongoing /\ UNCHANGED <<weights, frozenSteps>>,
         \A n : Whole(n)' => Whole(n) /\ files'[n] = files[n]
  PROVE  Missed'
<1>1. TypeOK
  BY DEF Shape
<1>2. ASSUME NEW n \in DOMAIN files', Whole(n)'
      PROVE  LET w == files'[n][1].weights IN
             w.head <= w.backbone
               + cfg'.freezeIters
                   * (IF pc' = "building" THEN starts' - 1 ELSE starts')
  <2>1. Whole(n) /\ files'[n] = files[n] /\ n \in DOMAIN files
    BY <1>2 DEF Whole
  <2>2. CASE pc' = "building"
    BY <2>1, <2>2 DEF Missed
  <2>3. CASE pc' # "building"
    BY <1>1, <2>1, <2>3, FilesMissed
  <2> QED
    BY <2>2, <2>3
<1>3. pc' \in Ongoing =>
        weights'.head <= weights'.backbone + frozenSteps'
                           + cfg'.freezeIters * (starts' - 1)
  BY DEF Missed
<1>4. Running' => starts' \in Nat \ {0}
  BY DEF Missed
<1> QED
  BY <1>2, <1>3, <1>4 DEF Missed

LEMMA MissedInductive ==
  ASSUME Shape, Missed, [Next]_vars
  PROVE  Missed'
<1>1. TypeOK
  BY DEF Shape
<1>2. CASE Launch
  BY <1>2, MissedLaunch
<1>3. CASE Crash
  <2>1. cfg' = cfg /\ starts' = starts /\ files' = files /\ pc' = "down"
    BY <1>3 DEF Crash, job
  <2> QED
    BY <2>1, MissedKept DEF Whole, Running, Ongoing
<1>4. CASE \/ Fails \/ EvaluationHangs \/ LoaderPuts \/ LoaderDies
           \/ AfterTrain \/ UNCHANGED vars
  <2>1. /\ UNCHANGED <<cfg, starts, weights, frozenSteps>> /\ files' = files
        /\ pc' = pc \/ pc' \in {"failing", "hung", "raised", "finished"}
    BY <1>1, <1>4, QuietSteps DEF QuietStep, loop, disk
  <2>2. Running' => Running
    BY <1>4 DEF Fails, EvaluationHangs, LoaderPuts, LoaderDies, AfterTrain,
                vars, Running
  <2> QED
    BY <2>1, <2>2, MissedKept DEF Whole, Ongoing
<1>5. CASE Resume
  BY <1>5, MissedResume
<1>6. CASE RunStep
  BY <1>6, MissedRunStep
<1>7. CASE Schedule \/ Evaluate \/ Checkpoint \/ EndEpoch
  <2>1. /\ UNCHANGED <<cfg, starts, weights, frozenSteps>> /\ files' = files
        /\ pc \in Ongoing /\ pc' \in Ongoing
    BY <1>7 DEF Schedule, Evaluate, Checkpoint, EndEpoch, job, loop, disk,
                Ongoing
  <2> QED
    BY <2>1, MissedKept DEF Whole, Running, Ongoing
<1>8. CASE Save /\ ~WriteFile
  <2>1. UNCHANGED <<job, loop>> /\ pc = "save" /\ pc' = "save"
    BY <1>8, SaveFacts
  <2>2. UNCHANGED <<cfg, starts, weights, frozenSteps>>
    BY <2>1 DEF job, loop
  <2>3. CASE OpenFile
    <3>1. \A n : Whole(n)' =>
            Whole(n) /\ n \in DOMAIN files /\ files'[n] = files[n]
      BY <2>3, FileOpened DEF OpenFile, Whole
    <3> QED
      BY <2>1, <2>2, <3>1, MissedKept DEF Running, Ongoing
  <2>4. CASE OpenTag \/ WriteTag
    <3>1. files' = files
      BY <2>4 DEF OpenTag, WriteTag
    <3> QED
      BY <2>1, <2>2, <3>1, MissedKept DEF Whole, Running, Ongoing
  <2> QED
    BY <1>8, <2>3, <2>4 DEF Save
<1>9. CASE Save /\ WriteFile
  BY <1>9, MissedWriteFile
<1> QED
  BY <1>2, <1>3, <1>4, <1>5, <1>6, <1>7, <1>8, <1>9 DEF Next, Train

\* An epoch that steps the schedule lies behind the warm-up and the delay.
LEMMA ScheduledBehind ==
  ASSUME cfg \in Configs, NEW k \in Nat,
         k * cfg.itersPerEpoch >= cfg.warmupIters
  PROVE  (cfg.warmupIters + cfg.itersPerEpoch - 1) \div cfg.itersPerEpoch <= k
<1>1. cfg.warmupIters \in Nat /\ cfg.itersPerEpoch \in Nat \ {0}
  BY ConfigTypes
<1> DEFINE a == cfg.warmupIters + cfg.itersPerEpoch - 1
           q == a \div cfg.itersPerEpoch
<1>2. a \in Nat /\ q \in Nat /\ q * cfg.itersPerEpoch <= a
  BY <1>1
<1>3. a < (k + 1) * cfg.itersPerEpoch /\ (k + 1) * cfg.itersPerEpoch \in Nat
  BY <1>1
<1> HIDE DEF q
<1>4. ~ k + 1 <= q
  <2> SUFFICES ASSUME k + 1 <= q
               PROVE  FALSE
    OBVIOUS
  <2>1. (k + 1) * cfg.itersPerEpoch <= q * cfg.itersPerEpoch
    BY <1>1, <1>2, ProductGrows
  <2>2. q * cfg.itersPerEpoch \in Nat
    BY <1>1, <1>2
  <2> QED
    BY <1>2, <1>3, <2>1, <2>2
<1> QED
  BY <1>2, <1>4 DEF q

\* No epoch begins past the end of the schedule, T_max epochs behind its
\* beginning.
LEMMA ScheduledEnds ==
  ASSUME cfg \in Configs, NEW e \in Nat, e < cfg.maxEpoch, TMax >= 0
  PROVE  Cardinality(Scheduled(e)) <= TMax
<1> DEFINE w == (cfg.warmupIters + cfg.itersPerEpoch - 1)
                  \div cfg.itersPerEpoch
           m == IF w >= cfg.delayEpochs THEN w ELSE cfg.delayEpochs
<1>1. /\ cfg.warmupIters \in Nat /\ cfg.itersPerEpoch \in Nat \ {0}
      /\ cfg.delayEpochs \in Nat /\ cfg.maxEpoch \in Nat
  BY ConfigTypes
<1>2. w \in Nat
  BY <1>1
<1>3. \A k \in Scheduled(e) :
        k \in 1..e /\ k > cfg.delayEpochs /\ k >= w
  BY ScheduledBehind DEF Scheduled
<1> HIDE DEF w
<1>4. TMax = cfg.maxEpoch - m /\ m \in Nat
  BY <1>1, <1>2, MaxOfTwo DEF TMax, w
<1>5. \A k \in Scheduled(e) : k \in 1..e /\ k >= m
  BY <1>1, <1>2, <1>3
<1> HIDE DEF m
<1>6. Cardinality(Scheduled(e)) \in Nat
  BY ScheduledFinite
<1>7. CASE m = 0
  <2>1. Scheduled(e) \subseteq 1..e
    BY <1>5
  <2>2. IsFiniteSet(1..e) /\ Cardinality(1..e) = e
    <3>1. 1 \in Int /\ e \in Int
      OBVIOUS
    <3> QED
      BY <3>1, FS_Interval
  <2>3. Cardinality(Scheduled(e)) <= Cardinality(1..e)
    BY <2>1, <2>2, FS_Subset
  <2> QED
    BY <1>1, <1>4, <1>6, <1>7, <2>2, <2>3
<1>8. CASE m > 0
  <2>1. Scheduled(e) \subseteq m..e
    BY <1>4, <1>5
  <2>2. IsFiniteSet(m..e)
        /\ Cardinality(m..e) = IF m > e THEN 0 ELSE e - m + 1
    <3>1. m \in Int /\ e \in Int
      BY <1>4
    <3> QED
      BY <3>1, FS_Interval
  <2>3. Cardinality(Scheduled(e)) <= Cardinality(m..e)
    BY <2>1, <2>2, FS_Subset
  <2> QED
    BY <1>1, <1>4, <1>6, <1>8, <2>2, <2>3
<1> QED
  BY <1>4, <1>7, <1>8

\* However often a job dies and resumes, its epoch schedule has made the steps
\* of an uninterrupted job, in memory and in every file, and so have its warm-up
\* and its head without mixed precision; its frozen layers are updated neither
\* before their time nor more than freezeIters updates a start too late; and no
\* iteration is trained past the end of the schedule, T_max
\* (Checkpointer.resume_or_load, TrainerBase.train, LayerFreeze).
THEOREM LineageCorrect == Spec => []LineageExact
<1>1. Init => Shape /\ InMemory /\ OnDisk /\ Missed
  <2> SUFFICES ASSUME Init
               PROVE  InMemory /\ OnDisk /\ Missed
    BY ShapeInit
  <2>1. pc = "down" /\ DOMAIN files = {}
    BY DEF Init
  <2> QED
    BY <2>1 DEF InMemory, OnDisk, Missed, Running, Ongoing, EpochOver
<1>2. Shape /\ InMemory /\ OnDisk /\ Missed /\ [Next]_vars
        => (Shape /\ InMemory /\ OnDisk /\ Missed)'
  BY ShapeInductive, LineageInductive, MissedInductive
<1>3. Shape /\ InMemory /\ OnDisk /\ Missed => LineageExact
  <2> SUFFICES ASSUME Shape, InMemory, OnDisk, Missed
               PROVE  LineageExact
    OBVIOUS
  <2>1. cfg \in Configs /\ TypeOK
    BY DEF Shape, TypeOK
  <2>2. cfg.itersPerEpoch \in Nat \ {0} /\ cfg.maxEpoch \in Nat
    BY <2>1, ConfigTypes
  <2>3. ASSUME NEW n \in DOMAIN files, Whole(n)
        PROVE  LET c == files[n][1] IN
               /\ OnCourse(c, (c.epoch + 1) * cfg.itersPerEpoch)
               /\ Followed(c.weights)
    <3> DEFINE c == files[n][1]
    <3>1. c.epoch \in Nat
      BY <2>1, <2>3, Loaded
    <3>2. /\ Trained(c, (c.epoch + 1) * cfg.itersPerEpoch)
          /\ c.sched = Cardinality(Scheduled(c.epoch + 1))
      BY <2>3 DEF OnDisk
    <3>9. Followed(c.weights)
      BY <2>1, <2>3, FilesMissed DEF Followed
    <3> HIDE DEF c
    <3> DEFINE e == c.epoch + 1
    <3>3. e \in Nat
      BY <3>1
    <3> HIDE DEF e
    <3>4. /\ e * cfg.itersPerEpoch \in Nat
          /\ e * cfg.itersPerEpoch < (e + 1) * cfg.itersPerEpoch
      BY <2>1, <3>3, NextEpoch
    <3> DEFINE i == e * cfg.itersPerEpoch
    <3>5. i \in Nat /\ e * cfg.itersPerEpoch <= i
          /\ i < (e + 1) * cfg.itersPerEpoch
      BY <3>4
    <3> HIDE DEF i
    <3>6. i \div cfg.itersPerEpoch = e
      BY <2>2, <3>3, <3>5, Quotient
    <3>7. Trained(c, i) /\ c.sched = Cardinality(Scheduled(e))
      BY <3>2 DEF e, i
    <3>8. OnCourse(c, i)
      BY <3>6, <3>7 DEF OnCourse
    <3> QED
      BY <3>8, <3>9 DEF c, e, i
  <2>4. ASSUME pc = "step"
        PROVE  /\ OnCourse([weights |-> weights, warm |-> warm,
                                 sched |-> sched], iter)
               /\ Followed(weights)
               /\ TMax >= 0 => sched <= TMax
    <3>1. /\ epoch \in Nat /\ iter \in Nat /\ epoch < cfg.maxEpoch
          /\ epoch * cfg.itersPerEpoch <= iter
          /\ iter < (epoch + 1) * cfg.itersPerEpoch
      BY <2>2, <2>4
         DEF Shape, TypeOK, Placed, Ongoing, EpochOver, Iterations
    <3>2. Trained(Now, iter) /\ sched = Cardinality(Scheduled(epoch))
      BY <2>4 DEF InMemory, Ongoing
    <3>3. iter \div cfg.itersPerEpoch = epoch
      BY <2>2, <3>1, Quotient
    <3>4. OnCourse([weights |-> weights, warm |-> warm,
                         sched |-> sched], iter)
      BY <3>2, <3>3 DEF OnCourse, Trained, Now
    <3>5. TMax >= 0 => sched <= TMax
      BY <2>1, <3>1, <3>2, ScheduledEnds
    <3>6. Followed(weights)
      <4>1. starts \in Nat \ {0}
        BY <2>4 DEF Missed, Running
      <4>2. /\ weights.head \in Nat /\ weights.backbone \in Nat
            /\ frozenSteps \in Nat /\ frozenSteps <= cfg.freezeIters
            /\ cfg.freezeIters \in Nat
        BY <2>1, MissedTypes
      <4>3. /\ cfg.freezeIters * starts
                 = cfg.freezeIters * (starts - 1) + cfg.freezeIters
            /\ cfg.freezeIters * (starts - 1) \in Nat
        BY <4>1, <4>2, FreezesAgain
      <4>4. weights.head <= weights.backbone + frozenSteps
                              + cfg.freezeIters * (starts - 1)
        BY <2>4 DEF Missed, Ongoing
      <4> QED
        BY <4>2, <4>3, <4>4 DEF Followed
    <3> QED
      BY <3>4, <3>5, <3>6
  <2> QED
    BY <2>3, <2>4 DEF LineageExact
<1> QED
  BY <1>1, <1>2, <1>3, PTL DEF Spec
=============================================================================
