------------------------------ MODULE Training ------------------------------
(***************************************************************************)
(* A training job of the fast-reid library (src/fast-reid): the epoch loop *)
(* of TrainerBase.train with its hooks in the order build_hooks registers  *)
(* them, the checkpoints on disk with the file last_checkpoint that names  *)
(* the one to resume from, the thread that prefetches batches, and a       *)
(* process that can die at any moment and is started again with --resume.  *)
(*                                                                         *)
(* What a model has learnt is abstracted to how often each part of it has  *)
(* been updated, a metric to a number and the epoch it was measured in.    *)
(* Opening a file for writing empties it, and its content arrives in a     *)
(* later step.  One process, rank 0.                                       *)
(***************************************************************************)
EXTENDS Integers, Sequences, FiniteSets, FiniteSetsExt

CONSTANTS Configs,      \* the configurations of interest, records of Config
          Scores,       \* what an evaluation can measure
          MaxPrefetch,  \* BackgroundGenerator's max_prefetch
          MaxStarts     \* bound: how often the process is started

Config ==
  [maxEpoch : Nat \ {0}, itersPerEpoch : Nat \ {0}, warmupIters : Nat,
   delayEpochs : Nat, freezeIters : Nat, checkpointPeriod : Nat \ {0},
   evalPeriod : Nat, amp : BOOLEAN]

ASSUME TrainingAssumption ==
  /\ Configs \subseteq Config
  /\ Scores \subseteq Nat
  /\ MaxPrefetch \in Nat \ {0} /\ MaxStarts \in Nat

VARIABLES cfg,          \* the configuration, the same at every start
          pc,           \* where the process is
          starts,       \* how often it was started
          epoch, iter,  \* TrainerBase's counters
          weights,      \* updates of head, frozen layers, their statistics
          frozenSteps,  \* cnt of the optimizer's freezing step
          layers,       \* LayerFreeze: open, held, or held and then stirred
          warm, sched,  \* steps of warmup_sched and of lr_sched
          metric,       \* the latest metric in the event storage
          best,         \* best_metric of the periodic checkpointer
          saves, stage, \* the saves under way, and how far the first one is
          loader,       \* the prefetching thread and its queue
          files, tag,   \* the output directory and its last_checkpoint
          newest,       \* history: the newest epoch last_checkpoint has named
          resumed,      \* history: the file this start resumed from
          top           \* history: the best metric this start has saved

job  == <<cfg, starts>>
loop == <<epoch, iter, weights, frozenSteps, layers, warm, sched>>
disk == <<files, tag, newest, top>>
vars == <<job, pc, loop, metric, best, saves, stage, loader, disk, resumed>>

-----------------------------------------------------------------------------
(* model_0000.pth and so on are called by their epoch. *)

Best     == -1          \* model_best.pth
Final    == -2          \* model_final.pth
NoTag    == -3          \* there is no last_checkpoint
TornTag  == -4          \* last_checkpoint is empty
Names    == {Best, Final} \cup (0..cfg.maxEpoch - 1)

Unmeasured == [value |-> -1, epoch |-> -1]
Untrained  == [head |-> 0, backbone |-> 0, stats |-> 0]
NewLoader  == [alive |-> TRUE, queue |-> 0]

\* A file is there when it is in the domain of files; an empty sequence is a
\* file that has been opened and not been written.
Whole(n) == n \in DOMAIN files /\ files[n] # <<>>

Init ==
  /\ cfg \in Configs /\ pc = "down" /\ starts = 0
  /\ epoch = 0 /\ iter = 0 /\ weights = Untrained /\ frozenSteps = 0
  /\ layers = "open" /\ warm = 0 /\ sched = 0
  /\ metric = Unmeasured /\ best = -1 /\ saves = <<>> /\ stage = "open"
  /\ loader = NewLoader
  /\ files = [n \in {} |-> <<>>] /\ tag = NoTag
  /\ newest = -1 /\ resumed = NoTag /\ top = -1

-----------------------------------------------------------------------------
(* The prefetching thread of the training loader *)

Running == pc \notin {"down", "raised", "finished"}

\* Seeded fault: the sampler's stream of indices ends with the first epoch.
LoaderPutsOnePass ==
  /\ Running /\ loader.alive /\ loader.queue < MaxPrefetch
  /\ iter < cfg.itersPerEpoch
  /\ loader' = [loader EXCEPT !.queue = @ + 1]
  /\ UNCHANGED <<job, pc, loop, metric, best, saves, stage, disk, resumed>>

LoaderPuts ==
  /\ Running /\ loader.alive /\ loader.queue < MaxPrefetch
  /\ loader' = [loader EXCEPT !.queue = @ + 1]
  /\ UNCHANGED <<job, pc, loop, metric, best, saves, stage, disk, resumed>>

\* An exception in the generator ends the thread, and nobody puts the None
\* that would tell the consumer.
LoaderDies ==
  /\ Running /\ loader.alive
  /\ loader' = [loader EXCEPT !.alive = FALSE]
  /\ UNCHANGED <<job, pc, loop, metric, best, saves, stage, disk, resumed>>

\* The next batch is handed out once the one after it has been fetched.
NextBatch ==
  /\ loader.queue > 0
  /\ loader' = [loader EXCEPT !.queue = @ - 1]

-----------------------------------------------------------------------------
(* Starting and resuming *)

Forgotten ==
  /\ epoch' = 0 /\ iter' = 0 /\ weights' = Untrained /\ frozenSteps' = 0
  /\ layers' = "open" /\ warm' = 0 /\ sched' = 0
  /\ metric' = Unmeasured /\ best' = -1 /\ saves' = <<>> /\ stage' = "open"
  /\ loader' = NewLoader /\ top' = -1

Launch ==
  /\ ~Running /\ starts < MaxStarts
  /\ starts' = starts + 1 /\ pc' = "building"
  /\ Forgotten
  /\ UNCHANGED <<cfg, files, tag, newest, resumed>>

Crash ==
  /\ Running
  /\ pc' = "down"
  /\ Forgotten
  /\ UNCHANGED <<job, files, tag, newest, resumed>>

\* Seeded fault: training goes on at the epoch that has been finished.
EpochAfterRepeats(c) == c.epoch

EpochAfter(c) == c.epoch + 1

\* The trainer's constructor has fetched its first batch.  A last_checkpoint
\* that is empty names the directory, and an unfinished file does not load.
\* The model has been built in training mode, nothing in it is held.
Resume ==
  /\ pc = "building" /\ NextBatch
  /\ resumed' = tag
  /\ IF tag = NoTag
     THEN pc' = "step" /\ UNCHANGED loop
     ELSE IF tag # TornTag /\ Whole(tag)
     THEN LET c == files[tag][1] IN
          /\ epoch' = EpochAfter(c)
          /\ iter' = epoch' * cfg.itersPerEpoch
          /\ weights' = c.weights /\ warm' = c.warm /\ sched' = c.sched
          /\ UNCHANGED <<frozenSteps, layers>>
          \* No epoch is left: after_train misses the epoch counter.
          /\ pc' = IF epoch' < cfg.maxEpoch THEN "step" ELSE "raised"
     ELSE pc' = "raised" /\ UNCHANGED loop
  /\ UNCHANGED <<job, metric, best, saves, stage, disk>>

-----------------------------------------------------------------------------
(* One iteration *)

\* With mixed precision the scaler drops an update that overflowed, lowering
\* its scale, and raises the scale now and then.
Scalings == IF cfg.amp THEN {"same", "dropped", "grown"} ELSE {"same"}

\* LayerFreeze.before_step: the layers to freeze are put into evaluation mode
\* at the first iteration, and back at the first one past the limit.
Layers == IF iter < cfg.freezeIters
          THEN IF layers = "open" THEN "held" ELSE layers
          ELSE "open"

\* The optimizer counts its own steps to know whether it still leaves the
\* layers alone; a dropped update is none.
Thawed == frozenSteps >= cfg.freezeIters

\* Seeded fault: one step of warm-up too many.
WarmsUpLate == iter <= cfg.warmupIters

WarmsUp == iter + 1 <= cfg.warmupIters

\* run_step, and LRScheduler.after_step.  warmup_sched stands still in an
\* iteration that changed the scale.
RunStep ==
  /\ pc = "step" /\ NextBatch
  /\ layers' = Layers
  /\ \E scale \in Scalings :
       LET applied == scale # "dropped" IN
       /\ weights' =
            [head     |-> weights.head + IF applied THEN 1 ELSE 0,
             backbone |-> weights.backbone
                            + IF applied /\ Thawed THEN 1 ELSE 0,
             stats    |-> weights.stats + IF Layers = "held" THEN 0 ELSE 1]
       /\ frozenSteps' = IF applied /\ ~Thawed THEN frozenSteps + 1
                                               ELSE frozenSteps
       /\ warm' = IF WarmsUp /\ scale = "same" THEN warm + 1 ELSE warm
  /\ iter' = iter + 1
  /\ pc' = IF iter' = (epoch + 1) * cfg.itersPerEpoch THEN "schedule"
                                                      ELSE "step"
  /\ UNCHANGED <<job, epoch, sched, metric, best, saves, stage, disk, resumed>>

-----------------------------------------------------------------------------
(* The hooks after an epoch, in their order *)

\* LRScheduler.after_epoch; the iteration counter has moved on already.
SchedulerSteps == iter + 1 > cfg.warmupIters /\ epoch + 1 > cfg.delayEpochs

Schedule ==
  /\ pc = "schedule"
  /\ sched' = IF SchedulerSteps THEN sched + 1 ELSE sched
  /\ pc' = "evaluate"
  /\ UNCHANGED <<job, epoch, iter, weights, frozenSteps, layers, warm, metric,
                 best, saves, stage, loader, disk, resumed>>

Divides(k, n) == n % k = 0
Periodic      == Divides(cfg.checkpointPeriod, epoch + 1)
LastEpoch     == epoch >= cfg.maxEpoch - 1

\* EvalHook.after_epoch.  inference_context puts the whole model back into
\* training mode, frozen layers included.
EvaluationDue == cfg.evalPeriod > 0 /\ Divides(cfg.evalPeriod, epoch + 1)

Evaluate ==
  /\ pc = "evaluate" /\ pc' = "checkpoint"
  /\ IF EvaluationDue
     THEN /\ \E s \in Scores : metric' = [value |-> s, epoch |-> epoch]
          /\ layers' = IF layers = "held" THEN "stirred" ELSE layers
     ELSE UNCHANGED <<metric, layers>>
  /\ UNCHANGED <<job, epoch, iter, weights, frozenSteps, warm, sched, best,
                 saves, stage, loader, disk, resumed>>

\* The thread of the test loader can die like the other one.
EvaluationHangs ==
  /\ pc = "evaluate" /\ EvaluationDue /\ pc' = "hung"
  /\ UNCHANGED <<job, loop, metric, best, saves, stage, loader, disk, resumed>>

\* PeriodicCheckpointer.step, as the files it saves in turn: the periodic one
\* behind the best one "to make last checkpoint valid".
Better   == metric.value > best
BestSave == IF Better THEN <<Best>> ELSE <<>>

\* Seeded fault: the best model behind the periodic one.
DueBestLast ==
  IF LastEpoch THEN BestSave \o <<Final>>
  ELSE IF Periodic THEN <<epoch>> \o BestSave
  ELSE <<>>

Due ==
  IF LastEpoch THEN BestSave \o <<Final>>
  ELSE IF Periodic THEN BestSave \o <<epoch>>
  ELSE <<>>

Checkpoint ==
  /\ pc = "checkpoint" /\ pc' = "save"
  /\ saves' = Due /\ stage' = "open"
  /\ UNCHANGED <<job, loop, metric, best, loader, disk, resumed>>

Record == [epoch |-> epoch, weights |-> weights, warm |-> warm,
           sched |-> sched, metric |-> metric]

Put(n, content) ==
  files' = [m \in DOMAIN files \cup {n} |-> IF m = n THEN content ELSE files[m]]

\* Seeded fault: the best metric is not kept.
NextBestForgets == best

\* best_metric is raised behind the best save, and not in the last epoch.
NextBest == IF Head(saves) = Best /\ ~LastEpoch THEN metric.value ELSE best

\* Checkpointer.save and tag_last_checkpoint, one file operation a step.
OpenFile ==
  /\ stage = "open" /\ stage' = "write"
  /\ Put(Head(saves), <<>>)
  /\ UNCHANGED <<saves, best, tag, newest, top>>

WriteFile ==
  /\ stage = "write" /\ stage' = "untag"
  /\ Put(Head(saves), <<Record>>)
  /\ top' = Max({top, metric.value})
  /\ UNCHANGED <<saves, best, tag, newest>>

OpenTag ==
  /\ stage = "untag" /\ stage' = "tag"
  /\ tag' = TornTag
  /\ UNCHANGED <<saves, best, files, newest, top>>

WriteTag ==
  /\ stage = "tag" /\ stage' = "open"
  /\ tag' = Head(saves) /\ newest' = Max({newest, epoch})
  /\ saves' = Tail(saves)
  /\ best' = NextBest
  /\ UNCHANGED <<files, top>>

Save ==
  /\ pc = "save" /\ saves # <<>>
  /\ OpenFile \/ WriteFile \/ OpenTag \/ WriteTag
  /\ UNCHANGED <<job, pc, loop, metric, loader, resumed>>

EndEpoch ==
  /\ pc = "save" /\ saves = <<>>
  /\ IF LastEpoch THEN pc' = "leaving" /\ UNCHANGED epoch
                  ELSE pc' = "step" /\ epoch' = epoch + 1
  /\ UNCHANGED <<job, iter, weights, frozenSteps, layers, warm, sched, metric,
                 best, saves, stage, loader, disk, resumed>>

-----------------------------------------------------------------------------
(* Leaving *)

\* An exception: a loss that is not finite, an evaluation that fails, a disk
\* that is full when a file or its tag is opened or written, an event writer of
\* the last hook.  train runs after_train and raises it again.
Fails ==
  /\ pc \in {"step", "evaluate", "save"}
  /\ pc' = "failing"
  /\ UNCHANGED <<job, loop, metric, best, saves, stage, loader, disk, resumed>>

\* EvalHook.after_train: an evaluation period of zero divides by zero, and a
\* last epoch that the period left out is evaluated, after a failure as well.
EvaluatesLast ==
  cfg.evalPeriod > 0 /\ ~Divides(cfg.evalPeriod, epoch + 1) /\ LastEpoch

AfterTrain ==
  /\ pc \in {"leaving", "failing"}
  /\ \/ pc' = IF pc = "failing" \/ cfg.evalPeriod = 0 THEN "raised"
                                                      ELSE "finished"
     \/ EvaluatesLast /\ pc' \in {"raised", "hung"}
  /\ UNCHANGED <<job, loop, metric, best, saves, stage, loader, disk, resumed>>

-----------------------------------------------------------------------------
Train == Resume \/ RunStep \/ Schedule \/ Evaluate \/ Checkpoint \/ Save
         \/ EndEpoch \/ AfterTrain

Next == Train \/ Launch \/ Crash \/ Fails \/ EvaluationHangs
        \/ LoaderPuts \/ LoaderDies

Spec == Init /\ [][Next]_vars

\* The process and its loading thread go on as long as they can.  Nobody has
\* to start a process, and none has to die.
FairSpec == Spec /\ WF_vars(Train) /\ WF_vars(LoaderPuts)

-----------------------------------------------------------------------------
Iterations  == 0..cfg.maxEpoch * cfg.itersPerEpoch
Weights     == [head : Iterations, backbone : Iterations, stats : Iterations]
Metrics     == [value : Scores \cup {-1}, epoch : -1..cfg.maxEpoch - 1]
Checkpoints == [epoch : 0..cfg.maxEpoch - 1, weights : Weights,
                warm : 0..cfg.warmupIters, sched : 0..cfg.maxEpoch,
                metric : Metrics]

\* Type invariant; the counters stay within what the configuration allows.
TypeOK ==
  /\ cfg \in Configs /\ starts \in 0..MaxStarts
  /\ pc \in {"down", "building", "step", "schedule", "evaluate", "checkpoint",
             "save", "leaving", "failing", "hung", "raised", "finished"}
  /\ epoch \in 0..cfg.maxEpoch /\ iter \in Iterations
  /\ weights \in Weights /\ frozenSteps \in 0..cfg.freezeIters
  /\ layers \in {"open", "held", "stirred"}
  /\ warm \in 0..cfg.warmupIters /\ sched \in 0..cfg.maxEpoch
  /\ metric \in Metrics /\ best \in Scores \cup {-1} /\ top \in Scores \cup {-1}
  /\ saves \in Seq(Names) /\ Len(saves) <= 2
  /\ stage \in {"open", "write", "untag", "tag"}
  /\ loader \in [alive : BOOLEAN, queue : 0..MaxPrefetch]
  /\ DOMAIN files \subseteq Names
  /\ \A n \in DOMAIN files : files[n] \in Seq(Checkpoints) /\ Len(files[n]) <= 1
  /\ {tag, resumed} \subseteq Names \cup {NoTag, TornTag}
  /\ newest \in -1..cfg.maxEpoch - 1

\* T_max of the cosine schedule (build_lr_scheduler).
TMax ==
  LET warmupEpochs ==
        (cfg.warmupIters + cfg.itersPerEpoch - 1) \div cfg.itersPerEpoch
  IN cfg.maxEpoch - Max({warmupEpochs, cfg.delayEpochs})

\* Epochs 1..e behind which an uninterrupted job steps its schedule, and the
\* iterations of the first i that are not the frozen layers' own.
Scheduled(e) == {k \in 1..e : k * cfg.itersPerEpoch >= cfg.warmupIters
                              /\ k > cfg.delayEpochs}
Unfrozen(i)  == Max({0, i - cfg.freezeIters})

\* What i iterations do to a job: with mixed precision dropped updates and
\* changes of scale may leave it short, and a job that was resumed has frozen
\* its layers again, but none runs ahead.
Trained(s, i) ==
  /\ s.warm <= Min({i, cfg.warmupIters}) /\ s.weights.head <= i
  /\ ~cfg.amp => s.warm = Min({i, cfg.warmupIters}) /\ s.weights.head = i
  /\ s.weights.backbone <= Unfrozen(i)
  /\ cfg.freezeIters <= cfg.evalPeriod * cfg.itersPerEpoch
       => s.weights.stats = Unfrozen(i)

OnCourse(s, i) ==
  /\ s.sched = Cardinality(Scheduled(i \div cfg.itersPerEpoch))
  /\ Trained(s, i)

\* The frozen layers have missed no more of the head's updates than each start
\* leaves them out of: the count of the freezing steps is not saved.
Followed(w) == w.head <= w.backbone + cfg.freezeIters * starts

\* However often a job has died and resumed, its epoch schedule has made the
\* steps of an uninterrupted job, in memory and in every file, and so have,
\* without mixed precision, its warm-up and its head ("Resuming means loading
\* all available states (eg. optimizer and scheduler) and update iteration
\* counter").  Its frozen layers are never updated before their time and fall
\* behind by at most freezeIters updates a start.  No iteration is trained past
\* the end of the schedule; the step behind the last epoch may pass it.
LineageExact ==
  /\ \A n \in DOMAIN files : Whole(n) =>
       LET c == files[n][1] IN
       /\ OnCourse(c, (c.epoch + 1) * cfg.itersPerEpoch)
       /\ Followed(c.weights)
  /\ pc = "step" =>
       /\ OnCourse([weights |-> weights, warm |-> warm, sched |-> sched],
                        iter)
       /\ Followed(weights)
       /\ TMax >= 0 => sched <= TMax

\* A job that was resumed from model_best and is overwriting it.
Overwriting == tag = Best /\ resumed = Best /\ ~Whole(Best)

\* Wherever a job dies, last_checkpoint names a file that loads or is itself
\* cut off, and some file still holds the newest epoch it has ever named or a
\* later one ("Put it behind best model save to make last checkpoint valid").
\* The exception is a job that is overwriting the file it was resumed from.
Recoverable ==
  ~Overwriting =>
    /\ tag \in Names => Whole(tag)
    /\ newest >= 0 =>
         \E n \in DOMAIN files : Whole(n) /\ files[n][1].epoch >= newest

\* Between epochs model_best is the best of what this start has saved, and
\* with aligned periods each periodic file carries a metric of its own
\* (PeriodicCheckpointer.step).
BestIsBest ==
  pc \in {"step", "leaving"} =>
    /\ top >= 0 => Whole(Best) /\ files[Best][1].metric.value = top
    /\ cfg.evalPeriod > 0 /\ Divides(cfg.evalPeriod, cfg.checkpointPeriod) =>
         \A n \in DOMAIN files : n >= 0 /\ Whole(n) =>
           files[n][1].metric.epoch = n

\* Every process that was started ends: done, raised or killed, except when a
\* loading thread has died and left it waiting for a batch.
Hung ==
  \/ pc = "hung"
  \/ pc \in {"building", "step"} /\ ~loader.alive /\ loader.queue = 0
TrainingEnds ==
  (pc = "building") ~> (pc \in {"down", "raised", "finished"} \/ Hung)
=============================================================================
