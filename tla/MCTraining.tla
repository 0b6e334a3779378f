----------------------------- MODULE MCTraining ------------------------------
(* Configurations for the run of Training. *)
EXTENDS Training

Job(epochs, iters, warmup, delay, freeze, ckpt, eval, amp) ==
  [maxEpoch |-> epochs, itersPerEpoch |-> iters, warmupIters |-> warmup,
   delayEpochs |-> delay, freezeIters |-> freeze, checkpointPeriod |-> ckpt,
   evalPeriod |-> eval, amp |-> amp]

\* A warm-up that ends in mid-epoch with frozen layers; a delayed schedule and
\* a last epoch that is not evaluated, resumed from a checkpoint of frozen layers;
\* mixed precision; no evaluation at all; every epoch evaluated and saved, so that
\* a job can be resumed from model_best twice.
Jobs == {Job(4, 2, 3, 0, 2, 2, 1, FALSE), Job(3, 1, 2, 1, 2, 1, 2, FALSE),
         Job(2, 2, 3, 0, 1, 1, 1, TRUE), Job(2, 1, 0, 0, 0, 1, 0, FALSE),
         Job(3, 1, 0, 0, 0, 1, 1, FALSE)}
=============================================================================
