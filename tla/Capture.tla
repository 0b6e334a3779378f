------------------------------ MODULE Capture -------------------------------
(***************************************************************************)
(* The reader thread of one camera, RTSPCapture (capture.py).              *)
(*                                                                         *)
(* The thread opens the source, waits and tries again when it cannot, and  *)
(* reads frames until stop() clears its flag or until more than            *)
(* MaxReadFailures reads in a row have failed; then it lets the handle go  *)
(* and opens the source again.  The last frame read stays in the object    *)
(* whatever happens to the stream afterwards.                              *)
(*                                                                         *)
(* A capture is a record, so that a module that owns several composes them *)
(* by keeping a function of such records; an operator of this module maps  *)
(* a record to the record, or the set of records, of the next state.       *)
(*   thread   what the thread is doing                                     *)
(*   running  the flag start() sets and stop() clears                      *)
(*   failures reads failed in a row                                        *)
(*   frame    there is a frame to hand out                                 *)
(***************************************************************************)
EXTENDS Naturals

CONSTANT MaxReadFailures        \* capture.max_read_failures

ASSUME MaxReadFailuresAssumption == MaxReadFailures \in Nat

Captures == [thread   : {"none", "opening", "waiting", "reading", "ended"},
             running  : BOOLEAN,
             failures : 0..MaxReadFailures,
             frame    : BOOLEAN]

NewCapture == [thread |-> "none", running |-> FALSE, failures |-> 0,
               frame |-> FALSE]

StartCapture(c) == [c EXCEPT !.thread = "opening", !.running = TRUE]

\* stop() clears the flag and waits three seconds at most for the thread: its
\* caller goes on whether the thread has ended or not.
StopCapture(c) == [c EXCEPT !.running = FALSE]

\* A copy of the last frame read; nothing ever clears it.
HasFrame(c) == c.frame

-----------------------------------------------------------------------------
\* The top of the outer loop: a flag cleared meanwhile ends the thread.  An
\* attempt to open the source connects or is followed by a wait.
OpenSource(c) ==
    IF c.running THEN {[c EXCEPT !.thread = "reading", !.failures = 0],
                       [c EXCEPT !.thread = "waiting"]}
                 ELSE {[c EXCEPT !.thread = "ended"]}

\* The wait before the next attempt is not cut short by stop().
Waited(c) == {[c EXCEPT !.thread = "opening"]}

\* Seeded fault: one failed read more is let pass.
ReadFrameLate(c) ==
    IF ~c.running THEN {[c EXCEPT !.thread = "ended"]}
    ELSE {[c EXCEPT !.failures = 0, !.frame = TRUE],
          IF c.failures <= MaxReadFailures
             THEN [c EXCEPT !.failures = @ + 1]
             ELSE [c EXCEPT !.failures = 0, !.thread = "opening"]}

\* One read: a frame is kept and clears the count; a failure is counted, and
\* one too many drops the connection.  A cleared flag leaves the inner loop, and
\* the outer one finds it cleared too.
ReadFrame(c) ==
    IF ~c.running THEN {[c EXCEPT !.thread = "ended"]}
    ELSE {[c EXCEPT !.failures = 0, !.frame = TRUE],
          IF c.failures < MaxReadFailures
             THEN [c EXCEPT !.failures = @ + 1]
             ELSE [c EXCEPT !.failures = 0, !.thread = "opening"]}

\* What a step of the thread can make of the capture.
CaptureSteps(c) ==
    CASE c.thread = "opening" -> OpenSource(c)
      [] c.thread = "waiting" -> Waited(c)
      [] c.thread = "reading" -> ReadFrame(c)
      [] OTHER                -> {}
=============================================================================
