---------------------------- MODULE MCReidServer ----------------------------
(* Connections and requests for the runs of ReidServer. *)
EXTENDS ReidServer

\* The first two connections name one client id, the third another.
TwoShareAnId == [x \in Conn |-> IF x = 3 THEN "b" ELSE "a"]

\* Two cameras, one of them named twice, which nothing refuses
\* (reid_handler.py, start_stream).
OneTwice == {<<1, 1, 2>>}
OneCamera == {<<1>>}

\* "Stop any running session before starting a new one" (reid_handler.py,
\* start_stream): the runner a start_stream replaces, or a stop_stream
\* cancels, comes to its end.
ReplacedRunnerEnds ==
  \A j \in 1..MaxJobs :
    (j \in Job /\ jobs[j].cancelled)
      ~> (j \in Job /\ jobs[j].phase \in {"dropped", "ended"})

=============================================================================
