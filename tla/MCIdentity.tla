----------------------------- MODULE MCIdentity -----------------------------
(* Cameras, people and recognisers for the runs of Identity. *)
EXTENDS Identity

\* Two cameras that enrol, each with a person of its own in view: one in the
\* whole picture, one inside a region only.
Zones == [c \in {"m", "n"} |-> IF c = "n" THEN "ROI" ELSE "MASTER"]
ShowsZone(c, t) == IF c = "n" THEN {2} ELSE {1}

\* Two cameras that both enrol.
TwoMasters == [c \in {"m", "n"} |-> "MASTER"]
OneMaster == [c \in {"m"} |-> "MASTER"]

ShowsAll(c, t) == Person
ShowsOwn(c, t) == {t}

NobodyAlike(p, q) == FALSE
AllAlike(p, q) == TRUE

=============================================================================
