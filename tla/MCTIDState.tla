----------------------------- MODULE MCTIDState -----------------------------
(* Three raw ids and three places: neighbours overlap, the ends do not.  *)
EXTENDS TIDState

MCBox == 1..3
MCIoU(a, b) ==
  IF a = b THEN 100
  ELSE IF {a, b} = {1, 2} THEN 60 ELSE IF {a, b} = {2, 3} THEN 70 ELSE 0

=============================================================================
