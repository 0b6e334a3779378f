------------------------------ MODULE HeadCount ------------------------------
(***************************************************************************)
(* What the per-camera counters promise to the dashboard, with no clock    *)
(* and no timeout: a set of identities is inside, people arrive from       *)
(* outside and depart from inside, and the two totals count exactly those  *)
(* moves.  EntryExit implements it.                                        *)
(***************************************************************************)
EXTENDS Naturals, FiniteSets

CONSTANT SID            \* the global identities a camera can see

VARIABLES inside,       \* the identities in view        (Current_occupancy)
          entered,      \* arrivals since the start      (Total_entries)
          left          \* departures since the start    (Total_exits)

hcVars == <<inside, entered, left>>

Init ==
  /\ inside = {}
  /\ entered = 0
  /\ left = 0

\* One payload's worth of moves: nobody arrives twice, nobody departs unseen.
Move(arrive, depart) ==
  /\ arrive \cap inside = {}
  /\ depart \subseteq inside
  /\ inside' = (inside \cup arrive) \ depart
  /\ entered' = entered + Cardinality(arrive)
  /\ left' = left + Cardinality(depart)

Next == \E arrive, depart \in SUBSET SID : Move(arrive, depart)

Spec == Init /\ [][Next]_hcVars

=============================================================================
