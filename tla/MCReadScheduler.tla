----------------------------- MODULE MCReadScheduler -----------------------------
(* Small instances of ReadScheduler for TLC.                               *)
EXTENDS ReadScheduler, TLC

CONSTANTS r1, r2, r3

(* r1 is a safety read, the others are in the background.                  *)
OneUrgent == r1 :> 4 @@ [r \in Reads \ {r1} |-> 1]
=============================================================================
