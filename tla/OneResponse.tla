------------------------------ MODULE OneResponse ------------------------------
(***************************************************************************)
(* What the blocking of vacancies is for, without attempts, nonces or      *)
(* commands: HH gets a response to a vacancy only while the vacancy is     *)
(* blocked for others, gets one at most, and a vacancy that has its        *)
(* response is never free again.                                           *)
(***************************************************************************)
CONSTANT Vacancies

VARIABLES
  blocked,   \* vacancies nobody else may apply to
  responded  \* vacancies with a response at HH

vars == <<blocked, responded>>

Init == blocked = {} /\ responded = {}

Block(v) ==
  /\ v \notin blocked
  /\ blocked' = blocked \cup {v}
  /\ UNCHANGED responded

Release(v) ==
  /\ v \in blocked \ responded
  /\ blocked' = blocked \ {v}
  /\ UNCHANGED responded

Respond(v) ==
  /\ v \in blocked \ responded
  /\ responded' = responded \cup {v}
  /\ UNCHANGED blocked

Next == \E v \in Vacancies : Block(v) \/ Release(v) \/ Respond(v)

Spec == Init /\ [][Next]_vars
=============================================================================
