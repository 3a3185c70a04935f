------------------------------- MODULE SingleUse -------------------------------
(***************************************************************************)
(* What an approval with a one-time nonce promises, without files,         *)
(* processes or requests: a nonce that was used stays used, and what was   *)
(* approved reaches its addressee once, after its nonce was used.          *)
(***************************************************************************)
CONSTANT Approvals

VARIABLES
  used,      \* approvals whose nonce was used
  delivered  \* approvals whose message the addressee holds

vars == <<used, delivered>>

Init == used = {} /\ delivered = {}

(* Some approvals are sent, or given up after they might have been.        *)
Use ==
  /\ \E more \in SUBSET (Approvals \ used) : used' = used \cup more
  /\ UNCHANGED delivered

Deliver(a) ==
  /\ a \in used \ delivered
  /\ delivered' = delivered \cup {a}
  /\ UNCHANGED used

Next == Use \/ \E a \in Approvals : Deliver(a)

Spec == Init /\ [][Next]_vars
=============================================================================
