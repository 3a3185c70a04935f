------------------------------ MODULE AtMostOnce -------------------------------
(***************************************************************************)
(* What durable application attempts promise, without stores, processes or *)
(* messages: a vacancy is claimed by at most one attempt, only the         *)
(* claiming attempt may have its response at the provider, a claim whose   *)
(* response exists is never given up, and an attempt that gave up its      *)
(* claim never gets another one.                                           *)
(***************************************************************************)
CONSTANTS Vacancies, Attempts

VARIABLES
  claims,  \* vacancy -> the attempts that claim it
  used,    \* attempts that claimed a vacancy at some time
  effects  \* attempts whose response the provider holds

vars == <<claims, used, effects>>

Init ==
  /\ claims = [v \in Vacancies |-> {}]
  /\ used = {}
  /\ effects = {}

Claim(v, a) ==
  /\ a \notin used /\ used' = used \cup {a}
  /\ claims[v] = {} /\ claims' = [claims EXCEPT ![v] = {a}]
  /\ UNCHANGED effects

Release(v, a) ==
  /\ claims[v] = {a}
  /\ a \notin effects
  /\ claims' = [claims EXCEPT ![v] = {}]
  /\ UNCHANGED <<used, effects>>

Effect(v, a) ==
  /\ a \notin effects
  /\ claims[v] = {a}
  /\ effects' = effects \cup {a}
  /\ UNCHANGED <<claims, used>>

Next ==
  \E v \in Vacancies, a \in Attempts : Claim(v, a) \/ Release(v, a) \/ Effect(v, a)

Spec == Init /\ [][Next]_vars
=============================================================================
