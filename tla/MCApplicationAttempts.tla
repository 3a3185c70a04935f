------------------------- MODULE MCApplicationAttempts -------------------------
(* Small instances of ApplicationAttempts for TLC.                         *)
EXTENDS ApplicationAttempts, TLC

Symmetry ==
  Permutations(Processes) \cup Permutations(Attempts) \cup Permutations(Vacancies)
  \cup Permutations(NegotiationIds)

(* Two bounds, one or the other: one vacancy that several processes answer *)
(* and reconcile, or one process that goes through all vacancies.          *)
Idle(p) == pc[p] = "idle" /\ run[p] = IdleRun /\ job[p] = NoJob

OneVacancy == \E v \in Vacancies : manual \subseteq {v} /\ \A a \in Attempts : target[a] \in {v, None}
OneProcess == crashes = 0 /\ \E p \in Processes : \A q \in Processes \ {p} : Idle(q)

Bounded == OneVacancy \/ OneProcess

(* Every action on its own, so that TLC tells which of them it has seen.   *)
MCSubmit(p) ==
  \/ \E a \in Attempts : Reserve(p, a) /\ Bounded'
  \/ ReserveBlocked(p) /\ Bounded'
  \/ ReserveFails(p) /\ Bounded'
  \/ Dispatch(p) /\ Bounded'
  \/ DispatchNotSent(p) /\ Bounded'
  \/ Answer(p) /\ Bounded'
  \/ RecordOutcome(p) /\ Bounded'
  \/ RecordOutcomeFails(p) /\ Bounded'

MCReconcile(p) ==
  \/ \E a \in Attempts : ReconcileStart(p, a) /\ Bounded'
  \/ \E a \in Attempts : ConfirmManual(p, a) /\ Bounded'
  \/ ReconcileNotApplicable(p) /\ Bounded'
  \/ ReadEvidence(p) /\ Bounded'
  \/ RecordReconciliation(p) /\ Bounded'
  \/ RecordReconciliationFails(p) /\ Bounded'

MCRun(p) ==
  \/ StartRun(p) /\ Bounded'
  \/ \E v \in Vacancies : PassOver(p, v) /\ Bounded'
  \/ \E v \in Vacancies : GateUnresolved(p, v) /\ Bounded'
  \/ \E v \in Vacancies : GateClear(p, v) /\ Bounded'
  \/ FinishRun(p) /\ Bounded'
  \/ Preflight(p) /\ Bounded'
  \/ Crash(p) /\ Bounded'

MCNext ==
  \/ \E p \in Processes : MCRun(p) \/ MCSubmit(p) \/ MCReconcile(p)
  \/ Provider /\ Bounded'

MCSpec == Init /\ [][MCNext]_vars
MCFairSpec == MCSpec /\ \A p \in Processes : Fairness(p)
=============================================================================
