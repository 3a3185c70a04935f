----------------------- MODULE ApplicationAttemptsProofs -----------------------
(***************************************************************************)
(* Proofs for ApplicationAttempts: type correctness, the safety invariants *)
(* that the runs check on small instances, and the refinements of          *)
(* AtMostOnce and OneResponse, for any numbers of processes, vacancies and *)
(* attempts.                                                               *)
(***************************************************************************)
EXTENDS ApplicationAttempts, TLAPS

-----------------------------------------------------------------------------
(* The inductive invariant.                                                *)

Preparing(p) == pc[p] \in {"prepared", "submit", "blocked"}
(* p executes the attempt it reserved. *)
Holds(p) == pc[p] \in {"reserved", "waiting", "answered"}
Reconciling(p) == pc[p] \in {"unresolved", "reading", "recording"}

(* An id without a record was never dispatched, a record has its vacancy.  *)
RecordsAreWhole ==
  \A a \in Attempts :
    IF state[a] = "FREE" THEN target[a] = None /\ flight[a] = "none"
                         ELSE target[a] \in Vacancies

(* A process works on a record that exists, for the vacancy it says.       *)
JobIsReal(p) ==
  /\ Preparing(p) => job[p].vacancy \in Vacancies
  /\ Holds(p) \/ Reconciling(p) =>
       /\ job[p].attempt \in Attempts
       /\ state[job[p].attempt] # "FREE"
       /\ target[job[p].attempt] = job[p].vacancy

(* Only its own process records the outcome of an attempt: until then it   *)
(* is SENDING, or confirmed by a reconciliation that overtook the process. *)
HeldIsPending(p) ==
  /\ Holds(p) => state[job[p].attempt] \in {"SENDING", "TARGET_RESPONSE_CONFIRMED"}
  /\ pc[p] = "reserved" => flight[job[p].attempt] = "none"

(* What a process is about to record is true, and stays true meanwhile.    *)
AnswerIsTrue(p) ==
  pc[p] = "answered" =>
    /\ job[p].outcome \in {"REJECTED", "NOT_SENT"} => ~Exposed(job[p].attempt)
    /\ job[p].outcome = "ACCEPTED" => Responded(target[job[p].attempt])

SeenIsTrue(p) ==
  pc[p] = "recording" /\ job[p].seen.confirmed => Responded(job[p].vacancy)

JobSafe(p) == JobIsReal(p) /\ HeldIsPending(p) /\ AnswerIsTrue(p) /\ SeenIsTrue(p)

OneHolder ==
  \A p, q \in Processes :
    Holds(p) /\ Holds(q) /\ job[p].attempt = job[q].attempt => p = q

DuplicateIsTrue == \A a \in Attempts : flight[a] = "duplicate" => Responded(target[a])

StoreSafe ==
  RecordsAreWhole /\ DuplicateIsTrue /\ OneBlockingAttempt /\ ExposedIsBlocking /\ PositiveIsTrue

IInv == TypeOK /\ StoreSafe /\ OneHolder /\ \A p \in Processes : JobSafe(p)

-----------------------------------------------------------------------------
(* Type correctness.                                                       *)

LEMMA EvidenceAfterType ==
  ASSUME NEW s, NEW old \in Evidence, NEW new \in Evidence
  PROVE  EvidenceAfter(s, old, new) \in Evidence
BY DEF EvidenceAfter, Evidence

LEMMA NoJobType == NoJob \in Jobs
BY DEF NoJob, NoEvidence, Observation, Evidence, Jobs

LEMMA IdleRunType == IdleRun \in Runs /\ [IdleRun EXCEPT !.active = TRUE] \in Runs
BY DEF IdleRun, Runs

LEMMA InitType == Init => TypeOK
BY NoJobType, IdleRunType DEF Init, TypeOK, NoEvidence, Observation, Evidence, Flights, Steps

LEMMA RunsKeepType ==
  ASSUME TypeOK, NEW p \in Processes, StartRun(p) \/ Choose(p) \/ FinishRun(p) \/ Preflight(p) \/ Crash(p)
  PROVE  TypeOK'
<1>1. CASE StartRun(p)
  BY <1>1, IdleRunType DEF StartRun, TypeOK, Goto, Steps, store, provider
<1>2. CASE FinishRun(p)
  BY <1>2, IdleRunType DEF FinishRun, TypeOK, Goto, Steps, store, provider
<1>3. CASE Preflight(p)
  BY <1>3, NoJobType DEF Preflight, Return, TypeOK, Goto, Steps, store, provider
<1>4. CASE Crash(p)
  BY <1>4, NoJobType, IdleRunType, CrashBoundAssumption DEF Crash, TypeOK, Goto, Steps, store, provider
<1>5. CASE Choose(p)
  <2>. PICK v \in Vacancies : PassOver(p, v) \/ GateUnresolved(p, v) \/ GateClear(p, v)
    BY <1>5 DEF Choose
  <2>1. CASE PassOver(p, v)
    <3>1. run' \in [Processes -> Runs]
      BY <2>1 DEF PassOver, TypeOK, Runs
    <3>. QED BY <2>1, <3>1 DEF PassOver, TypeOK, store, provider
  <2>2. CASE GateUnresolved(p, v)
    <3>1. run' \in [Processes -> Runs]
      BY <2>2 DEF GateUnresolved, TypeOK, Runs
    <3>2. PICK a \in Attempts : job' = [job EXCEPT ![p].vacancy = v, ![p].attempt = a]
      BY <2>2 DEF GateUnresolved, BlockingFor
    <3>3. [job[p] EXCEPT !.vacancy = v, !.attempt = a] \in Jobs
      BY DEF TypeOK, Jobs
    <3>. QED BY <2>2, <3>1, <3>2, <3>3 DEF GateUnresolved, TypeOK, Goto, Steps, store, provider
  <2>3. CASE GateClear(p, v)
    <3>1. run' \in [Processes -> Runs]
      BY <2>3 DEF GateClear, TypeOK, Runs
    <3>2. job' \in [Processes -> Jobs]
      BY <2>3 DEF GateClear, TypeOK, Jobs
    <3>. QED BY <2>3, <3>1, <3>2 DEF GateClear, TypeOK, Goto, Steps, store, provider
  <2>. QED BY <2>1, <2>2, <2>3
<1>. QED BY <1>1, <1>2, <1>3, <1>4, <1>5

LEMMA SubmissionsKeepType ==
  ASSUME TypeOK, NEW p \in Processes, Submit(p)
  PROVE  TypeOK'
<1>1. ASSUME NEW a \in Attempts, Reserve(p, a)
      PROVE  TypeOK'
  <2>1. job' \in [Processes -> Jobs]
    BY <1>1 DEF Reserve, TypeOK, Jobs
  <2>2. target' \in [Attempts -> Vacancies \cup {None}]
    BY <1>1 DEF Reserve, TypeOK, Jobs
  <2>. QED BY <1>1, <2>1, <2>2 DEF Reserve, TypeOK, Goto, Steps, States, provider
<1>2. CASE ReserveBlocked(p)
  BY <1>2 DEF ReserveBlocked, TypeOK, Goto, Steps, store, provider
<1>3. CASE ReserveFails(p)
  <2>1. job' \in [Processes -> Jobs]
    BY <1>3, NoJobType DEF ReserveFails, Return, TypeOK
  <2>2. target' \in [Attempts -> Vacancies \cup {None}]
    BY <1>3 DEF ReserveFails, TypeOK, Jobs, store
  <2>3. state' \in [Attempts -> States \cup {"FREE"}] /\ evidence' = evidence
    BY <1>3 DEF ReserveFails, TypeOK, States, store
  <2>. QED BY <1>3, <2>1, <2>2, <2>3 DEF ReserveFails, Return, TypeOK, Goto, Steps, provider
<1>4. CASE Dispatch(p)
  <2>1. job' \in [Processes -> Jobs]
    BY <1>4 DEF Dispatch, TypeOK, Jobs
  <2>2. run' \in [Processes -> Runs]
    BY <1>4 DEF Dispatch, TypeOK, Runs
  <2>. QED BY <1>4, <2>1, <2>2 DEF Dispatch, TypeOK, Goto, Steps, Flights, store
<1>5. CASE DispatchNotSent(p)
  <2>1. PICK tried \in BOOLEAN :
          job' = [job EXCEPT ![p].outcome = "NOT_SENT", ![p].tried = tried]
    BY <1>5 DEF DispatchNotSent
  <2>2. [job[p] EXCEPT !.outcome = "NOT_SENT", !.tried = tried] \in Jobs
    BY DEF TypeOK, Jobs, Outcomes
  <2>. QED BY <1>5, <2>1, <2>2 DEF DispatchNotSent, TypeOK, Goto, Steps, store, provider
<1>6. CASE Answer(p)
  <2>1. AnswersTo(flight[job[p].attempt]) \subseteq Outcomes
    BY DEF AnswersTo, Outcomes
  <2>2. job' \in [Processes -> Jobs]
    BY <1>6, <2>1 DEF Answer, TypeOK, Jobs
  <2>. QED BY <1>6, <2>2 DEF Answer, TypeOK, Goto, Steps, store, provider
<1>7. CASE RecordOutcome(p)
  <2>1. job' \in [Processes -> Jobs]
    BY <1>7, NoJobType DEF RecordOutcome, Return, TypeOK
  <2>2. run' \in [Processes -> Runs]
    <3>1. PICK halt \in (IF job[p].outcome = "REJECTED" THEN {run[p].halted, TRUE}
                                                        ELSE {run[p].halted}) :
            run' = [run EXCEPT ![p].dispatched = IF job[p].tried THEN @ + 1 ELSE @,
                               ![p].halted = halt]
      BY <1>7 DEF RecordOutcome, Account
    <3>. halt \in BOOLEAN
      BY DEF TypeOK, Runs
    <3>2. \A d \in Nat : [run[p] EXCEPT !.dispatched = d, !.halted = halt] \in Runs
      BY DEF TypeOK, Runs
    <3>3. (IF job[p].tried THEN run[p].dispatched + 1 ELSE run[p].dispatched) \in Nat
      BY DEF TypeOK, Runs
    <3>. QED BY <3>1, <3>2, <3>3 DEF TypeOK
  <2>3. job[p].outcome \in Outcomes
    BY <1>7 DEF RecordOutcome, ValidTransition, TypeOK, Jobs, Outcomes
  <2>. QED BY <1>7, <2>1, <2>2, <2>3
          DEF RecordOutcome, Return, TypeOK, Goto, Steps, States, Outcomes, store, provider
<1>8. CASE RecordOutcomeFails(p)
  <2>1. job' \in [Processes -> Jobs]
    BY <1>8, NoJobType DEF RecordOutcomeFails, Return, TypeOK
  <2>2. run' \in [Processes -> Runs]
    BY <1>8 DEF RecordOutcomeFails, TypeOK, Runs
  <2>3. state' \in [Attempts -> States \cup {"FREE"}]
    BY <1>8 DEF RecordOutcomeFails, ValidTransition, TypeOK, States, Outcomes
  <2>. QED BY <1>8, <2>1, <2>2, <2>3
          DEF RecordOutcomeFails, Return, TypeOK, Goto, Steps, store, provider
<1>. QED BY <1>1, <1>2, <1>3, <1>4, <1>5, <1>6, <1>7, <1>8 DEF Submit

LEMMA ReconciliationsKeepType ==
  ASSUME TypeOK, NEW p \in Processes, Reconcile(p)
  PROVE  TypeOK'
<1>1. ASSUME NEW a \in Attempts, ReconcileStart(p, a)
      PROVE  TypeOK'
  <2>1. [job[p] EXCEPT !.vacancy = target[a], !.attempt = a] \in Jobs
    BY DEF TypeOK, Jobs
  <2>. QED BY <1>1, <2>1 DEF ReconcileStart, TypeOK, Goto, Steps, store, provider
<1>2. ASSUME NEW a \in Attempts, ConfirmManual(p, a)
      PROVE  TypeOK'
  <2>1. ASSUME NEW n \in NegotiationIds, NEW c \in ConversationIds
        PROVE  [NoJob EXCEPT !.vacancy = target[a], !.attempt = a,
                             !.seen = Observation(TRUE, n, c)] \in Jobs
    <3>1. Observation(TRUE, n, c) \in Evidence
      BY DEF Observation, Evidence
    <3>. QED BY <3>1, NoJobType DEF TypeOK, Jobs
  <2>2. PICK n \in NegotiationIds, c \in ConversationIds :
          job' = [job EXCEPT ![p] = [NoJob EXCEPT !.vacancy = target[a], !.attempt = a,
                                                  !.seen = Observation(TRUE, n, c)]]
    BY <1>2 DEF ConfirmManual
  <2>3. job' \in [Processes -> Jobs]
    BY <2>1, <2>2 DEF TypeOK
  <2>. QED BY <1>2, <2>3 DEF ConfirmManual, TypeOK, Goto, Steps, store, provider
<1>3. CASE ReconcileNotApplicable(p)
  BY <1>3, NoJobType DEF ReconcileNotApplicable, Return, TypeOK, Goto, Steps, store, provider
<1>4. CASE ReadEvidence(p)
  <2>1. NoEvidence \in Evidence
    BY DEF NoEvidence, Observation, Evidence
  <2>2. Observations(job[p].vacancy) \subseteq Evidence
    BY <2>1 DEF Observations
  <2>3. job' \in [Processes -> Jobs]
    BY <1>4, <2>2 DEF ReadEvidence, TypeOK, Jobs
  <2>. QED BY <1>4, <2>3 DEF ReadEvidence, TypeOK, Goto, Steps, store, provider
<1>5. CASE RecordReconciliation(p)
  <2>1. job' \in [Processes -> Jobs]
    BY <1>5, NoJobType DEF RecordReconciliation, Return, TypeOK
  <2>2. evidence' \in [Attempts -> Evidence]
    BY <1>5, EvidenceAfterType DEF RecordReconciliation, TypeOK, Jobs
  <2>3. state' \in [Attempts -> States \cup {"FREE"}]
    BY <1>5 DEF RecordReconciliation, StateAfter, TypeOK, States
  <2>. QED BY <1>5, <2>1, <2>2, <2>3
          DEF RecordReconciliation, Return, TypeOK, Goto, Steps, store, provider
<1>6. CASE RecordReconciliationFails(p)
  BY <1>6, NoJobType DEF RecordReconciliationFails, Return, TypeOK, Goto, Steps, store, provider
<1>. QED BY <1>1, <1>2, <1>3, <1>4, <1>5, <1>6 DEF Reconcile

LEMMA ProviderKeepsType ==
  ASSUME TypeOK, Provider
  PROVE  TypeOK'
BY DEF Provider, ProviderAccepts, ProviderRefuses, CandidateApplies, TypeOK, Flights, store

LEMMA NextType == TypeOK /\ [Next]_vars => TypeOK'
<1>. SUFFICES ASSUME TypeOK, [Next]_vars
              PROVE  TypeOK'
  OBVIOUS
<1>1. CASE Next
  BY <1>1, RunsKeepType, SubmissionsKeepType, ReconciliationsKeepType, ProviderKeepsType DEF Next
<1>2. CASE UNCHANGED vars
  BY <1>2 DEF vars, TypeOK
<1>. QED BY <1>1, <1>2

(* Every variable keeps its type whatever the processes and hh.ru do.      *)
THEOREM TypeCorrect == Spec => []TypeOK
BY InitType, NextType, PTL DEF Spec

-----------------------------------------------------------------------------
(* Safety.  A step works for one process on one attempt; the lemmas say    *)
(* what it must respect for the others to stay safe.                       *)

Undisturbed(q) == pc'[q] = pc[q] /\ job'[q] = job[q]

(* Records stay, and responses do not disappear from hh.ru.                *)
WorldGrows ==
  /\ \A a \in Attempts : state[a] # "FREE" => state'[a] # "FREE" /\ target'[a] = target[a]
  /\ \A a \in Attempts : flight[a] = "delivered" => flight'[a] = "delivered"
  /\ manual \subseteq manual'

LEMMA RespondedGrows ==
  ASSUME RecordsAreWhole, WorldGrows, NEW v, Responded(v)
  PROVE  Responded(v)'
BY DEF RecordsAreWhole, WorldGrows, Responded

LEMMA OthersStaySafe ==
  ASSUME IInv, WorldGrows, NEW q \in Processes, Undisturbed(q),
         Holds(q) => /\ state'[job[q].attempt] \in {"SENDING", "TARGET_RESPONSE_CONFIRMED"}
                     /\ Exposed(job[q].attempt)' => Exposed(job[q].attempt)
                     /\ flight[job[q].attempt] = "none" => flight'[job[q].attempt] = "none"
  PROVE  JobSafe(q)'
<1>. JobSafe(q) /\ RecordsAreWhole
  BY DEF IInv, StoreSafe
<1>1. JobIsReal(q)'
  BY DEF JobSafe, JobIsReal, Preparing, Holds, Reconciling, Undisturbed, WorldGrows
<1>2. HeldIsPending(q)'
  BY DEF JobSafe, HeldIsPending, Holds, Undisturbed
<1>3. AnswerIsTrue(q)'
  <2>1. pc[q] = "answered" => target'[job[q].attempt] = target[job[q].attempt]
    BY DEF JobSafe, JobIsReal, Holds, WorldGrows
  <2>2. \A v : Responded(v) => Responded(v)'
    BY RespondedGrows
  <2>. QED BY <2>1, <2>2 DEF JobSafe, AnswerIsTrue, Holds, Undisturbed, Responded, Exposed
<1>4. SeenIsTrue(q)'
  BY RespondedGrows DEF JobSafe, SeenIsTrue, Undisturbed
<1>. QED BY <1>1, <1>2, <1>3, <1>4 DEF JobSafe

LEMMA AtRestIsSafe ==
  ASSUME NEW p \in Processes, pc'[p] \in {"idle", "choose"}
  PROVE  JobSafe(p)' /\ ~Holds(p)'
BY DEF JobSafe, JobIsReal, HeldIsPending, AnswerIsTrue, SeenIsTrue, Preparing, Holds, Reconciling

LEMMA OneHolderStays ==
  ASSUME OneHolder, NEW p \in Processes, \A q \in Processes \ {p} : Undisturbed(q),
         Holds(p)' => Holds(p) /\ job'[p].attempt = job[p].attempt
  PROVE  OneHolder'
BY DEF OneHolder, Holds, Undisturbed

LEMMA StoreStaysSafe ==
  ASSUME StoreSafe, UNCHANGED <<store, provider>>
  PROVE  StoreSafe' /\ WorldGrows
BY DEF StoreSafe, RecordsAreWhole, DuplicateIsTrue, OneBlockingAttempt, ExposedIsBlocking,
       PositiveIsTrue, Exposed, Responded, WorldGrows, store, provider

LEMMA LocalStep ==
  ASSUME IInv, TypeOK', NEW p \in Processes, UNCHANGED <<store, provider>>,
         \A q \in Processes \ {p} : Undisturbed(q), JobSafe(p)',
         Holds(p)' => Holds(p) /\ job'[p].attempt = job[p].attempt
  PROVE  IInv'
<1>1. StoreSafe' /\ WorldGrows
  BY StoreStaysSafe DEF IInv
<1>2. OneHolder'
  BY OneHolderStays DEF IInv
<1>3. ASSUME NEW q \in Processes \ {p}
      PROVE  JobSafe(q)'
  <2>1. JobSafe(q)
    BY DEF IInv
  <2>2. Holds(q) => /\ state'[job[q].attempt] \in {"SENDING", "TARGET_RESPONSE_CONFIRMED"}
                    /\ Exposed(job[q].attempt)' => Exposed(job[q].attempt)
                    /\ flight[job[q].attempt] = "none" => flight'[job[q].attempt] = "none"
    BY <2>1 DEF JobSafe, HeldIsPending, Exposed, Undisturbed, store, provider
  <2>. QED BY <1>1, <2>2, OthersStaySafe
<1>. QED BY <1>1, <1>2, <1>3 DEF IInv

LEMMA ReturnLeavesOthers ==
  ASSUME TypeOK, NEW p \in Processes, Return(p)
  PROVE  pc'[p] \in {"idle", "choose"} /\ \A q \in Processes \ {p} : Undisturbed(q)
BY DEF Return, Goto, TypeOK, Undisturbed

LEMMA RestStep ==
  ASSUME IInv, TypeOK', NEW p \in Processes, UNCHANGED <<store, provider>>,
         \A q \in Processes \ {p} : Undisturbed(q), pc'[p] \in {"idle", "choose"}
  PROVE  IInv'
BY AtRestIsSafe, LocalStep

LEMMA RunsAreSafe ==
  ASSUME IInv, TypeOK', NEW p \in Processes,
         StartRun(p) \/ Choose(p) \/ FinishRun(p) \/ Preflight(p) \/ Crash(p)
  PROVE  IInv'
<1>. TypeOK
  BY DEF IInv
<1>1. CASE StartRun(p) \/ FinishRun(p) \/ Crash(p)
  BY <1>1, RestStep DEF StartRun, FinishRun, Crash, Goto, TypeOK, Undisturbed
<1>2. CASE Preflight(p)
  <2>1. CASE Return(p)
    BY <1>2, <2>1, RestStep, ReturnLeavesOthers DEF Preflight
  <2>2. CASE Goto(p, "submit") /\ UNCHANGED job
    <3>1. JobSafe(p)
      BY DEF IInv
    <3>2. pc[p] = "prepared" /\ pc'[p] = "submit" /\ job'[p] = job[p]
      BY <1>2, <2>2 DEF Preflight, Goto, TypeOK
    <3>3. JobSafe(p)' /\ ~Holds(p)'
      BY <3>1, <3>2 DEF JobSafe, JobIsReal, HeldIsPending, AnswerIsTrue, SeenIsTrue,
                        Preparing, Holds, Reconciling
    <3>. QED BY <1>2, <2>2, <3>3, LocalStep DEF Preflight, Goto, TypeOK, Undisturbed
  <2>. QED BY <1>2, <2>1, <2>2 DEF Preflight
<1>3. CASE Choose(p)
  <2>. PICK v \in Vacancies : PassOver(p, v) \/ GateUnresolved(p, v) \/ GateClear(p, v)
    BY <1>3 DEF Choose
  <2>1. CASE PassOver(p, v)
    BY <2>1, RestStep DEF PassOver, TypeOK, Undisturbed
  <2>2. CASE GateUnresolved(p, v)
    <3>1. PICK a \in BlockingFor(v) : job' = [job EXCEPT ![p].vacancy = v, ![p].attempt = a]
      BY <2>2 DEF GateUnresolved
    <3>2. /\ pc'[p] = "unresolved" /\ job'[p] = [job[p] EXCEPT !.vacancy = v, !.attempt = a]
          /\ \A q \in Processes \ {p} : Undisturbed(q)
      BY <2>2, <3>1 DEF GateUnresolved, Goto, TypeOK, Undisturbed
    <3>3. job'[p].attempt = a /\ job'[p].vacancy = v
      BY <3>2 DEF TypeOK, Jobs
    <3>4. a \in Attempts /\ state'[a] # "FREE" /\ target'[a] = v
      BY <2>2, <3>1 DEF GateUnresolved, BlockingFor, IsBlocking, store
    <3>5. JobSafe(p)' /\ ~Holds(p)'
      BY <3>2, <3>3, <3>4 DEF JobSafe, JobIsReal, HeldIsPending, AnswerIsTrue, SeenIsTrue,
                        Preparing, Holds, Reconciling
    <3>. QED BY <2>2, <3>2, <3>5, LocalStep DEF GateUnresolved
  <2>3. CASE GateClear(p, v)
    <3>1. /\ pc'[p] = "prepared" /\ job'[p].vacancy = v
          /\ \A q \in Processes \ {p} : Undisturbed(q)
      BY <2>3 DEF GateClear, Goto, TypeOK, Jobs, Undisturbed
    <3>2. JobSafe(p)' /\ ~Holds(p)'
      BY <3>1 DEF JobSafe, JobIsReal, HeldIsPending, AnswerIsTrue, SeenIsTrue,
                  Preparing, Holds, Reconciling
    <3>. QED BY <2>3, <3>1, <3>2, LocalStep DEF GateClear
  <2>. QED BY <2>1, <2>2, <2>3
<1>. QED BY <1>1, <1>2, <1>3

(* A step that changes the store or hh.ru on behalf of p. *)
LEMMA StoreStep ==
  ASSUME IInv, TypeOK', StoreSafe', WorldGrows, OneHolder', NEW p \in Processes, JobSafe(p)',
         \A q \in Processes \ {p} :
           /\ Undisturbed(q)
           /\ Holds(q) => /\ state'[job[q].attempt] \in {"SENDING", "TARGET_RESPONSE_CONFIRMED"}
                          /\ Exposed(job[q].attempt)' => Exposed(job[q].attempt)
                          /\ flight[job[q].attempt] = "none" => flight'[job[q].attempt] = "none"
  PROVE  IInv'
<1>1. ASSUME NEW q \in Processes \ {p}
      PROVE  JobSafe(q)'
  BY OthersStaySafe
<1>. QED BY <1>1 DEF IInv

LEMMA ReservationIsSafe ==
  ASSUME TypeOK, StoreSafe, NEW v \in Vacancies, NEW a \in Attempts, Reservable(v, a),
         state' = [state EXCEPT ![a] = "SENDING"], target' = [target EXCEPT ![a] = v],
         UNCHANGED provider
  PROVE  StoreSafe' /\ WorldGrows
<1>. UNCHANGED <<flight, manual>> /\ state[a] = "FREE" /\ flight[a] = "none"
  BY DEF provider, Reservable, StoreSafe, RecordsAreWhole
<1>1. WorldGrows
  BY DEF TypeOK, WorldGrows
<1>2. \A w : Responded(w) => Responded(w)'
  BY <1>1, RespondedGrows DEF StoreSafe
<1>3. RecordsAreWhole'
  BY NoneAssumption DEF TypeOK, StoreSafe, RecordsAreWhole
<1>4. DuplicateIsTrue'
  BY <1>2 DEF TypeOK, StoreSafe, DuplicateIsTrue, Responded
<1>5. OneBlockingAttempt'
  BY DEF TypeOK, StoreSafe, OneBlockingAttempt, Reservable, BlockingFor, IsBlocking
<1>6. ExposedIsBlocking'
  BY DEF TypeOK, StoreSafe, ExposedIsBlocking, Exposed, IsBlocking
<1>7. PositiveIsTrue'
  BY <1>2 DEF TypeOK, StoreSafe, PositiveIsTrue, Responded
<1>. QED BY <1>1, <1>3, <1>4, <1>5, <1>6, <1>7 DEF StoreSafe

LEMMA OutcomeIsSafe ==
  ASSUME IInv, NEW p \in Processes, pc[p] = "answered",
         ValidTransition(state[job[p].attempt], job[p].outcome),
         state' = [state EXCEPT ![job[p].attempt] = job[p].outcome],
         UNCHANGED <<target, provider>>
  PROVE  StoreSafe' /\ WorldGrows
<1>. DEFINE a == job[p].attempt
            o == job[p].outcome
<1>1. TypeOK /\ StoreSafe /\ JobSafe(p) /\ Holds(p)
  BY DEF IInv, Holds
<1>2. a \in Attempts
  BY <1>1 DEF JobSafe, JobIsReal
<1>3. state[a] = "SENDING" /\ o \in Outcomes
  BY <1>1 DEF ValidTransition, TypeOK, Jobs, Outcomes
<1>4. /\ o \in {"REJECTED", "NOT_SENT"} => ~Exposed(a)
      /\ o = "ACCEPTED" => Responded(target[a])
  BY <1>1 DEF JobSafe, AnswerIsTrue
<1>5. UNCHANGED <<target, flight, manual>> /\ state' = [state EXCEPT ![a] = o]
  BY DEF provider
<1>. HIDE DEF a, o
<1>6. WorldGrows
  BY <1>1, <1>2, <1>3, <1>5 DEF TypeOK, WorldGrows, Outcomes
<1>7. RecordsAreWhole'
  BY <1>1, <1>2, <1>3, <1>5 DEF TypeOK, StoreSafe, RecordsAreWhole, Outcomes
<1>8. DuplicateIsTrue'
  BY <1>1, <1>5 DEF StoreSafe, DuplicateIsTrue, Responded
<1>9. OneBlockingAttempt'
  BY <1>1, <1>2, <1>3, <1>5 DEF TypeOK, StoreSafe, OneBlockingAttempt, IsBlocking, Outcomes
<1>10. ExposedIsBlocking'
  BY <1>1, <1>2, <1>3, <1>4, <1>5 DEF TypeOK, StoreSafe, ExposedIsBlocking, Exposed, IsBlocking, Outcomes
<1>11. PositiveIsTrue'
  BY <1>1, <1>2, <1>3, <1>4, <1>5 DEF TypeOK, StoreSafe, PositiveIsTrue, Responded, Outcomes
<1>. QED BY <1>6, <1>7, <1>8, <1>9, <1>10, <1>11 DEF StoreSafe

LEMMA ReservationsAreSafe ==
  ASSUME IInv, TypeOK', NEW p \in Processes,
         (\E a \in Attempts : Reserve(p, a)) \/ ReserveBlocked(p) \/ ReserveFails(p)
  PROVE  IInv'
<1>1. TypeOK /\ StoreSafe /\ OneHolder /\ \A q \in Processes : JobSafe(q)
  BY DEF IInv
<1>2. pc[p] = "submit" /\ job[p].vacancy \in Vacancies /\ ~Holds(p)
  BY <1>1 DEF Reserve, ReserveBlocked, ReserveFails, JobSafe, JobIsReal, Preparing, Holds
<1>3. ASSUME NEW a \in Attempts, Reservable(job[p].vacancy, a), NEW q \in Processes, Holds(q),
             Undisturbed(q), state' = [state EXCEPT ![a] = "SENDING"], UNCHANGED flight
      PROVE  /\ job[q].attempt # a
             /\ state'[job[q].attempt] \in {"SENDING", "TARGET_RESPONSE_CONFIRMED"}
             /\ Exposed(job[q].attempt)' => Exposed(job[q].attempt)
             /\ flight[job[q].attempt] = "none" => flight'[job[q].attempt] = "none"
  BY <1>1, <1>3 DEF JobSafe, JobIsReal, HeldIsPending, Reservable, Undisturbed, Exposed, TypeOK
<1>4. ASSUME NEW a \in Attempts, Reserve(p, a)
      PROVE  IInv'
  <2>1. /\ pc'[p] = "reserved" /\ job'[p] = [job[p] EXCEPT !.attempt = a]
        /\ \A q \in Processes \ {p} : Undisturbed(q)
    BY <1>1, <1>4 DEF Reserve, Goto, TypeOK, Undisturbed
  <2>2. job'[p].attempt = a /\ job'[p].vacancy = job[p].vacancy
    BY <1>1, <2>1 DEF TypeOK, Jobs
  <2>3. StoreSafe' /\ WorldGrows
    BY <1>1, <1>2, <1>4, ReservationIsSafe DEF Reserve
  <2>4. /\ state'[a] = "SENDING" /\ target'[a] = job[p].vacancy /\ flight'[a] = "none"
        /\ UNCHANGED flight
    BY <1>1, <1>4 DEF Reserve, Reservable, StoreSafe, RecordsAreWhole, TypeOK, provider
  <2>5. JobSafe(p)'
    BY <2>1, <2>2, <2>4 DEF JobSafe, JobIsReal, HeldIsPending, AnswerIsTrue, SeenIsTrue,
                            Preparing, Holds, Reconciling
  <2>6. OneHolder'
    <3>1. ASSUME NEW q \in Processes \ {p}, Holds(q)
          PROVE  job[q].attempt # a
      BY <1>3, <1>4, <2>1, <2>4, <3>1 DEF Reserve
    <3>. QED BY <1>1, <2>1, <2>2, <3>1 DEF OneHolder, Holds, Undisturbed
  <2>. QED BY <1>3, <1>4, <2>1, <2>3, <2>4, <2>5, <2>6, StoreStep DEF Reserve
<1>5. CASE ReserveBlocked(p)
  <2>1. /\ pc'[p] = "blocked" /\ job' = job /\ UNCHANGED <<store, provider>>
        /\ \A q \in Processes \ {p} : Undisturbed(q)
    BY <1>1, <1>5 DEF ReserveBlocked, Goto, TypeOK, Undisturbed
  <2>2. JobSafe(p)' /\ ~Holds(p)'
    BY <1>2, <2>1 DEF JobSafe, JobIsReal, HeldIsPending, AnswerIsTrue, SeenIsTrue,
                      Preparing, Holds, Reconciling
  <2>. QED BY <2>1, <2>2, LocalStep
<1>6. CASE ReserveFails(p)
  <2>1. pc'[p] \in {"idle", "choose"} /\ \A q \in Processes \ {p} : Undisturbed(q)
    BY <1>1, <1>6, ReturnLeavesOthers DEF ReserveFails
  <2>2. CASE UNCHANGED store
    BY <1>6, <2>1, <2>2, RestStep DEF ReserveFails
  <2>3. ASSUME NEW a \in Attempts, Reservable(job[p].vacancy, a),
               state' = [state EXCEPT ![a] = "SENDING"],
               target' = [target EXCEPT ![a] = job[p].vacancy]
        PROVE  IInv'
    <3>1. StoreSafe' /\ WorldGrows
      BY <1>1, <1>2, <1>6, <2>3, ReservationIsSafe DEF ReserveFails
    <3>2. JobSafe(p)' /\ ~Holds(p)' /\ OneHolder'
      BY <1>1, <2>1, AtRestIsSafe, OneHolderStays
    <3>. QED BY <1>3, <1>6, <2>1, <2>3, <3>1, <3>2, StoreStep DEF ReserveFails, provider
  <2>. QED BY <1>6, <2>2, <2>3 DEF ReserveFails
<1>. QED BY <1>4, <1>5, <1>6

LEMMA DispatchesAreSafe ==
  ASSUME IInv, TypeOK', NEW p \in Processes, Dispatch(p) \/ DispatchNotSent(p) \/ Answer(p)
  PROVE  IInv'
<1>. DEFINE a == job[p].attempt
<1>1. TypeOK /\ StoreSafe /\ OneHolder /\ \A q \in Processes : JobSafe(q)
  BY DEF IInv
<1>2. Holds(p) /\ a \in Attempts /\ state[a] # "FREE" /\ target[a] = job[p].vacancy
      /\ state[a] \in {"SENDING", "TARGET_RESPONSE_CONFIRMED"}
  BY <1>1 DEF Dispatch, DispatchNotSent, Answer, JobSafe, JobIsReal, HeldIsPending, Holds
<1>3. CASE Dispatch(p)
  <2>1. /\ pc'[p] = "waiting" /\ job'[p] = [job[p] EXCEPT !.tried = TRUE]
        /\ flight' = [flight EXCEPT ![a] = "inflight"] /\ UNCHANGED <<state, target, manual>>
        /\ \A q \in Processes \ {p} : Undisturbed(q)
    BY <1>1, <1>3 DEF Dispatch, Goto, TypeOK, Undisturbed, store
  <2>2. job'[p].attempt = a /\ job'[p].vacancy = job[p].vacancy
    BY <1>1, <2>1 DEF TypeOK, Jobs
  <2>3. flight[a] = "none"
    BY <1>1, <1>3 DEF Dispatch, JobSafe, HeldIsPending
  <2>. HIDE DEF a
  <2>4. WorldGrows
    BY <1>1, <2>1, <2>3 DEF TypeOK, WorldGrows
  <2>5. \A v : Responded(v) => Responded(v)'
    BY <1>1, <2>4, RespondedGrows DEF StoreSafe
  <2>6. RecordsAreWhole' /\ DuplicateIsTrue' /\ OneBlockingAttempt'
    BY <1>1, <1>2, <2>1, <2>3, <2>5
    DEF TypeOK, StoreSafe, RecordsAreWhole, DuplicateIsTrue, OneBlockingAttempt, Responded
  <2>7. ExposedIsBlocking'
    BY <1>1, <1>2, <2>1 DEF TypeOK, StoreSafe, ExposedIsBlocking, Exposed, IsBlocking
  <2>8. PositiveIsTrue'
    BY <1>1, <2>1, <2>5 DEF StoreSafe, PositiveIsTrue, Responded
  <2>9. JobSafe(p)' /\ Holds(p)'
    BY <1>2, <2>1, <2>2 DEF JobSafe, JobIsReal, HeldIsPending, AnswerIsTrue, SeenIsTrue,
                            Preparing, Holds, Reconciling, a
  <2>10. OneHolder'
    BY <1>1, <1>2, <2>1, <2>2, OneHolderStays DEF a
  <2>11. ASSUME NEW q \in Processes \ {p}, Holds(q)
         PROVE  /\ state'[job[q].attempt] \in {"SENDING", "TARGET_RESPONSE_CONFIRMED"}
                /\ Exposed(job[q].attempt)' => Exposed(job[q].attempt)
                /\ flight[job[q].attempt] = "none" => flight'[job[q].attempt] = "none"
    <3>1. job[q].attempt # a
      BY <1>1, <1>2, <2>11 DEF OneHolder, a
    <3>. QED BY <1>1, <2>1, <2>11, <3>1
             DEF JobSafe, JobIsReal, HeldIsPending, Exposed, Undisturbed, TypeOK
  <2>. QED BY <2>1, <2>4, <2>6, <2>7, <2>8, <2>9, <2>10, <2>11, StoreStep DEF StoreSafe
<1>4. CASE DispatchNotSent(p)
  <2>1. PICK tried \in BOOLEAN :
          job' = [job EXCEPT ![p].outcome = "NOT_SENT", ![p].tried = tried]
    BY <1>4 DEF DispatchNotSent
  <2>2. /\ pc'[p] = "answered"
        /\ job'[p] = [job[p] EXCEPT !.outcome = "NOT_SENT", !.tried = tried]
        /\ \A q \in Processes \ {p} : Undisturbed(q)
    BY <1>1, <1>4, <2>1 DEF DispatchNotSent, Goto, TypeOK, Undisturbed
  <2>3. job'[p].attempt = a /\ job'[p].vacancy = job[p].vacancy /\ job'[p].outcome = "NOT_SENT"
    BY <1>1, <2>2 DEF TypeOK, Jobs
  <2>4. flight[a] = "none"
    BY <1>1, <1>4 DEF DispatchNotSent, JobSafe, HeldIsPending
  <2>5. JobSafe(p)'
    BY <1>2, <1>4, <2>2, <2>3, <2>4
    DEF DispatchNotSent, JobSafe, JobIsReal, HeldIsPending, AnswerIsTrue, SeenIsTrue,
        Preparing, Holds, Reconciling, Exposed, store, provider
  <2>. QED BY <1>2, <1>4, <2>2, <2>3, <2>5, LocalStep DEF DispatchNotSent
<1>5. CASE Answer(p)
  <2>1. PICK o \in AnswersTo(flight[a]) : job' = [job EXCEPT ![p].outcome = o]
    BY <1>5 DEF Answer
  <2>2. /\ pc'[p] = "answered" /\ job'[p] = [job[p] EXCEPT !.outcome = o]
        /\ \A q \in Processes \ {p} : Undisturbed(q)
    BY <1>1, <1>5, <2>1 DEF Answer, Goto, TypeOK, Undisturbed
  <2>3. job'[p].attempt = a /\ job'[p].vacancy = job[p].vacancy /\ job'[p].outcome = o
    BY <1>1, <2>2 DEF TypeOK, Jobs
  <2>4. /\ o \in {"REJECTED", "NOT_SENT"} => ~Exposed(a)
        /\ o = "ACCEPTED" => Responded(target[a])
    BY <1>1, <1>2, <2>1 DEF AnswersTo, Exposed, Responded, StoreSafe, DuplicateIsTrue
  <2>5. JobSafe(p)'
    BY <1>2, <1>5, <2>2, <2>3, <2>4
    DEF Answer, JobSafe, JobIsReal, HeldIsPending, AnswerIsTrue, SeenIsTrue,
        Preparing, Holds, Reconciling, Exposed, Responded, store, provider
  <2>. QED BY <1>2, <1>5, <2>2, <2>3, <2>5, LocalStep DEF Answer
<1>. QED BY <1>3, <1>4, <1>5

LEMMA OutcomesAreSafe ==
  ASSUME IInv, TypeOK', NEW p \in Processes, RecordOutcome(p) \/ RecordOutcomeFails(p)
  PROVE  IInv'
<1>1. TypeOK /\ StoreSafe /\ OneHolder /\ \A q \in Processes : JobSafe(q)
  BY DEF IInv
<1>2. /\ pc[p] = "answered" /\ UNCHANGED <<target, evidence, provider>>
      /\ pc'[p] \in {"idle", "choose"} /\ \A q \in Processes \ {p} : Undisturbed(q)
  BY <1>1, ReturnLeavesOthers DEF RecordOutcome, RecordOutcomeFails
<1>3. CASE UNCHANGED state
  BY <1>2, <1>3, RestStep DEF store
<1>4. CASE /\ ValidTransition(state[job[p].attempt], job[p].outcome)
           /\ state' = [state EXCEPT ![job[p].attempt] = job[p].outcome]
  <2>1. StoreSafe' /\ WorldGrows
    BY <1>2, <1>4, OutcomeIsSafe
  <2>2. JobSafe(p)' /\ ~Holds(p)' /\ OneHolder'
    BY <1>1, <1>2, AtRestIsSafe, OneHolderStays
  <2>3. ASSUME NEW q \in Processes \ {p}, Holds(q)
        PROVE  /\ state'[job[q].attempt] \in {"SENDING", "TARGET_RESPONSE_CONFIRMED"}
               /\ Exposed(job[q].attempt)' => Exposed(job[q].attempt)
               /\ flight[job[q].attempt] = "none" => flight'[job[q].attempt] = "none"
    <3>1. job[q].attempt # job[p].attempt
      BY <1>1, <1>2, <2>3 DEF OneHolder, Holds
    <3>2. job'[q] = job[q] /\ flight' = flight
      BY <1>2, <2>3 DEF Undisturbed, provider
    <3>. QED BY <1>1, <1>4, <2>3, <3>1, <3>2
             DEF JobSafe, JobIsReal, HeldIsPending, Exposed, TypeOK
  <2>. QED BY <1>2, <2>1, <2>2, <2>3, StoreStep
<1>. QED BY <1>3, <1>4 DEF RecordOutcome, RecordOutcomeFails

LEMMA ConfirmationIsSafe ==
  ASSUME TypeOK, StoreSafe, NEW a \in Attempts, state[a] # "FREE",
         NEW e \in Evidence, e.confirmed => Responded(target[a]),
         ReconciliationAllowed(state[a], evidence[a], e),
         state' = [state EXCEPT ![a] = StateAfter(state[a], e)],
         UNCHANGED <<target, provider>>
  PROVE  StoreSafe' /\ WorldGrows
<1>1. UNCHANGED <<target, flight, manual>>
  BY DEF provider
<1>2. \/ state' = state
      \/ /\ state' = [state EXCEPT ![a] = "TARGET_RESPONSE_CONFIRMED"]
         /\ IsBlocking(state[a]) /\ Responded(target[a])
  BY DEF StateAfter, ReconciliationAllowed, ValidTransition, IsBlocking, TypeOK
<1>3. WorldGrows /\ RecordsAreWhole'
  BY <1>1, <1>2 DEF TypeOK, StoreSafe, RecordsAreWhole, WorldGrows
<1>4. DuplicateIsTrue'
  BY <1>1 DEF StoreSafe, DuplicateIsTrue, Responded
<1>5. \A b \in Attempts : IsBlocking(state'[b]) <=> IsBlocking(state[b])
  BY <1>2 DEF TypeOK, IsBlocking
<1>6. OneBlockingAttempt' /\ ExposedIsBlocking'
  BY <1>1, <1>5 DEF StoreSafe, OneBlockingAttempt, ExposedIsBlocking, Exposed, IsBlocking
<1>7. PositiveIsTrue'
  BY <1>1, <1>2 DEF TypeOK, StoreSafe, PositiveIsTrue, Responded
<1>. QED BY <1>3, <1>4, <1>6, <1>7 DEF StoreSafe

LEMMA ReconciliationsAreSafe ==
  ASSUME IInv, TypeOK', NEW p \in Processes, Reconcile(p)
  PROVE  IInv'
<1>1. TypeOK /\ StoreSafe /\ OneHolder /\ \A q \in Processes : JobSafe(q)
  BY DEF IInv
<1>2. ASSUME NEW a \in Attempts, ReconcileStart(p, a)
      PROVE  IInv'
  <2>1. /\ pc'[p] = "reading" /\ UNCHANGED <<store, provider>>
        /\ job'[p] = [job[p] EXCEPT !.vacancy = target[a], !.attempt = a]
        /\ \A q \in Processes \ {p} : Undisturbed(q)
    BY <1>1, <1>2 DEF ReconcileStart, Goto, TypeOK, Undisturbed
  <2>2. job'[p].attempt = a /\ job'[p].vacancy = target[a]
    BY <1>1, <2>1 DEF TypeOK, Jobs
  <2>3. state'[a] # "FREE" /\ target'[a] = target[a]
    BY <1>2, <2>1 DEF ReconcileStart, Reconcilable, store
  <2>4. JobSafe(p)' /\ ~Holds(p)'
    BY <2>1, <2>2, <2>3 DEF JobSafe, JobIsReal, HeldIsPending, AnswerIsTrue, SeenIsTrue,
                            Preparing, Holds, Reconciling
  <2>. QED BY <2>1, <2>4, LocalStep
<1>3. ASSUME NEW a \in Attempts, ConfirmManual(p, a)
      PROVE  IInv'
  <2>1. PICK n \in NegotiationIds, c \in ConversationIds :
          job' = [job EXCEPT ![p] = [NoJob EXCEPT !.vacancy = target[a], !.attempt = a,
                                                  !.seen = Observation(TRUE, n, c)]]
    BY <1>3 DEF ConfirmManual
  <2>2. /\ pc'[p] = "recording" /\ UNCHANGED <<store, provider>>
        /\ job'[p] = [NoJob EXCEPT !.vacancy = target[a], !.attempt = a,
                                   !.seen = Observation(TRUE, n, c)]
        /\ \A q \in Processes \ {p} : Undisturbed(q)
    BY <1>1, <1>3, <2>1 DEF ConfirmManual, Goto, TypeOK, Undisturbed
  <2>3. job'[p].attempt = a /\ job'[p].vacancy = target[a]
    BY <2>2 DEF NoJob
  <2>4. state'[a] # "FREE" /\ target'[a] = target[a] /\ Responded(target[a])'
    BY <1>3, <2>2 DEF ConfirmManual, Reconcilable, Responded, store, provider
  <2>5. JobSafe(p)' /\ ~Holds(p)'
    BY <2>2, <2>3, <2>4 DEF JobSafe, JobIsReal, HeldIsPending, AnswerIsTrue, SeenIsTrue,
                            Preparing, Holds, Reconciling
  <2>. QED BY <2>2, <2>5, LocalStep
<1>4. CASE ReconcileNotApplicable(p) \/ RecordReconciliationFails(p)
  BY <1>1, <1>4, RestStep, ReturnLeavesOthers DEF ReconcileNotApplicable, RecordReconciliationFails
<1>5. CASE ReadEvidence(p)
  <2>1. PICK e \in Observations(job[p].vacancy) : job' = [job EXCEPT ![p].seen = e]
    BY <1>5 DEF ReadEvidence
  <2>2. /\ pc[p] = "reading" /\ pc'[p] = "recording" /\ UNCHANGED <<store, provider>>
        /\ job'[p] = [job[p] EXCEPT !.seen = e]
        /\ \A q \in Processes \ {p} : Undisturbed(q)
    BY <1>1, <1>5, <2>1 DEF ReadEvidence, Goto, TypeOK, Undisturbed
  <2>3. /\ job'[p].attempt = job[p].attempt /\ job'[p].vacancy = job[p].vacancy
        /\ job'[p].seen = e
    BY <1>1, <2>2 DEF TypeOK, Jobs
  <2>4. e.confirmed => Responded(job[p].vacancy)
    BY <2>1 DEF Observations, NoEvidence, Observation
  <2>5. JobIsReal(p)
    BY <1>1 DEF JobSafe
  <2>6. JobSafe(p)' /\ ~Holds(p)'
    BY <2>2, <2>3, <2>4, <2>5
    DEF JobSafe, JobIsReal, HeldIsPending, AnswerIsTrue, SeenIsTrue,
        Preparing, Holds, Reconciling, Responded, store, provider
  <2>. QED BY <2>2, <2>6, LocalStep
<1>6. CASE RecordReconciliation(p)
  <2>. DEFINE a == job[p].attempt
              e == job[p].seen
  <2>1. /\ pc[p] = "recording" /\ ReconciliationAllowed(state[a], evidence[a], e)
        /\ state' = [state EXCEPT ![a] = StateAfter(state[a], e)]
        /\ Return(p) /\ UNCHANGED <<target, provider>>
    BY <1>6 DEF RecordReconciliation
  <2>2. /\ a \in Attempts /\ state[a] # "FREE" /\ e \in Evidence
        /\ e.confirmed => Responded(target[a])
    BY <1>1, <2>1 DEF JobSafe, JobIsReal, SeenIsTrue, Reconciling, TypeOK, Jobs
  <2>3. pc'[p] \in {"idle", "choose"} /\ \A q \in Processes \ {p} : Undisturbed(q)
    BY <1>1, <2>1, ReturnLeavesOthers
  <2>. HIDE DEF a, e
  <2>4. StoreSafe' /\ WorldGrows
    BY <1>1, <2>1, <2>2, ConfirmationIsSafe
  <2>5. JobSafe(p)' /\ ~Holds(p)' /\ OneHolder'
    BY <1>1, <2>3, AtRestIsSafe, OneHolderStays
  <2>6. ASSUME NEW q \in Processes \ {p}, Holds(q)
        PROVE  /\ state'[job[q].attempt] \in {"SENDING", "TARGET_RESPONSE_CONFIRMED"}
               /\ Exposed(job[q].attempt)' => Exposed(job[q].attempt)
               /\ flight[job[q].attempt] = "none" => flight'[job[q].attempt] = "none"
    <3>1. job'[q] = job[q] /\ flight' = flight
      BY <2>1, <2>3, <2>6 DEF Undisturbed, provider
    <3>2. \A b \in Attempts : state'[b] \in {state[b], "TARGET_RESPONSE_CONFIRMED"}
      BY <1>1, <2>1 DEF StateAfter, TypeOK
    <3>. QED BY <1>1, <2>6, <3>1, <3>2 DEF JobSafe, JobIsReal, HeldIsPending, Exposed
  <2>. QED BY <2>3, <2>4, <2>5, <2>6, StoreStep
<1>. QED BY <1>2, <1>3, <1>4, <1>5, <1>6 DEF Reconcile

LEMMA ProviderIsSafe ==
  ASSUME IInv, TypeOK', Provider
  PROVE  IInv'
<1>1. TypeOK /\ StoreSafe /\ OneHolder /\ \A q \in Processes : JobSafe(q)
  BY DEF IInv
<1>2. UNCHANGED <<state, target, pc, job>>
  BY DEF Provider, ProviderAccepts, ProviderRefuses, CandidateApplies, store
<1>3. \/ /\ manual' = manual
         /\ \E a \in Attempts :
              /\ flight[a] = "inflight"
              /\ \/ flight' = [flight EXCEPT ![a] = "delivered"]
                 \/ flight' = [flight EXCEPT ![a] = "duplicate"] /\ Responded(target[a])
                 \/ flight' = [flight EXCEPT ![a] = "refused"]
      \/ flight' = flight /\ manual \subseteq manual'
  BY DEF Provider, ProviderAccepts, ProviderRefuses, CandidateApplies
<1>4. WorldGrows
  BY <1>1, <1>2, <1>3 DEF TypeOK, WorldGrows
<1>5. \A v : Responded(v) => Responded(v)'
  BY <1>1, <1>4, RespondedGrows DEF StoreSafe
<1>6. /\ \A a \in Attempts : Exposed(a)' => Exposed(a)
      /\ \A a \in Attempts : flight[a] = "none" => flight'[a] = "none"
  BY <1>1, <1>3 DEF TypeOK, Exposed
<1>7. RecordsAreWhole' /\ OneBlockingAttempt' /\ ExposedIsBlocking'
  BY <1>1, <1>2, <1>6 DEF StoreSafe, RecordsAreWhole, OneBlockingAttempt, ExposedIsBlocking
<1>8. PositiveIsTrue'
  BY <1>1, <1>2, <1>5 DEF StoreSafe, PositiveIsTrue, Responded
<1>9. DuplicateIsTrue'
  <2>1. \A a \in Attempts : flight'[a] = "duplicate" => flight[a] = "duplicate" \/ Responded(target[a])
    BY <1>1, <1>3 DEF TypeOK
  <2>. QED BY <1>1, <1>2, <1>5, <2>1 DEF StoreSafe, DuplicateIsTrue, Responded
<1>10. OneHolder'
  BY <1>1, <1>2 DEF OneHolder, Holds
<1>11. ASSUME NEW q \in Processes
       PROVE  JobSafe(q)'
  BY <1>1, <1>2, <1>4, <1>6, OthersStaySafe
  DEF JobSafe, JobIsReal, HeldIsPending, Undisturbed
<1>. QED BY <1>7, <1>8, <1>9, <1>10, <1>11 DEF IInv, StoreSafe

LEMMA InitSafe == Init => IInv
BY InitType
DEF Init, IInv, StoreSafe, RecordsAreWhole, DuplicateIsTrue, OneBlockingAttempt,
    ExposedIsBlocking, PositiveIsTrue, IsBlocking, Exposed, OneHolder, JobSafe, JobIsReal,
    HeldIsPending, AnswerIsTrue, SeenIsTrue, Preparing, Holds, Reconciling

LEMMA NextSafe == IInv /\ [Next]_vars => IInv'
<1>. SUFFICES ASSUME IInv, [Next]_vars
              PROVE  IInv'
  OBVIOUS
<1>1. TypeOK'
  BY NextType DEF IInv
<1>2. CASE Next
  BY <1>1, <1>2, RunsAreSafe, ReservationsAreSafe, DispatchesAreSafe, OutcomesAreSafe,
     ReconciliationsAreSafe, ProviderIsSafe DEF Next, Submit
<1>3. CASE UNCHANGED vars
  BY <1>3 DEF vars, IInv, TypeOK, StoreSafe, RecordsAreWhole, DuplicateIsTrue, OneBlockingAttempt,
    ExposedIsBlocking, PositiveIsTrue, IsBlocking, Exposed, Responded, OneHolder, JobSafe, JobIsReal,
    HeldIsPending, AnswerIsTrue, SeenIsTrue, Preparing, Holds, Reconciling
<1>. QED BY <1>2, <1>3

LEMMA Safety == Spec => []IInv
BY InitSafe, NextSafe, PTL DEF Spec

(* Two attempts never block one vacancy, whatever the interleaving.        *)
THEOREM OneBlockingAttemptAlways == Spec => []OneBlockingAttempt
<1>1. IInv => OneBlockingAttempt
  BY DEF IInv, StoreSafe
<1>. QED BY <1>1, Safety, PTL

(* A response HH holds or may yet receive keeps its vacancy blocked.       *)
THEOREM ExposedIsBlockingAlways == Spec => []ExposedIsBlocking
<1>1. IInv => ExposedIsBlocking
  BY DEF IInv, StoreSafe
<1>. QED BY <1>1, Safety, PTL

(* Over all processes, crashes and restarts, at most one POST per vacancy  *)
(* is on its way or delivered: what the blocking records are for.          *)
THEOREM AtMostOneExposedAlways == Spec => []AtMostOneExposed
<1>1. IInv => AtMostOneExposed
  BY DEF IInv, StoreSafe, OneBlockingAttempt, ExposedIsBlocking, AtMostOneExposed
<1>. QED BY <1>1, Safety, PTL

(* The store is never optimistic: a positive record has its response.      *)
THEOREM PositiveIsTrueAlways == Spec => []PositiveIsTrue
<1>1. IInv => PositiveIsTrue
  BY DEF IInv, StoreSafe
<1>. QED BY <1>1, Safety, PTL

-----------------------------------------------------------------------------
(* Action properties and refinement: what a step can do to the store.      *)

Reserves(v, a) ==
  /\ Reservable(v, a)
  /\ state' = [state EXCEPT ![a] = "SENDING"]
  /\ target' = [target EXCEPT ![a] = v]
  /\ UNCHANGED <<evidence, flight>>

Settles(a, o) ==
  /\ state[a] = "SENDING"
  /\ o \in {"REJECTED", "NOT_SENT"} => ~Exposed(a)
  /\ state' = [state EXCEPT ![a] = o]
  /\ UNCHANGED <<target, evidence, flight>>

Observes(a, e) ==
  /\ ReconciliationAllowed(state[a], evidence[a], e)
  /\ state' = [state EXCEPT ![a] = StateAfter(state[a], e)]
  /\ evidence' = [evidence EXCEPT ![a] = EvidenceAfter(state[a], evidence[a], e)]
  /\ UNCHANGED <<target, flight>>

LEMMA StoreMoves ==
  ASSUME IInv, Next
  PROVE  \/ UNCHANGED store
         \/ \E v \in Vacancies, a \in Attempts : Reserves(v, a)
         \/ \E a \in Attempts, o \in Outcomes : Settles(a, o)
         \/ \E a \in Attempts, e \in Evidence : Observes(a, e)
<1>1. TypeOK /\ \A p \in Processes : JobSafe(p)
  BY DEF IInv
<1>2. CASE Provider
  BY <1>2 DEF Provider, ProviderAccepts, ProviderRefuses, CandidateApplies
<1>3. ASSUME NEW p \in Processes,
             StartRun(p) \/ Choose(p) \/ FinishRun(p) \/ Preflight(p) \/ Crash(p)
      PROVE  UNCHANGED store
  BY <1>3 DEF StartRun, Choose, PassOver, GateUnresolved, GateClear, FinishRun, Preflight, Crash
<1>4. ASSUME NEW p \in Processes, Submit(p)
      PROVE  \/ UNCHANGED store
             \/ \E v \in Vacancies, a \in Attempts : Reserves(v, a)
             \/ \E a \in Attempts, o \in Outcomes : Settles(a, o)
  <2>1. CASE (\E a \in Attempts : Reserve(p, a)) \/ ReserveFails(p)
    <3>1. job[p].vacancy \in Vacancies
      BY <1>1, <2>1 DEF Reserve, ReserveFails, JobSafe, JobIsReal, Preparing
    <3>. QED BY <2>1, <3>1 DEF Reserve, ReserveFails, Reserves, store, provider
  <2>2. CASE ReserveBlocked(p) \/ Dispatch(p) \/ DispatchNotSent(p) \/ Answer(p)
    BY <2>2 DEF ReserveBlocked, Dispatch, DispatchNotSent, Answer
  <2>3. CASE RecordOutcome(p) \/ RecordOutcomeFails(p)
    <3>1. /\ job[p].attempt \in Attempts
          /\ job[p].outcome \in {"REJECTED", "NOT_SENT"} => ~Exposed(job[p].attempt)
      BY <1>1, <2>3 DEF RecordOutcome, RecordOutcomeFails, JobSafe, JobIsReal, AnswerIsTrue, Holds
    <3>2. ASSUME ValidTransition(state[job[p].attempt], job[p].outcome)
          PROVE  state[job[p].attempt] = "SENDING" /\ job[p].outcome \in Outcomes
      BY <1>1, <3>2 DEF ValidTransition, TypeOK, Jobs, Outcomes
    <3>. QED BY <2>3, <3>1, <3>2 DEF RecordOutcome, RecordOutcomeFails, Settles, store, provider
  <2>. QED BY <1>4, <2>1, <2>2, <2>3 DEF Submit
<1>5. ASSUME NEW p \in Processes, Reconcile(p)
      PROVE  UNCHANGED store \/ \E a \in Attempts, e \in Evidence : Observes(a, e)
  <2>1. CASE RecordReconciliation(p)
    <3>1. job[p].attempt \in Attempts /\ job[p].seen \in Evidence
      BY <1>1, <2>1 DEF RecordReconciliation, JobSafe, JobIsReal, Reconciling, TypeOK, Jobs
    <3>. QED BY <2>1, <3>1 DEF RecordReconciliation, Observes, provider
  <2>2. CASE ~RecordReconciliation(p)
    BY <1>5, <2>2 DEF Reconcile, ReconcileStart, ConfirmManual, ReconcileNotApplicable,
                      ReadEvidence, RecordReconciliationFails
  <2>. QED BY <2>1, <2>2
<1>. QED BY <1>2, <1>3, <1>4, <1>5 DEF Next

LEMMA SettledStays ==
  ASSUME IInv, Next, NEW a \in Attempts
  PROVE  /\ state[a] \in {"REJECTED", "NOT_SENT", "TARGET_RESPONSE_CONFIRMED"} => state'[a] = state[a]
         /\ state[a] = "TARGET_RESPONSE_CONFIRMED" /\ evidence[a].negotiation # None
              => evidence'[a].negotiation = evidence[a].negotiation
<1>1. TypeOK
  BY DEF IInv
<1>2. CASE UNCHANGED store
  BY <1>2 DEF store
<1>3. ASSUME NEW v \in Vacancies, NEW b \in Attempts, Reserves(v, b)
      PROVE  evidence' = evidence /\ (state[a] # "FREE" => state'[a] = state[a])
  BY <1>1, <1>3 DEF Reserves, Reservable, TypeOK
<1>4. ASSUME NEW b \in Attempts, NEW o \in Outcomes, Settles(b, o)
      PROVE  evidence' = evidence /\ (state[a] # "SENDING" => state'[a] = state[a])
  BY <1>1, <1>4 DEF Settles, TypeOK
<1>5. ASSUME NEW b \in Attempts, NEW e \in Evidence, Observes(b, e)
      PROVE  /\ state[a] \in {"REJECTED", "NOT_SENT", "TARGET_RESPONSE_CONFIRMED"} => state'[a] = state[a]
             /\ state[a] = "TARGET_RESPONSE_CONFIRMED" /\ evidence[a].negotiation # None
                  => evidence'[a].negotiation = evidence[a].negotiation
  <2>1. CASE a # b
    BY <1>1, <1>5, <2>1 DEF Observes, TypeOK
  <2>2. CASE a = b
    <3>1. /\ ReconciliationAllowed(state[a], evidence[a], e)
          /\ state'[a] = StateAfter(state[a], e)
          /\ evidence'[a] = EvidenceAfter(state[a], evidence[a], e)
      BY <1>1, <1>5, <2>2 DEF Observes, TypeOK
    <3>2. evidence[a] \in Evidence
      BY <1>1 DEF TypeOK
    <3>3. state[a] \in {"REJECTED", "NOT_SENT", "TARGET_RESPONSE_CONFIRMED"} => state'[a] = state[a]
      BY <3>1 DEF ReconciliationAllowed, ValidTransition, StateAfter
    <3>4. state[a] = "TARGET_RESPONSE_CONFIRMED" /\ evidence[a].negotiation # None
            => evidence'[a].negotiation = evidence[a].negotiation
      BY <3>1, <3>2 DEF ReconciliationAllowed, SameOrUnknown, EvidenceAfter, Evidence
    <3>. QED BY <3>3, <3>4
  <2>. QED BY <2>1, <2>2
<1>. QED BY <1>2, <1>3, <1>4, <1>5, StoreMoves

(* What the store settled stays settled, and keeps its negotiation.        *)
THEOREM SettledIsFinalAlways == Spec => SettledIsFinal
<1>. DEFINE Stays == \A a \in Attempts :
       /\ state[a] \in {"REJECTED", "NOT_SENT", "TARGET_RESPONSE_CONFIRMED"} => state'[a] = state[a]
       /\ state[a] = "TARGET_RESPONSE_CONFIRMED" /\ evidence[a].negotiation # None
            => evidence'[a].negotiation = evidence[a].negotiation
<1>1. IInv /\ [Next]_vars => [Stays]_vars
  BY SettledStays
<1>. HIDE DEF Stays
<1>2. Spec => [][Stays]_vars
  BY <1>1, Safety, PTL DEF Spec
<1>. QED BY <1>2 DEF SettledIsFinal, Stays

LEMMA ResponseMoves ==
  ASSUME IInv, Next
  PROVE  \/ \A a \in Attempts : (flight'[a] = "delivered") <=> (flight[a] = "delivered")
         \/ \E a \in Attempts : /\ flight[a] = "inflight"
                               /\ flight' = [flight EXCEPT ![a] = "delivered"]
                               /\ UNCHANGED store
<1>1. TypeOK /\ \A p \in Processes : JobSafe(p)
  BY DEF IInv
<1>2. CASE Provider
  BY <1>1, <1>2 DEF Provider, ProviderAccepts, ProviderRefuses, CandidateApplies, TypeOK
<1>3. ASSUME NEW p \in Processes, Dispatch(p)
      PROVE  \A a \in Attempts : (flight'[a] = "delivered") <=> (flight[a] = "delivered")
  <2>1. flight[job[p].attempt] = "none"
    BY <1>1, <1>3 DEF Dispatch, JobSafe, HeldIsPending
  <2>. QED BY <1>1, <1>3, <2>1 DEF Dispatch, TypeOK
<1>4. ASSUME NEW p \in Processes, ~Dispatch(p),
             \/ StartRun(p) \/ Choose(p) \/ FinishRun(p) \/ Preflight(p) \/ Crash(p)
             \/ Submit(p) \/ Reconcile(p)
      PROVE  UNCHANGED flight
  BY <1>4 DEF StartRun, Choose, PassOver, GateUnresolved, GateClear, FinishRun, Preflight, Crash,
    Submit, Reserve, ReserveBlocked, ReserveFails, DispatchNotSent, Answer, RecordOutcome,
    RecordOutcomeFails, Reconcile, ReconcileStart, ConfirmManual, ReconcileNotApplicable,
    ReadEvidence, RecordReconciliation, RecordReconciliationFails, provider
<1>. QED BY <1>2, <1>3, <1>4 DEF Next

LEMMA InitRefines == Init => Abstract!Init
BY DEF Init, Abstract!Init, BlockingFor, IsBlocking

LEMMA ClaimRefines ==
  ASSUME IInv, NEW v \in Vacancies, NEW a \in Attempts, Reserves(v, a)
  PROVE  Abstract!Claim(v, a)
<1>1. TypeOK /\ RecordsAreWhole
  BY DEF IInv, StoreSafe
<1>2. state[a] = "FREE" /\ target[a] = None /\ BlockingFor(v) = {}
  BY <1>1 DEF Reserves, Reservable, RecordsAreWhole
<1>3. \A b \in Attempts : /\ state'[b] = IF b = a THEN "SENDING" ELSE state[b]
                          /\ target'[b] = IF b = a THEN v ELSE target[b]
  BY <1>1 DEF Reserves, TypeOK
<1>4. \A w \in Vacancies : BlockingFor(w)' = IF w = v THEN {a} ELSE BlockingFor(w)
  <2>. TAKE w \in Vacancies
  <2>1. ASSUME NEW b \in Attempts
        PROVE  b \in BlockingFor(w)' <=> (IF w = v THEN b = a ELSE b \in BlockingFor(w))
    <3>1. CASE b = a
      BY <1>2, <1>3, <3>1 DEF BlockingFor, IsBlocking
    <3>2. CASE b # a
      BY <1>2, <1>3, <3>2 DEF BlockingFor
    <3>. QED BY <3>1, <3>2
  <2>. QED BY <2>1 DEF BlockingFor
<1>5. {b \in Attempts : state[b] # "FREE"}' = {b \in Attempts : state[b] # "FREE"} \cup {a}
  BY <1>3
<1>6. {b \in Attempts : flight[b] = "delivered"}' = {b \in Attempts : flight[b] = "delivered"}
  BY DEF Reserves
<1>7. [w \in Vacancies |-> BlockingFor(w)]'
        = [[w \in Vacancies |-> BlockingFor(w)] EXCEPT ![v] = {a}]
  BY <1>4
<1>. QED BY <1>2, <1>5, <1>6, <1>7 DEF Abstract!Claim

LEMMA SettlementRefines ==
  ASSUME IInv, NEW a \in Attempts, NEW o \in Outcomes, Settles(a, o)
  PROVE  \/ UNCHANGED Abstract!vars
         \/ \E v \in Vacancies : Abstract!Release(v, a)
<1>1. TypeOK /\ RecordsAreWhole /\ OneBlockingAttempt
  BY DEF IInv, StoreSafe
<1>2. state[a] = "SENDING" /\ target[a] \in Vacancies
  BY <1>1 DEF Settles, RecordsAreWhole
<1>3. \A b \in Attempts : state'[b] = (IF b = a THEN o ELSE state[b]) /\ target'[b] = target[b]
  BY <1>1 DEF Settles, TypeOK
<1>4. /\ {b \in Attempts : state[b] # "FREE"}' = {b \in Attempts : state[b] # "FREE"}
      /\ {b \in Attempts : flight[b] = "delivered"}' = {b \in Attempts : flight[b] = "delivered"}
  BY <1>2, <1>3 DEF Settles, Outcomes
<1>5. CASE o \in {"ACCEPTED", "DELIVERY_UNCERTAIN"}
  <2>1. \A w : BlockingFor(w)' = BlockingFor(w)
    BY <1>2, <1>3, <1>5 DEF BlockingFor, IsBlocking
  <2>. QED BY <1>4, <2>1 DEF Abstract!vars
<1>6. CASE o \in {"REJECTED", "NOT_SENT"}
  <2>1. BlockingFor(target[a]) = {a}
    BY <1>1, <1>2 DEF BlockingFor, IsBlocking, OneBlockingAttempt
  <2>2. \A w \in Vacancies : BlockingFor(w)' = IF w = target[a] THEN {} ELSE BlockingFor(w)
    BY <1>2, <1>3, <1>6, <2>1 DEF BlockingFor, IsBlocking
  <2>3. flight[a] # "delivered"
    BY <1>6 DEF Settles, Exposed
  <2>4. [w \in Vacancies |-> BlockingFor(w)]'
          = [[w \in Vacancies |-> BlockingFor(w)] EXCEPT ![target[a]] = {}]
    BY <2>2
  <2>. QED BY <1>2, <1>4, <2>1, <2>3, <2>4 DEF Abstract!Release
<1>. QED BY <1>5, <1>6 DEF Outcomes

LEMMA ObservationRefines ==
  ASSUME IInv, NEW a \in Attempts, NEW e \in Evidence, Observes(a, e)
  PROVE  UNCHANGED Abstract!vars
<1>1. TypeOK
  BY DEF IInv
<1>2. \/ state'[a] = state[a]
      \/ state'[a] = "TARGET_RESPONSE_CONFIRMED" /\ IsBlocking(state[a])
  BY <1>1 DEF Observes, StateAfter, ReconciliationAllowed, ValidTransition, IsBlocking, TypeOK
<1>3. \A b \in Attempts : /\ IsBlocking(state'[b]) <=> IsBlocking(state[b])
                          /\ state'[b] = "FREE" <=> state[b] = "FREE"
  BY <1>1, <1>2 DEF Observes, IsBlocking, TypeOK
<1>4. \A w : BlockingFor(w)' = BlockingFor(w)
  BY <1>3 DEF Observes, BlockingFor
<1>. QED BY <1>3, <1>4 DEF Observes, Abstract!vars

LEMMA StepRefines ==
  ASSUME IInv, [Next]_vars
  PROVE  [Abstract!Next]_(Abstract!vars)
<1>1. CASE UNCHANGED vars
  BY <1>1 DEF vars, Abstract!vars, BlockingFor
<1>2. ASSUME NEW v \in Vacancies, NEW a \in Attempts, Reserves(v, a)
      PROVE  Abstract!Next
  BY <1>2, ClaimRefines DEF Abstract!Next
<1>3. ASSUME NEW a \in Attempts, NEW o \in Outcomes, Settles(a, o)
      PROVE  UNCHANGED Abstract!vars \/ Abstract!Next
  BY <1>3, SettlementRefines DEF Abstract!Next
<1>4. CASE Next /\ UNCHANGED store
  <2>1. /\ \A w : BlockingFor(w)' = BlockingFor(w)
        /\ {b \in Attempts : state[b] # "FREE"}' = {b \in Attempts : state[b] # "FREE"}
    BY <1>4 DEF BlockingFor, store
  <2>2. CASE \A a \in Attempts : (flight'[a] = "delivered") <=> (flight[a] = "delivered")
    BY <2>1, <2>2 DEF Abstract!vars
  <2>3. ASSUME NEW a \in Attempts, flight[a] = "inflight",
               flight' = [flight EXCEPT ![a] = "delivered"]
        PROVE  Abstract!Next
    <3>1. TypeOK /\ StoreSafe
      BY DEF IInv
    <3>2. IsBlocking(state[a]) /\ target[a] \in Vacancies
      BY <2>3, <3>1 DEF StoreSafe, ExposedIsBlocking, RecordsAreWhole, Exposed, IsBlocking
    <3>3. BlockingFor(target[a]) = {a}
      BY <3>1, <3>2 DEF StoreSafe, OneBlockingAttempt, BlockingFor
    <3>4. /\ {b \in Attempts : flight[b] = "delivered"}'
               = {b \in Attempts : flight[b] = "delivered"} \cup {a}
          /\ a \notin {b \in Attempts : flight[b] = "delivered"}
      BY <2>3, <3>1 DEF TypeOK
    <3>. QED BY <2>1, <3>2, <3>3, <3>4 DEF Abstract!Next, Abstract!Effect
  <2>. QED BY <1>4, <2>2, <2>3, ResponseMoves
<1>. QED BY <1>1, <1>2, <1>3, <1>4, ObservationRefines, StoreMoves

(* The attempt store, used by any number of interleaved, crashing and      *)
(* restarting processes, implements AtMostOnce at hh.ru.                   *)
THEOREM Refinement == Spec => ImplementsAtMostOnce
BY InitRefines, StepRefines, Safety, PTL DEF Spec, ImplementsAtMostOnce, Abstract!Spec

-----------------------------------------------------------------------------
(* The dispatch budget, an invariant of each process on its own.           *)

(* Dispatches that have to be accounted for when their outcome is in.      *)
Owed(p) == IF pc[p] = "waiting" \/ (pc[p] = "answered" /\ job[p].tried) THEN 1 ELSE 0

(* Between the gate and the accounting there is room for one dispatch.     *)
HasRoom(p) == pc[p] \in {"prepared", "submit", "reserved", "waiting", "answered"}

BudgetKept(p) ==
  /\ run[p].posts <= run[p].dispatched + Owed(p)
  /\ MaxDispatches > 0 => run[p].dispatched <= MaxDispatches
  /\ MaxDispatches > 0 /\ HasRoom(p) => run[p].dispatched < MaxDispatches
  /\ pc[p] = "waiting" => job[p].tried

LEMMA RunHasNaturals ==
  ASSUME TypeOK, NEW p \in Processes
  PROVE  run[p].posts \in Nat /\ run[p].dispatched \in Nat
BY DEF TypeOK, Runs

(* A step that sends nothing and takes no room keeps the budget.           *)
LEMMA BudgetOfQuietStep ==
  ASSUME TypeOK, NEW p \in Processes, BudgetKept(p), Owed(p) = 0,
         run'[p].posts = run[p].posts, run'[p].dispatched = run[p].dispatched,
         pc'[p] \notin {"waiting", "answered"}, HasRoom(p)' => HasRoom(p) \/ BudgetLeft(p)
  PROVE  BudgetKept(p)'
<1>1. Owed(p)' = 0 /\ pc'[p] # "waiting"
  BY DEF Owed
<1>. QED BY <1>1, RunHasNaturals, DispatchLimitAssumption DEF BudgetKept, BudgetLeft

LEMMA RunsKeepBudget ==
  ASSUME TypeOK, NEW p \in Processes, BudgetKept(p),
         StartRun(p) \/ Choose(p) \/ FinishRun(p) \/ Preflight(p) \/ Crash(p)
  PROVE  BudgetKept(p)'
<1>1. CASE StartRun(p) \/ FinishRun(p) \/ Crash(p)
  <2>1. /\ run'[p].posts = 0 /\ run'[p].dispatched = 0 /\ pc'[p] \in {"idle", "choose"}
    BY <1>1 DEF StartRun, FinishRun, Crash, Goto, IdleRun, TypeOK
  <2>2. Owed(p)' = 0 /\ ~HasRoom(p)' /\ pc'[p] # "waiting"
    BY <2>1 DEF Owed, HasRoom
  <2>. QED BY <2>1, <2>2, DispatchLimitAssumption DEF BudgetKept
<1>2. CASE Choose(p)
  <2>. PICK v \in Vacancies : PassOver(p, v) \/ GateUnresolved(p, v) \/ GateClear(p, v)
    BY <1>2 DEF Choose
  <2>1. run'[p].posts = run[p].posts /\ run'[p].dispatched = run[p].dispatched
    BY DEF PassOver, GateUnresolved, GateClear, TypeOK, Runs
  <2>2. Owed(p) = 0
    BY DEF PassOver, GateUnresolved, GateClear, Owed
  <2>3. CASE PassOver(p, v) \/ GateUnresolved(p, v)
    <3>1. pc'[p] \in {"choose", "unresolved"}
      BY <2>3 DEF PassOver, GateUnresolved, Goto, TypeOK
    <3>. QED BY <2>1, <2>2, <3>1, BudgetOfQuietStep DEF HasRoom
  <2>4. CASE GateClear(p, v)
    <3>1. pc'[p] = "prepared" /\ BudgetLeft(p)
      BY <2>4 DEF GateClear, Goto, TypeOK
    <3>. QED BY <2>1, <2>2, <3>1, BudgetOfQuietStep
  <2>. QED BY <2>3, <2>4
<1>3. CASE Preflight(p)
  <2>1. /\ pc[p] = "prepared" /\ pc'[p] \in {"submit", "idle", "choose"} /\ run' = run
    BY <1>3 DEF Preflight, Return, Goto, TypeOK
  <2>. QED BY <2>1, BudgetOfQuietStep DEF Owed, HasRoom
<1>. QED BY <1>1, <1>2, <1>3

LEMMA SubmissionsKeepBudget ==
  ASSUME TypeOK, NEW p \in Processes, BudgetKept(p), Submit(p)
  PROVE  BudgetKept(p)'
<1>1. CASE (\E a \in Attempts : Reserve(p, a)) \/ ReserveBlocked(p) \/ ReserveFails(p)
  <2>1. pc[p] = "submit" /\ pc'[p] \in {"reserved", "blocked", "idle", "choose"} /\ run' = run
    BY <1>1 DEF Reserve, ReserveBlocked, ReserveFails, Return, Goto, TypeOK
  <2>. QED BY <2>1, BudgetOfQuietStep DEF Owed, HasRoom
<1>2. CASE Dispatch(p)
  <2>1. /\ pc[p] = "reserved" /\ pc'[p] = "waiting" /\ job'[p].tried
        /\ run'[p].posts = run[p].posts + 1 /\ run'[p].dispatched = run[p].dispatched
    BY <1>2 DEF Dispatch, Goto, TypeOK, Runs, Jobs
  <2>2. Owed(p) = 0 /\ Owed(p)' = 1 /\ HasRoom(p)
    BY <2>1 DEF Owed, HasRoom
  <2>. QED BY <2>1, <2>2, RunHasNaturals, DispatchLimitAssumption DEF BudgetKept
<1>3. CASE DispatchNotSent(p) \/ Answer(p)
  <2>1. /\ HasRoom(p) /\ pc'[p] = "answered" /\ run' = run
    BY <1>3 DEF DispatchNotSent, Answer, Goto, TypeOK, HasRoom
  <2>2. Owed(p) <= Owed(p)' /\ Owed(p) \in Nat /\ Owed(p)' \in Nat
    <3>1. CASE DispatchNotSent(p)
      BY <3>1 DEF DispatchNotSent, Owed
    <3>2. CASE Answer(p)
      <4>1. job[p].tried /\ pc[p] = "waiting"
        BY <3>2 DEF BudgetKept, Answer
      <4>2. job'[p].tried
        BY <3>2, <4>1 DEF Answer, TypeOK, Jobs
      <4>. QED BY <2>1, <4>1, <4>2 DEF Owed
    <3>. QED BY <1>3, <3>1, <3>2
  <2>. QED BY <2>1, <2>2, RunHasNaturals, DispatchLimitAssumption DEF BudgetKept
<1>4. CASE RecordOutcome(p) \/ RecordOutcomeFails(p)
  <2>1. pc[p] = "answered" /\ pc'[p] \in {"idle", "choose"}
    BY <1>4 DEF RecordOutcome, RecordOutcomeFails, Return, Goto, TypeOK
  <2>2. run'[p].posts = run[p].posts /\ run'[p].dispatched = run[p].dispatched + Owed(p)
    <3>. DEFINE d == IF job[p].tried THEN run[p].dispatched + 1 ELSE run[p].dispatched
    <3>1. \/ run' = [run EXCEPT ![p].dispatched = d]
          \/ \E halt : run' = [run EXCEPT ![p].dispatched = d, ![p].halted = halt]
      BY <1>4 DEF RecordOutcome, RecordOutcomeFails, Account
    <3>2. d = run[p].dispatched + Owed(p)
      BY <2>1, RunHasNaturals DEF Owed
    <3>. HIDE DEF d
    <3>3. run'[p].posts = run[p].posts /\ run'[p].dispatched = d
      BY <3>1 DEF TypeOK, Runs
    <3>. QED BY <3>2, <3>3
  <2>3. Owed(p)' = 0 /\ ~HasRoom(p)' /\ HasRoom(p) /\ Owed(p) \in {0, 1}
    BY <2>1 DEF Owed, HasRoom
  <2>. QED BY <2>1, <2>2, <2>3, RunHasNaturals, DispatchLimitAssumption DEF BudgetKept
<1>. QED BY <1>1, <1>2, <1>3, <1>4 DEF Submit

LEMMA ReconciliationsKeepBudget ==
  ASSUME TypeOK, NEW p \in Processes, BudgetKept(p), Reconcile(p)
  PROVE  BudgetKept(p)'
<1>1. /\ run' = run /\ pc[p] \notin {"waiting", "answered"}
      /\ pc'[p] \in {"reading", "recording", "idle", "choose"}
  BY DEF Reconcile, ReconcileStart, CanReconcile, ConfirmManual, ReconcileNotApplicable,
    ReadEvidence, RecordReconciliation, RecordReconciliationFails, Return, Goto, TypeOK
<1>. QED BY <1>1, BudgetOfQuietStep DEF Owed, HasRoom

LEMMA NextKeepsBudget ==
  ASSUME TypeOK, \A p \in Processes : BudgetKept(p), [Next]_vars
  PROVE  \A p \in Processes : BudgetKept(p)'
<1>1. ASSUME NEW q \in Processes, run'[q] = run[q], Undisturbed(q)
      PROVE  BudgetKept(q)'
  BY <1>1 DEF BudgetKept, Owed, HasRoom, Undisturbed
<1>2. CASE Provider \/ UNCHANGED vars
  BY <1>1, <1>2 DEF Provider, ProviderAccepts, ProviderRefuses, CandidateApplies, vars, Undisturbed
<1>3. ASSUME NEW p \in Processes,
             \/ StartRun(p) \/ Choose(p) \/ FinishRun(p) \/ Preflight(p) \/ Crash(p)
             \/ Submit(p) \/ Reconcile(p)
      PROVE  \A q \in Processes : BudgetKept(q)'
  <2>1. BudgetKept(p)'
    BY <1>3, RunsKeepBudget, SubmissionsKeepBudget, ReconciliationsKeepBudget
  <2>2. ASSUME NEW q \in Processes \ {p}
        PROVE  run'[q] = run[q]
    BY <1>3, <2>2 DEF StartRun, Choose, PassOver, GateUnresolved, GateClear, FinishRun, Preflight,
      Crash, Submit, Reserve, ReserveBlocked, ReserveFails, Dispatch, DispatchNotSent, Answer,
      RecordOutcome, RecordOutcomeFails, Account, Reconcile, ReconcileStart, ConfirmManual,
      ReconcileNotApplicable, ReadEvidence, RecordReconciliation, RecordReconciliationFails, TypeOK
  <2>3. ASSUME NEW q \in Processes \ {p}
        PROVE  Undisturbed(q)
    BY <1>3, <2>3 DEF StartRun, Choose, PassOver, GateUnresolved, GateClear, FinishRun, Preflight,
      Crash, Submit, Reserve, ReserveBlocked, ReserveFails, Dispatch, DispatchNotSent, Answer,
      RecordOutcome, RecordOutcomeFails, Reconcile, ReconcileStart, ConfirmManual,
      ReconcileNotApplicable, ReadEvidence, RecordReconciliation, RecordReconciliationFails,
      Return, Goto, TypeOK, Undisturbed
  <2>. QED BY <1>1, <2>1, <2>2, <2>3
<1>. QED BY <1>2, <1>3 DEF Next

(* The budget check before a submission and the count after it are enough: *)
(* no run sends more POSTs than its limit, whatever happens in between.    *)
THEOREM DispatchBudgetAlways == Spec => []DispatchBudget
<1>. DEFINE Inv == TypeOK /\ \A p \in Processes : BudgetKept(p)
<1>1. Init => Inv
  <2>1. Init => \A p \in Processes : BudgetKept(p)
    BY DispatchLimitAssumption DEF Init, BudgetKept, Owed, HasRoom, IdleRun
  <2>. QED BY <2>1, InitType
<1>2. Inv /\ [Next]_vars => Inv'
  BY NextType, NextKeepsBudget
<1>3. Inv => DispatchBudget
  <2>. SUFFICES ASSUME Inv, MaxDispatches > 0, NEW p \in Processes
                PROVE  run[p].posts <= MaxDispatches
    BY DEF DispatchBudget
  <2>1. Owed(p) = 0 \/ (Owed(p) = 1 /\ HasRoom(p))
    BY DEF Owed, HasRoom
  <2>2. BudgetKept(p)
    OBVIOUS
  <2>. QED BY <2>1, <2>2, RunHasNaturals, DispatchLimitAssumption DEF BudgetKept
<1>. QED BY <1>1, <1>2, <1>3, PTL DEF Spec


-----------------------------------------------------------------------------
(* The promise to HH, the one of controlled applications as well.          *)

Delivered == {a \in Attempts : flight[a] = "delivered"}

Promise == INSTANCE OneResponse WITH
  blocked   <- {v \in Vacancies : BlockingFor(v) # {}},
  responded <- {v \in Vacancies : \E a \in Delivered : target[a] = v}

(* A delivered response is one of a claiming attempt.                      *)
LEMMA ClaimedResponses ==
  ASSUME IInv
  PROVE  /\ Delivered \subseteq {a \in Attempts : state[a] # "FREE"}
         /\ \A v \in Vacancies : (\E a \in Delivered : target[a] = v) <=> BlockingFor(v) \cap Delivered # {}
BY DEF IInv, StoreSafe, ExposedIsBlocking, Exposed, Delivered, BlockingFor, IsBlocking

(* What AtMostOnce promises of attempts is enough for vacancies.           *)
LEMMA StepKeepsPromise ==
  ASSUME IInv, IInv', [Abstract!Next]_(Abstract!vars)
  PROVE  [Promise!Next]_(Promise!vars)
<1>. DEFINE claims == [v \in Vacancies |-> BlockingFor(v)]
            responded == {v \in Vacancies : \E a \in Delivered : target[a] = v}
<1>1. /\ responded = {v \in Vacancies : claims[v] \cap Delivered # {}}
      /\ responded' = {v \in Vacancies : claims'[v] \cap Delivered' # {}}
  <2>1. \A v \in Vacancies : (\E a \in Delivered : target[a] = v) <=> claims[v] \cap Delivered # {}
    BY ClaimedResponses
  <2>2. (\A v \in Vacancies : (\E a \in Delivered : target[a] = v) <=> BlockingFor(v) \cap Delivered # {})'
    BY ClaimedResponses, PTL
  <2>. QED BY <2>1, <2>2
<1>2. {v \in Vacancies : BlockingFor(v) # {}}' = {v \in Vacancies : claims'[v] # {}}
  OBVIOUS
<1>3. \A v, w \in Vacancies : claims[v] \cap claims[w] # {} => v = w
  BY DEF BlockingFor
<1>4. Delivered \subseteq {a \in Attempts : state[a] # "FREE"}
  BY ClaimedResponses
<1>5. CASE UNCHANGED Abstract!vars
  <2>1. claims' = claims /\ Delivered' = Delivered
    BY <1>5 DEF Abstract!vars, Delivered
  <2>. QED BY <1>1, <1>2, <2>1 DEF Promise!vars
<1>6. ASSUME NEW v \in Vacancies, NEW a \in Attempts, Abstract!Claim(v, a)
      PROVE  Promise!Block(v)
  <2>1. /\ a \notin Delivered /\ Delivered' = Delivered
        /\ claims[v] = {} /\ claims' = [claims EXCEPT ![v] = {a}]
    BY <1>4, <1>6 DEF Abstract!Claim, Delivered
  <2>. HIDE DEF claims
  <2>2. \A w \in Vacancies : claims'[w] = IF w = v THEN {a} ELSE claims[w]
    BY <2>1 DEF claims
  <2>3. responded' = responded
    BY <1>1, <2>1, <2>2
  <2>. QED BY <1>2, <2>1, <2>2, <2>3 DEF Promise!Block, claims
<1>7. ASSUME NEW v \in Vacancies, NEW a \in Attempts, Abstract!Release(v, a)
      PROVE  Promise!Release(v)
  <2>1. /\ a \notin Delivered /\ Delivered' = Delivered
        /\ claims[v] = {a} /\ claims' = [claims EXCEPT ![v] = {}]
    BY <1>7 DEF Abstract!Release, Delivered
  <2>. HIDE DEF claims
  <2>2. \A w \in Vacancies : claims'[w] = IF w = v THEN {} ELSE claims[w]
    BY <2>1 DEF claims
  <2>3. responded' = responded /\ v \notin responded
    BY <1>1, <2>1, <2>2
  <2>. QED BY <1>2, <2>1, <2>2, <2>3 DEF Promise!Release, claims
<1>8. ASSUME NEW v \in Vacancies, NEW a \in Attempts, Abstract!Effect(v, a)
      PROVE  Promise!Respond(v)
  <2>1. /\ a \notin Delivered /\ Delivered' = Delivered \cup {a}
        /\ claims[v] = {a} /\ claims' = claims
    BY <1>8 DEF Abstract!Effect, Delivered
  <2>. HIDE DEF claims
  <2>2. responded' = responded \cup {v} /\ v \notin responded
    BY <1>1, <1>3, <2>1
  <2>. QED BY <1>2, <2>1, <2>2 DEF Promise!Respond, claims
<1>. QED BY <1>5, <1>6, <1>7, <1>8 DEF Abstract!Next, Promise!Next

(* Seen from HH the automatic runs do as they should: a vacancy gets one   *)
(* response of theirs at most, while it is blocked, and it stays blocked   *)
(* then, through every crash and every later run.                          *)
THEOREM OneResponsePerVacancy == Spec => Promise!Spec
<1>1. Init => Promise!Init
  BY DEF Init, Promise!Init, BlockingFor, IsBlocking, Delivered
<1>2. IInv /\ IInv' /\ [Next]_vars => [Promise!Next]_(Promise!vars)
  BY StepRefines, StepKeepsPromise
<1>. QED BY <1>1, <1>2, Safety, PTL DEF Spec, Promise!Spec
=============================================================================
