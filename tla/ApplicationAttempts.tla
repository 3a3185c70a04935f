-------------------------- MODULE ApplicationAttempts --------------------------
(***************************************************************************)
(* The write-safety core of automatic applications: the durable attempt    *)
(* store, the executor that reserves an attempt right before the HH POST,  *)
(* the automatic run that gates every vacancy on the store, and the        *)
(* read-only reconciliation that may confirm an attempt while a run is in  *)
(* the middle of one.                                                      *)
(*                                                                         *)
(* Every store operation reads, changes and rewrites the store under one   *)
(* lock (JSON) or in one transaction (PostgreSQL): one operation, one      *)
(* action.  Everything between two store operations can be interleaved     *)
(* with any other process.                                                 *)
(***************************************************************************)
EXTENDS Naturals, FiniteSets

CONSTANTS
  Processes,        \* responder processes, their operators' commands included
  Vacancies,        \* HH vacancies
  Attempts,         \* the attempt ids NewID may return (bounds reservations)
  NegotiationIds,   \* provider negotiation identities
  ConversationIds,  \* provider conversation identities
  None,             \* no vacancy, no attempt, no identity
  MaxDispatches,    \* HH_MAX_APPLICATIONS_PER_RUN, 0 is unlimited
  MaxCrashes        \* bound on process crashes, for model checking

ASSUME DispatchLimitAssumption == MaxDispatches \in Nat
ASSUME CrashBoundAssumption == MaxCrashes \in Nat
ASSUME NoneAssumption ==
  None \notin Vacancies \cup Attempts \cup NegotiationIds \cup ConversationIds

VARIABLES
  state,     \* durable: attempt id -> state, FREE when there is no record
  target,    \* durable: attempt id -> its vacancy
  evidence,  \* durable: attempt id -> latest reconciliation evidence
  flight,    \* provider: what became of the POST of an attempt
  manual,    \* provider: vacancies the candidate answered on hh.ru by hand
  pc,        \* process -> what it does next
  run,       \* process -> its automatic run; run.posts only serves a property
  job,       \* process -> the vacancy, attempt and result it works on
  crashes

store == <<state, target, evidence>>
provider == <<flight, manual>>
vars == <<state, target, evidence, flight, manual, pc, run, job, crashes>>

-----------------------------------------------------------------------------
(* The attempt state machine (applicationattempt/model.go).                *)

States == {"SENDING", "ACCEPTED", "REJECTED", "NOT_SENT",
           "DELIVERY_UNCERTAIN", "TARGET_RESPONSE_CONFIRMED"}

Outcomes == {"ACCEPTED", "REJECTED", "NOT_SENT", "DELIVERY_UNCERTAIN"}

(* Mutant: an uncertain delivery is taken for retryable.                   *)
BlockingUnlessUncertain(s) == s \in {"SENDING", "ACCEPTED", "TARGET_RESPONSE_CONFIRMED"}

IsBlocking(s) ==
  s \in {"SENDING", "ACCEPTED", "DELIVERY_UNCERTAIN", "TARGET_RESPONSE_CONFIRMED"}

(* Mutant: late evidence revives a settled attempt.                        *)
RevivingTransition(from, to) ==
  IF to = "TARGET_RESPONSE_CONFIRMED" THEN from # "FREE" ELSE from = "SENDING" /\ to \in Outcomes

ValidTransition(from, to) ==
  IF to = "TARGET_RESPONSE_CONFIRMED"
  THEN from \in {"SENDING", "ACCEPTED", "DELIVERY_UNCERTAIN"}
  ELSE from = "SENDING" /\ to \in Outcomes

(* Mutant: a record left by a crashed run is not worth a look.             *)
UncertainOnly(s) == s = "DELIVERY_UNCERTAIN"

(* Gate classes (applicationattemptpolicy): only an unresolved attempt is  *)
(* worth a reconciliation pass of the automatic run.                       *)
Unresolved(s) == s \in {"SENDING", "DELIVERY_UNCERTAIN"}

(* States whose attempt a reconciliation pass may work on.                 *)
Reconcilable(s) ==
  s \in {"SENDING", "DELIVERY_UNCERTAIN", "ACCEPTED", "TARGET_RESPONSE_CONFIRMED"}

(* One observation of the provider: CONFIRMED_RESPONSE_EXISTS, or one of   *)
(* the weaker kinds (insufficient, unavailable, conflicting), which the    *)
(* code treats alike.  No record yet is a weak observation that names      *)
(* nothing.  The application identity is treated exactly as the            *)
(* negotiation identity, and is left out.                                  *)
Evidence ==
  [confirmed : BOOLEAN,
   negotiation : NegotiationIds \cup {None},
   conversation : ConversationIds \cup {None}]

Observation(ok, n, c) == [confirmed |-> ok, negotiation |-> n, conversation |-> c]
NoEvidence == Observation(FALSE, None, None)

SameOrUnknown(old, new) == old = None \/ new = None \/ old = new

(* The guards of WithReconciliation: a positive observation must find a    *)
(* state it may confirm and may not change a provider identity.            *)
ReconciliationAllowed(s, old, new) ==
  new.confirmed =>
    /\ s = "TARGET_RESPONSE_CONFIRMED" \/ ValidTransition(s, "TARGET_RESPONSE_CONFIRMED")
    /\ SameOrUnknown(old.negotiation, new.negotiation)
    /\ SameOrUnknown(old.conversation, new.conversation)

(* Mutant: any completed read confirms.                                    *)
ConfirmedByAnyRead(s, new) == "TARGET_RESPONSE_CONFIRMED"

StateAfter(s, new) == IF new.confirmed THEN "TARGET_RESPONSE_CONFIRMED" ELSE s

(* Mutant: a weaker read overwrites a confirmed record.                    *)
LatestReadWins(s, old, new) ==
  IF new.confirmed
  THEN [new EXCEPT !.negotiation = IF @ = None THEN old.negotiation ELSE @]
  ELSE new

(* A positive observation inherits the negotiation identity it lacks, but  *)
(* not the conversation identity; a weaker one replaces the record unless  *)
(* the attempt is confirmed.                                               *)
EvidenceAfter(s, old, new) ==
  IF new.confirmed
  THEN [new EXCEPT !.negotiation = IF @ = None THEN old.negotiation ELSE @]
  ELSE IF s = "TARGET_RESPONSE_CONFIRMED" THEN old ELSE new

-----------------------------------------------------------------------------
(* The provider (hh.ru), as the code sees it.                              *)

Flights == {"none", "inflight", "delivered", "duplicate", "refused"}

(* HH may hold a response that this attempt caused, now or later.          *)
Exposed(a) == flight[a] \in {"inflight", "delivered"}

Responded(v) == v \in manual \/ \E a \in Attempts : target[a] = v /\ flight[a] = "delivered"

(* What classify() may make of a fresh pair of reads.  Listings lag behind *)
(* the truth, so a response may always be missed; it is never invented.    *)
(* Conflicting and interrupted reads keep the identities they came across. *)
Observations(v) ==
  IF Responded(v) THEN Evidence ELSE {NoEvidence}

-----------------------------------------------------------------------------
(* Processes.                                                              *)

Steps == {"idle", "choose", "unresolved", "prepared", "submit", "reserved", "waiting",
          "answered", "blocked", "reading", "recording"}

Runs == [active : BOOLEAN, done : SUBSET Vacancies, dispatched : Nat, posts : Nat,
         halted : BOOLEAN]
Jobs == [vacancy : Vacancies \cup {None}, attempt : Attempts \cup {None},
         outcome : Outcomes \cup {"none"}, tried : BOOLEAN, seen : Evidence]

IdleRun == [active |-> FALSE, done |-> {}, dispatched |-> 0, posts |-> 0, halted |-> FALSE]
NoJob == [vacancy |-> None, attempt |-> None, outcome |-> "none", tried |-> FALSE,
          seen |-> NoEvidence]

BlockingFor(v) == {a \in Attempts : target[a] = v /\ IsBlocking(state[a])}

BudgetLeft(p) == MaxDispatches = 0 \/ run[p].dispatched < MaxDispatches

Goto(p, step) == pc' = [pc EXCEPT ![p] = step]
(* The process is done with this vacancy or command.                       *)
Return(p) ==
  /\ Goto(p, IF run[p].active THEN "choose" ELSE "idle")
  /\ job' = [job EXCEPT ![p] = NoJob]

Init ==
  /\ state = [a \in Attempts |-> "FREE"]
  /\ target = [a \in Attempts |-> None]
  /\ evidence = [a \in Attempts |-> NoEvidence]
  /\ flight = [a \in Attempts |-> "none"]
  /\ manual = {}
  /\ pc = [p \in Processes |-> "idle"]
  /\ run = [p \in Processes |-> IdleRun]
  /\ job = [p \in Processes |-> NoJob]
  /\ crashes = 0

StartRun(p) ==
  /\ pc[p] = "idle"
  /\ Goto(p, "choose")
  /\ run' = [run EXCEPT ![p] = [IdleRun EXCEPT !.active = TRUE]]
  /\ UNCHANGED <<store, provider, job, crashes>>

FinishRun(p) ==
  /\ pc[p] = "choose"
  /\ run[p].done = Vacancies
  /\ Goto(p, "idle")
  /\ run' = [run EXCEPT ![p] = IdleRun]
  /\ UNCHANGED <<store, provider, job, crashes>>

(* A vacancy the run passes over: the store is unavailable, dispatch is    *)
(* blocked, a limit is reached, the policy or the candidate's preparation  *)
(* rejects it, or a confirmed attempt blocks it.                           *)
PassOver(p, v) ==
  /\ pc[p] = "choose"
  /\ v \notin run[p].done
  /\ run' = [run EXCEPT ![p].done = @ \cup {v}]
  /\ UNCHANGED <<store, provider, pc, job, crashes>>

(* The gate finds an attempt whose delivery is unresolved.                 *)
GateUnresolved(p, v) ==
  /\ pc[p] = "choose"
  /\ v \notin run[p].done
  /\ ~run[p].halted
  /\ \E a \in BlockingFor(v) :
       /\ Unresolved(state[a])
       /\ job' = [job EXCEPT ![p].vacancy = v, ![p].attempt = a]
  /\ run' = [run EXCEPT ![p].done = @ \cup {v}]
  /\ Goto(p, "unresolved")
  /\ UNCHANGED <<store, provider, crashes>>

(* The gate is clear and the dispatch budget is not used up.               *)
GateClear(p, v) ==
  /\ pc[p] = "choose"
  /\ v \notin run[p].done
  /\ ~run[p].halted
  /\ BlockingFor(v) = {}
  /\ BudgetLeft(p)
  /\ job' = [job EXCEPT ![p].vacancy = v]
  /\ run' = [run EXCEPT ![p].done = @ \cup {v}]
  /\ Goto(p, "prepared")
  /\ UNCHANGED <<store, provider, crashes>>

(* Submit's fresh applicability read.  HH's page may lag behind, so a      *)
(* response may be overlooked; every other doubt blocks as well.           *)
Preflight(p) ==
  /\ pc[p] = "prepared"
  /\ \/ Goto(p, "submit") /\ UNCHANGED job
     \/ Return(p)
  /\ UNCHANGED <<store, provider, run, crashes>>

-----------------------------------------------------------------------------
(* The executor (usecase/applicationattempt/executor.go).                  *)

(* Mutant: the store trusts the gate and does not look again.              *)
FreeOnly(v, a) == state[a] = "FREE"

(* A fresh id, and no attempt that blocks the vacancy.                     *)
Reservable(v, a) == state[a] = "FREE" /\ BlockingFor(v) = {}

Reserve(p, a) ==
  /\ pc[p] = "submit"
  /\ Reservable(job[p].vacancy, a)
  /\ state' = [state EXCEPT ![a] = "SENDING"]
  /\ target' = [target EXCEPT ![a] = job[p].vacancy]
  /\ job' = [job EXCEPT ![p].attempt = a]
  /\ Goto(p, "reserved")
  /\ UNCHANGED <<evidence, provider, run, crashes>>

ReserveBlocked(p) ==
  /\ pc[p] = "submit"
  /\ BlockingFor(job[p].vacancy) # {}
  /\ Goto(p, "blocked")
  /\ UNCHANGED <<store, provider, run, job, crashes>>

(* No id, a busy lock, a cancelled context or a failed write: not sent.    *)
(* A PostgreSQL insert may have landed although its answer was lost.       *)
ReserveFails(p) ==
  /\ pc[p] = "submit"
  /\ \/ UNCHANGED store
     \/ \E a \in Attempts :
          /\ Reservable(job[p].vacancy, a)
          /\ state' = [state EXCEPT ![a] = "SENDING"]
          /\ target' = [target EXCEPT ![a] = job[p].vacancy]
          /\ UNCHANGED evidence
  /\ Return(p)
  /\ UNCHANGED <<provider, run, crashes>>

(* The writer gives up before the POST leaves; the gateway may already     *)
(* have counted the transport as tried.                                    *)
DispatchNotSent(p) ==
  /\ pc[p] = "reserved"
  /\ \E tried \in BOOLEAN :
       job' = [job EXCEPT ![p].outcome = "NOT_SENT", ![p].tried = tried]
  /\ Goto(p, "answered")
  /\ UNCHANGED <<store, provider, run, crashes>>

Dispatch(p) ==
  /\ pc[p] = "reserved"
  /\ flight' = [flight EXCEPT ![job[p].attempt] = "inflight"]
  /\ job' = [job EXCEPT ![p].tried = TRUE]
  /\ run' = [run EXCEPT ![p].posts = @ + 1]
  /\ Goto(p, "waiting")
  /\ UNCHANGED <<store, manual, crashes>>

(* Mutant: a request that timed out is taken for one that never left.      *)
TimeoutIsNotSent(f) ==
  CASE f = "delivered" -> {"ACCEPTED", "DELIVERY_UNCERTAIN"}
    [] f = "inflight"  -> {"NOT_SENT"}
    [] OTHER           -> {"REJECTED", "NOT_SENT"}

(* What the adapters make of the answer, or of its absence.  A duplicate   *)
(* is ACCEPTED by the web adapter and REJECTED by the API adapter; a       *)
(* refusal is REJECTED, or NOT_SENT when HH asks for authentication.       *)
AnswersTo(f) ==
  {"DELIVERY_UNCERTAIN"}
  \cup CASE f = "delivered" -> {"ACCEPTED"}
         [] f = "duplicate" -> {"ACCEPTED", "REJECTED"}
         [] f = "refused"   -> {"REJECTED", "NOT_SENT"}
         [] OTHER           -> {}

Answer(p) ==
  /\ pc[p] = "waiting"
  /\ \E o \in AnswersTo(flight[job[p].attempt]) :
       job' = [job EXCEPT ![p].outcome = o]
  /\ Goto(p, "answered")
  /\ UNCHANGED <<store, provider, run, crashes>>

(* Mutant: only accepted applications use up the budget.                   *)
AccountAccepted(p) ==
  run' = [run EXCEPT ![p].dispatched = IF job[p].outcome = "ACCEPTED" THEN @ + 1 ELSE @]

(* recordExecution counts every tried transport; a rejection whose error   *)
(* says negotiations-limit-exceeded stops all further dispatch of the run. *)
Account(p) ==
  \E halt \in (IF job[p].outcome = "REJECTED" THEN {run[p].halted, TRUE} ELSE {run[p].halted}) :
    run' = [run EXCEPT ![p].dispatched = IF job[p].tried THEN @ + 1 ELSE @,
                       ![p].halted = halt]

RecordOutcome(p) ==
  /\ pc[p] = "answered"
  /\ ValidTransition(state[job[p].attempt], job[p].outcome)
  /\ state' = [state EXCEPT ![job[p].attempt] = job[p].outcome]
  /\ Account(p)
  /\ Return(p)
  /\ UNCHANGED <<target, evidence, provider, crashes>>

(* The outcome cannot be recorded (reconciled meanwhile, store failure,    *)
(* cancelled context): the durable record stays as it is, the run reports  *)
(* the delivery as uncertain.  A commit may have landed unacknowledged.    *)
RecordOutcomeFails(p) ==
  /\ pc[p] = "answered"
  /\ \/ UNCHANGED state
     \/ /\ ValidTransition(state[job[p].attempt], job[p].outcome)
        /\ state' = [state EXCEPT ![job[p].attempt] = job[p].outcome]
  /\ run' = [run EXCEPT ![p].dispatched = IF job[p].tried THEN @ + 1 ELSE @]
  /\ Return(p)
  /\ UNCHANGED <<target, evidence, provider, crashes>>

-----------------------------------------------------------------------------
(* Reconciliation (usecase/applicationreconciliation/service.go).          *)

(* Reconcile re-reads the attempt it was given, ReconcileVacancy looks up  *)
(* the vacancy's blocking attempt; an operator may name any attempt.       *)
CanReconcile(p, a) ==
  \/ pc[p] = "idle" /\ state[a] # "FREE"
  \/ pc[p] = "unresolved" /\ a = job[p].attempt
  \/ pc[p] = "blocked" /\ a \in BlockingFor(job[p].vacancy)

ReconcileStart(p, a) ==
  /\ CanReconcile(p, a)
  /\ Reconcilable(state[a])
  /\ job' = [job EXCEPT ![p].vacancy = target[a], ![p].attempt = a]
  /\ Goto(p, "reading")
  /\ UNCHANGED <<store, provider, run, crashes>>

(* The attempt is settled or gone by now, or the store cannot be read.     *)
ReconcileNotApplicable(p) ==
  /\ pc[p] \in {"unresolved", "blocked"}
  /\ Return(p)
  /\ UNCHANGED <<store, provider, run, crashes>>

ReadEvidence(p) ==
  /\ pc[p] = "reading"
  /\ \E e \in Observations(job[p].vacancy) : job' = [job EXCEPT ![p].seen = e]
  /\ Goto(p, "recording")
  /\ UNCHANGED <<store, provider, run, crashes>>

(* ConfirmManual: the operator types the identities of a response that he  *)
(* found on hh.ru.                                                         *)
ConfirmManual(p, a) ==
  /\ pc[p] = "idle"
  /\ Reconcilable(state[a])
  /\ Responded(target[a])
  /\ \E n \in NegotiationIds, c \in ConversationIds :
       job' = [job EXCEPT ![p] = [NoJob EXCEPT !.vacancy = target[a], !.attempt = a,
                                               !.seen = Observation(TRUE, n, c)]]
  /\ Goto(p, "recording")
  /\ UNCHANGED <<store, provider, run, crashes>>

RecordReconciliation(p) ==
  LET a == job[p].attempt
      e == job[p].seen
  IN  /\ pc[p] = "recording"
      /\ ReconciliationAllowed(state[a], evidence[a], e)
      /\ state' = [state EXCEPT ![a] = StateAfter(state[a], e)]
      /\ evidence' = [evidence EXCEPT ![a] = EvidenceAfter(state[a], evidence[a], e)]
      /\ Return(p)
      /\ UNCHANGED <<target, provider, run, crashes>>

RecordReconciliationFails(p) ==
  /\ pc[p] = "recording"
  /\ Return(p)
  /\ UNCHANGED <<store, provider, run, crashes>>

-----------------------------------------------------------------------------
(* The world outside a process.                                            *)

(* A POST may arrive long after its sender stopped waiting or died.        *)
ProviderAccepts(a) ==
  /\ flight[a] = "inflight"
  /\ flight' = [flight EXCEPT ![a] = IF Responded(target[a]) THEN "duplicate" ELSE "delivered"]
  /\ UNCHANGED <<store, manual, pc, run, job, crashes>>

(* Refused with a 4xx, or lost on the way.                                 *)
ProviderRefuses(a) ==
  /\ flight[a] = "inflight"
  /\ flight' = [flight EXCEPT ![a] = "refused"]
  /\ UNCHANGED <<store, manual, pc, run, job, crashes>>

CandidateApplies(v) ==
  /\ ~Responded(v)
  /\ manual' = manual \cup {v}
  /\ UNCHANGED <<store, flight, pc, run, job, crashes>>

(* Everything but the store is lost.                                       *)
Crash(p) ==
  /\ pc[p] # "idle"
  /\ crashes < MaxCrashes
  /\ crashes' = crashes + 1
  /\ Goto(p, "idle")
  /\ run' = [run EXCEPT ![p] = IdleRun]
  /\ job' = [job EXCEPT ![p] = NoJob]
  /\ UNCHANGED <<store, provider>>

Choose(p) == \E v \in Vacancies : PassOver(p, v) \/ GateUnresolved(p, v) \/ GateClear(p, v)

Submit(p) ==
  \/ \E a \in Attempts : Reserve(p, a)
  \/ ReserveBlocked(p) \/ ReserveFails(p)
  \/ Dispatch(p) \/ DispatchNotSent(p) \/ Answer(p)
  \/ RecordOutcome(p) \/ RecordOutcomeFails(p)

Reconcile(p) ==
  \/ \E a \in Attempts : ReconcileStart(p, a) \/ ConfirmManual(p, a)
  \/ ReconcileNotApplicable(p) \/ ReadEvidence(p)
  \/ RecordReconciliation(p) \/ RecordReconciliationFails(p)

Provider ==
  \/ \E a \in Attempts : ProviderAccepts(a) \/ ProviderRefuses(a)
  \/ \E v \in Vacancies : CandidateApplies(v)

Next ==
  \/ \E p \in Processes :
       \/ StartRun(p) \/ Choose(p) \/ FinishRun(p) \/ Preflight(p)
       \/ Submit(p) \/ Reconcile(p) \/ Crash(p)
  \/ Provider

Spec == Init /\ [][Next]_vars

-----------------------------------------------------------------------------
(* Properties.                                                             *)

(* Every variable holds what the code can store in it: a dispatch count    *)
(* never turns negative, a state is one the store's validation accepts.    *)
TypeOK ==
  /\ state \in [Attempts -> States \cup {"FREE"}]
  /\ target \in [Attempts -> Vacancies \cup {None}]
  /\ evidence \in [Attempts -> Evidence]
  /\ flight \in [Attempts -> Flights]
  /\ manual \subseteq Vacancies
  /\ pc \in [Processes -> Steps]
  /\ run \in [Processes -> Runs]
  /\ job \in [Processes -> Jobs]
  /\ crashes \in Nat

(* The store never holds two attempts that block one vacancy, whatever     *)
(* order reservations, outcomes and reconciliations of concurrent          *)
(* processes arrive in (Reserve, RecordOutcome, RecordReconciliation).     *)
OneBlockingAttempt ==
  \A a, b \in Attempts :
    IsBlocking(state[a]) /\ IsBlocking(state[b]) /\ target[a] = target[b] => a = b

(* As long as HH holds, or may yet receive, the response of an attempt,    *)
(* its record blocks the vacancy: no crash, lost answer or failed write    *)
(* releases it (executor.go: SENDING is retained, never NOT_SENT).         *)
ExposedIsBlocking == \A a \in Attempts : Exposed(a) => IsBlocking(state[a])

(* At most one POST per vacancy is on its way or delivered, over all runs, *)
(* processes, crashes and restarts: the promise of the durable attempt.    *)
AtMostOneExposed ==
  \A a, b \in Attempts : Exposed(a) /\ Exposed(b) /\ target[a] = target[b] => a = b

(* The store only says ACCEPTED or CONFIRMED of a vacancy HH really has a  *)
(* response for: from this run, from an earlier one or from the candidate. *)
PositiveIsTrue ==
  \A a \in Attempts :
    state[a] \in {"ACCEPTED", "TARGET_RESPONSE_CONFIRMED"} => Responded(target[a])

(* A run never sends more POSTs than HH_MAX_APPLICATIONS_PER_RUN, although *)
(* the budget is checked long before the POST and counted only after its   *)
(* outcome is recorded (automaticApplicationBudget).                       *)
DispatchBudget == MaxDispatches > 0 => \A p \in Processes : run[p].posts <= MaxDispatches

(* What was settled stays settled: a confirmed attempt is never demoted by *)
(* a late outcome or a weaker observation and keeps its negotiation, and a *)
(* rejected or unsent attempt is never revived by a slow reconciliation.   *)
SettledIsFinal ==
  [][\A a \in Attempts :
       /\ state[a] \in {"REJECTED", "NOT_SENT", "TARGET_RESPONSE_CONFIRMED"} => state'[a] = state[a]
       /\ state[a] = "TARGET_RESPONSE_CONFIRMED" /\ evidence[a].negotiation # None
            => evidence'[a].negotiation = evidence[a].negotiation]_vars

(* A confirmed attempt is never matched with a second conversation: what   *)
(* the guard "provider conversation identity changed" of WithReconciliation *)
(* (model.go:204) is there to ensure.                                      *)
MatchedWith(a, c) == evidence[a].confirmed /\ evidence[a].conversation = c

ConversationIsFinal ==
  \A a \in Attempts, c \in ConversationIds, d \in ConversationIds :
    c # d => [](MatchedWith(a, c) => []~MatchedWith(a, d))

-----------------------------------------------------------------------------
(* Refinement: claims are blocking attempts, effects delivered responses.  *)

Abstract ==
  INSTANCE AtMostOnce WITH
    claims <- [v \in Vacancies |-> BlockingFor(v)],
    used <- {a \in Attempts : state[a] # "FREE"},
    effects <- {a \in Attempts : flight[a] = "delivered"}

(* The attempt store, used by any number of interleaved and crashing       *)
(* processes, keeps the promise of AtMostOnce at hh.ru.                    *)
ImplementsAtMostOnce == Abstract!Spec

-----------------------------------------------------------------------------
(* Fairness: the recurring scheduler starts run after run, and a run that  *)
(* is not killed goes on.  Strong fairness also says what no code can      *)
(* enforce: a store that is available again and again is not missed every  *)
(* time, and hh.ru's listings show a response they hold sooner or later.   *)

Fairness(p) ==
  /\ SF_vars(StartRun(p))
  /\ WF_vars(Choose(p) \/ FinishRun(p) \/ Preflight(p) \/ Submit(p))
  /\ WF_vars(pc[p] # "idle" /\ Reconcile(p))
  /\ SF_vars(\E v \in Vacancies : GateUnresolved(p, v))
  /\ SF_vars(pc[p] = "unresolved" /\ \E a \in Attempts : ReconcileStart(p, a))
  /\ SF_vars(ReadEvidence(p) /\ job'[p].seen.confirmed)
  /\ SF_vars(job[p].seen.confirmed /\ RecordReconciliation(p))

FairSpec == Spec /\ \A p \in Processes : Fairness(p)

(* No response is forgotten: an attempt that a crash or a lost answer left *)
(* unresolved although HH holds its response is settled in the store in    *)
(* the end, by the runs themselves and without an operator.                *)
DeliveryIsLearnt ==
  \A a \in Attempts :
    flight[a] = "delivered" /\ state[a] \in {"SENDING", "DELIVERY_UNCERTAIN"}
      ~> state[a] \in {"ACCEPTED", "TARGET_RESPONSE_CONFIRMED"}
=============================================================================
