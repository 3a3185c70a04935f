------------------------------- MODULE CareerRuns ------------------------------
(***************************************************************************)
(* The runs of the career agent and their durable record: the daily agent  *)
(* that the scheduler, the dashboard's button and the command line invoke  *)
(* (runtime/daily_career_agent.go), the career-agent command               *)
(* (executeCareerAgentWorkflow) and the workflow store they share.  The    *)
(* JSON and the PostgreSQL store change the same records under the same    *)
(* conditions; they differ in what a caller that comes too late is told,   *)
(* and in when an item cannot be stored.                                   *)
(***************************************************************************)
EXTENDS Naturals, Sequences

CONSTANTS
  Services,    \* processes with a daily agent; each runs one at a time
  Commands,    \* career-agent commands; each is a process and a run id
  DayLength,   \* the hours of a day
  StaleAfter,  \* dailyStaleRunAfter
  LastDay,     \* bound on the days, for model checking
  StageCount,  \* stages of a daily run: vacancies, communication or both
  MaxItems     \* bound on the items of a stage, for model checking

ASSUME WorkersAssumption == Services \cap Commands = {}
ASSUME TimesAssumption == DayLength \in Nat \ {0} /\ StaleAfter \in Nat /\ LastDay \in Nat
ASSUME StagesAssumption == StageCount \in Nat \ {0} /\ MaxItems \in Nat

VARIABLES
  clock,    \* the day and its hour
  record,   \* durable: run id -> what the store says of the run
  items,    \* durable: run id -> the stage items stored for it
  pc,       \* worker -> what it does next
  job       \* worker -> the run it works on

vars == <<clock, record, items, pc, job>>

Workers == Services \cup Commands
Days == 0..LastDay
Clocks == [day : Days, hour : 0..(DayLength - 1)]
Hours(c) == c.day * DayLength + c.hour

-----------------------------------------------------------------------------
(* Runs (careeragent/run.go).  The id of a daily run is its date.          *)

DailyRun(d) == <<"daily", d>>
CommandRun(k) == <<"command", k>>
DailyRuns == {DailyRun(d) : d \in Days}
RunIds == DailyRuns \cup {CommandRun(k) : k \in Commands}

Terminal == {"completed", "partial", "failed", "interrupted"}
Statuses == {"none", "running"} \cup Terminal

(* What a stage came to: fine, with errors in its summary, or an error     *)
(* returned; and the statuses of its items, FAILED or any other.  The two  *)
(* are not tied: a vacancy whose details cannot be fetched is a FAILED     *)
(* item of a fine stage, an error in the summary may belong to no item.    *)
Outcomes == {"ok", "errors", "failed"}
ItemStatuses == {"fine", "FAILED"}
StageResults == [outcome : Outcomes, items : Seq(ItemStatuses)]
ItemLists == UNION {[1..n -> ItemStatuses] : n \in 0..MaxItems}

(* An item in the store: its stage, its target in the stage, its status.   *)
StageCounts == 1..StageCount
Items == StageCounts \X (Nat \ {0}) \X ItemStatuses
ItemsOf(stages) ==
  UNION {{<<i, k, stages[i].items[k]>> : k \in DOMAIN stages[i].items} : i \in DOMAIN stages}

Epoch == [day |-> 0, hour |-> 0]
NoRun == [status |-> "none", started |-> Epoch, result |-> <<>>]
Records == [status : Statuses, started : Clocks, result : Seq(StageResults)]

NoJob == [run |-> DailyRun(0), now |-> Epoch, stages |-> <<>>, stored |-> 0]
Jobs == [run : RunIds, now : Clocks, stages : Seq(StageResults), stored : Nat]
Steps == {"idle", "inspect", "recoverAll", "recoverStale", "acquire", "work", "fail", "done"}

(* The status a run finishes with: no item is asked for its status.        *)
Verdict(stages) ==
  IF \A i \in DOMAIN stages : stages[i].outcome = "failed" THEN "failed"
  ELSE IF \A i \in DOMAIN stages : stages[i].outcome = "ok" THEN "completed"
  ELSE "partial"

-----------------------------------------------------------------------------

Init ==
  /\ clock = Epoch
  /\ record = [r \in RunIds |-> NoRun]
  /\ items = [r \in RunIds |-> {}]
  /\ pc = [w \in Workers |-> "idle"]
  /\ job = [w \in Workers |-> NoJob]

durable == <<record, items>>
Goto(w, step) == pc' = [pc EXCEPT ![w] = step]

(* A service waits for its next invocation; a command's process ends.      *)
End(w) ==
  /\ Goto(w, IF w \in Commands THEN "done" ELSE "idle")
  /\ job' = [job EXCEPT ![w] = NoJob]

(* The running flag lets one invocation in; another one meanwhile only     *)
(* reads the record.                                                       *)
Invoke(s) ==
  /\ s \in Services
  /\ pc[s] = "idle"
  /\ job' = [job EXCEPT ![s] = [NoJob EXCEPT !.run = DailyRun(clock.day), !.now = clock]]
  /\ Goto(s, "inspect")
  /\ UNCHANGED <<clock, durable>>

StartCommand(k) ==
  /\ k \in Commands
  /\ pc[k] = "idle"
  /\ job' = [job EXCEPT ![k] = [NoJob EXCEPT !.run = CommandRun(k), !.now = clock]]
  /\ Goto(k, "recoverAll")
  /\ UNCHANGED <<clock, durable>>

Mine(w) == record[job[w].run]
Older(start, margin, time) == Hours(start) + margin <= Hours(time)

(* Today's run is over, or runs and is not stale: its record is the answer.*)
Replay(s) ==
  /\ pc[s] = "inspect"
  /\ Mine(s).status # "none"
  /\ Mine(s).status = "running" => ~Older(Mine(s).started, StaleAfter, job[s].now)
  /\ End(s)
  /\ UNCHANGED <<clock, durable>>

(* Mutant: only today's own run is ever looked at again.                   *)
InspectOwn(s) ==
  /\ pc[s] = "inspect"
  /\ \/ /\ Mine(s).status = "running"
        /\ Older(Mine(s).started, StaleAfter, job[s].now)
        /\ Goto(s, "recoverAll")
     \/ /\ Mine(s).status = "none"
        /\ Goto(s, "acquire")
  /\ UNCHANGED <<clock, durable, job>>

(* Today's run is stale, and everything that runs is given up; or there is *)
(* none yet, and only what is stale.                                       *)
Inspect(s) ==
  /\ pc[s] = "inspect"
  /\ \/ /\ Mine(s).status = "running"
        /\ Older(Mine(s).started, StaleAfter, job[s].now)
        /\ Goto(s, "recoverAll")
     \/ /\ Mine(s).status = "none"
        /\ Goto(s, "recoverStale")
  /\ UNCHANGED <<clock, durable, job>>

(* A command takes the time now, a service that of its invocation.         *)
RecoverInterruptedRuns(w) ==
  /\ pc[w] \in {"recoverAll", "recoverStale"}
  /\ LET cutOff == IF w \in Commands THEN clock ELSE job[w].now
         margin == IF pc[w] = "recoverAll" THEN 0 ELSE StaleAfter
     IN record' = [r \in RunIds |->
          IF record[r].status = "running" /\ Older(record[r].started, margin, cutOff)
          THEN [record[r] EXCEPT !.status = "interrupted"] ELSE record[r]]
  /\ Goto(w, "acquire")
  /\ UNCHANGED <<clock, items, job>>

(* Mutant: a run that was given up is claimed again.                       *)
AcquireAgain(w) ==
  /\ pc[w] = "acquire"
  /\ Mine(w).status \in {"none", "interrupted"}
  /\ record' = [record EXCEPT ![job[w].run] =
       [NoRun EXCEPT !.status = "running", !.started = job[w].now]]
  /\ Goto(w, "work")
  /\ UNCHANGED <<clock, items, job>>

(* AcquireRun, and StartRun of a command, whose id is its own.             *)
AcquireRun(w) ==
  /\ pc[w] = "acquire"
  /\ Mine(w).status = "none"
  /\ record' = [record EXCEPT ![job[w].run] =
       [NoRun EXCEPT !.status = "running", !.started = job[w].now]]
  /\ Goto(w, "work")
  /\ UNCHANGED <<clock, items, job>>

(* Somebody else claimed the run, or it is over already: a replay or a     *)
(* conflict.                                                               *)
NotAcquired(w) ==
  /\ pc[w] = "acquire"
  /\ Mine(w).status # "none"
  /\ End(w)
  /\ UNCHANGED <<clock, durable>>

-----------------------------------------------------------------------------
(* The stages of a claimed run, one after the other.                       *)

StagesOf(w) == IF w \in Commands THEN 1 ELSE StageCount

(* The items of the last stage that are not stored yet.                    *)
ItemDue(w) ==
  LET i == Len(job[w].stages)
  IN i > 0 /\ job[w].stored < Len(job[w].stages[i].items)

(* A daily run adds an item for the error a stage returned.                *)
RunStage(w) ==
  /\ pc[w] = "work" /\ ~ItemDue(w) /\ Len(job[w].stages) < StagesOf(w)
  /\ \E o \in Outcomes, list \in ItemLists :
       LET all == IF o = "failed" /\ w \in Services THEN Append(list, "FAILED") ELSE list
       IN job' = [job EXCEPT ![w].stages = Append(@, [outcome |-> o, items |-> all]),
                             ![w].stored = 0]
  /\ UNCHANGED <<clock, durable, pc>>

(* The items are stored one by one, each under its own target.             *)
UpsertRunItem(w) ==
  /\ pc[w] = "work" /\ ItemDue(w)
  /\ LET i == Len(job[w].stages)
         k == job[w].stored + 1
     IN items' = [items EXCEPT ![job[w].run] = @ \cup {<<i, k, job[w].stages[i].items[k]>>}]
  /\ job' = [job EXCEPT ![w].stored = @ + 1]
  /\ UNCHANGED <<clock, record, pc>>

(* Mutant: an item that cannot be stored is skipped.                       *)
SkipItem(w) ==
  /\ pc[w] = "work" /\ ItemDue(w)
  /\ job' = [job EXCEPT ![w].stored = @ + 1]
  /\ UNCHANGED <<clock, durable, pc>>

(* The first item that cannot be stored ends the run.                      *)
UpsertFails(w) ==
  /\ pc[w] = "work" /\ ItemDue(w)
  /\ Goto(w, "fail")
  /\ UNCHANGED <<clock, durable, job>>

AllDone(w) == pc[w] = "work" /\ ~ItemDue(w) /\ Len(job[w].stages) = StagesOf(w)

(* Mutant: FinishRun replaces whatever is stored.                          *)
FinishAny(w, status, result) ==
  record' = [record EXCEPT ![job[w].run].status = status, ![job[w].run].result = result]

(* FinishRun: a run that was given up meanwhile is a conflict and stays as *)
(* it is.                                                                  *)
FinishRun(w, status, result) ==
  IF Mine(w).status = "running"
  THEN record' = [record EXCEPT ![job[w].run].status = status, ![job[w].run].result = result]
  ELSE UNCHANGED record

(* Only a daily run stores the result its replays answer with.             *)
Finish(w) ==
  /\ AllDone(w)
  /\ FinishRun(w, Verdict(job[w].stages), IF w \in Services THEN job[w].stages ELSE <<>>)
  /\ End(w)
  /\ UNCHANGED <<clock, items>>

FailRun(w) ==
  /\ pc[w] = "fail"
  /\ FinishRun(w, "failed", <<>>)
  /\ End(w)
  /\ UNCHANGED <<clock, items>>

(* The store is busy or unavailable, or the request whose context the run  *)
(* uses was cancelled; that the failure cannot be recorded is ignored.     *)
StoreFails(w) ==
  /\ pc[w] \in {"inspect", "recoverAll", "recoverStale", "acquire", "fail"} \/ AllDone(w)
  /\ End(w)
  /\ UNCHANGED <<clock, durable>>

-----------------------------------------------------------------------------

Crash(w) ==
  /\ pc[w] \notin {"idle", "done"}
  /\ End(w)
  /\ UNCHANGED <<clock, durable>>

Tick ==
  /\ \/ /\ clock.hour < DayLength - 1
        /\ clock' = [clock EXCEPT !.hour = @ + 1]
     \/ /\ clock.hour = DayLength - 1
        /\ clock.day < LastDay
        /\ clock' = [day |-> clock.day + 1, hour |-> 0]
  /\ UNCHANGED <<durable, pc, job>>

Enter(w) ==
  \/ Invoke(w) \/ StartCommand(w) \/ Replay(w) \/ Inspect(w)
  \/ RecoverInterruptedRuns(w) \/ AcquireRun(w) \/ NotAcquired(w)
Perform(w) ==
  \/ RunStage(w) \/ UpsertRunItem(w) \/ UpsertFails(w)
  \/ Finish(w) \/ FailRun(w) \/ StoreFails(w)

Next == Tick \/ \E w \in Workers : Enter(w) \/ Perform(w) \/ Crash(w)
Spec == Init /\ [][Next]_vars

-----------------------------------------------------------------------------
(* Fairness: time passes, the scheduler invokes the daily agent again and  *)
(* again, a stage returns, and no store operation fails every time.        *)

Fairness(w) ==
  /\ WF_vars(Invoke(w))
  /\ WF_vars(Replay(w) \/ NotAcquired(w) \/ RunStage(w))
  /\ SF_vars(Inspect(w))
  /\ SF_vars(RecoverInterruptedRuns(w))
  /\ SF_vars(AcquireRun(w))
  /\ WF_vars(UpsertRunItem(w) \/ UpsertFails(w))
  /\ WF_vars(Finish(w) \/ FailRun(w) \/ StoreFails(w))

FairSpec == Spec /\ WF_vars(Tick) /\ \E s \in Services : Fairness(s)

-----------------------------------------------------------------------------
(* Properties.                                                             *)

(* Types; and a worker that performs a run has a record of it.             *)
Owning(w) == pc[w] \in {"work", "fail"}

TypeOK ==
  /\ clock \in Clocks
  /\ record \in [RunIds -> Records]
  /\ items \in [RunIds -> SUBSET Items]
  /\ pc \in [Workers -> Steps]
  /\ job \in [Workers -> Jobs]
  /\ \A w \in Workers : Owning(w) => Mine(w).status # "none"

(* "Separate processes cannot execute the same daily run concurrently":    *)
(* the run of a day is performed by one service, even when a slow one was  *)
(* given up after hours and the day is asked for again (AcquireRun).       *)
OneOwner ==
  \A s, t \in Workers : Owning(s) /\ Owning(t) /\ job[s].run = job[t].run => s = t

(* What is recorded of a finished run is final: an interrupted run never   *)
(* becomes successful when its slow owner comes back, nobody starts it     *)
(* again and the result a replay answers with never changes (FinishRun,    *)
(* AcquireRun, RecoverInterruptedRuns).                                    *)
FinishedIsFinal ==
  [][\A r \in RunIds : record[r].status \in Terminal => record'[r] = record[r]]_vars

(* The result of a day is complete: it covers every stage, and the items   *)
(* in the store are those its stages came to, no more and no fewer, also   *)
(* when some could not be stored or the run was given up meanwhile.        *)
ResultIsComplete ==
  \A d \in Days :
    LET r == record[DailyRun(d)]
    IN /\ r.status \in {"completed", "partial"} => Len(r.result) = StageCount
       /\ r.result # <<>> => items[DailyRun(d)] = ItemsOf(r.result)

(* A run does not stay open for ever: whether its worker crashed, lost its *)
(* context or could not record the end, some later day gives it up.  Every *)
(* run that is old enough for the recovery of the last day is meant.       *)
Open(r) ==
  /\ record[r].status = "running"
  /\ clock.day < LastDay
  /\ Hours(record[r].started) + StaleAfter <= LastDay * DayLength

RunsEnd == \A r \in RunIds : Open(r) ~> record[r].status # "running"

=============================================================================
