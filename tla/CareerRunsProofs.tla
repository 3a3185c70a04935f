---------------------------- MODULE CareerRunsProofs ----------------------------
(***************************************************************************)
(* Proofs for CareerRuns: one owner of a run, final records and complete   *)
(* results, for any services, commands, stages and stale window.           *)
(***************************************************************************)
EXTENDS CareerRuns, TLAPS

-----------------------------------------------------------------------------
(* The inductive invariant.                                                *)

Types ==
  /\ clock \in Clocks
  /\ record \in [RunIds -> Records]
  /\ items \in [RunIds -> SUBSET Items]
  /\ pc \in [Workers -> Steps]
  /\ job \in [Workers -> Jobs]

(* A command works on the run of its own id, a service on that of a day.   *)
RunOfWorker(w) ==
  pc[w] \notin {"idle", "done"} =>
    IF w \in Commands THEN job[w].run = CommandRun(w) ELSE job[w].run \in DailyRuns

(* How many stages a worker has behind it, and how many items of the last  *)
(* one are stored.                                                         *)
LastItems(w) == job[w].stages[Len(job[w].stages)].items
StagesDone(w) ==
  /\ ~Owning(w) => job[w].stages = <<>>
  /\ Len(job[w].stages) \in 0..StagesOf(w)
  /\ job[w].stages # <<>> => job[w].stored <= Len(LastItems(w))

WorkersOK == \A w \in Workers : RunOfWorker(w) /\ StagesDone(w)

(* A run that is performed has not ended, except that others gave it up.   *)
OwnedIsOpen == \A w \in Workers : Owning(w) => Mine(w).status \in {"running", "interrupted"}

Unfinished == {"none", "running", "interrupted"}
NoResultYet == \A r \in RunIds : record[r].status \in Unfinished => record[r].result = <<>>
NothingStored == \A r \in RunIds : record[r].status = "none" => items[r] = {}

(* What is stored of a performed run is what its stages came to, but for   *)
(* the items of the last stage that are due.                               *)
ItemsSoFar(stages, stored) == {x \in ItemsOf(stages) : x[1] < Len(stages) \/ x[2] <= stored}
StoredItems(w) == Owning(w) => items[job[w].run] = ItemsSoFar(job[w].stages, job[w].stored)
Stored == \A w \in Workers : StoredItems(w)

IInv ==
  /\ Types /\ WorkersOK /\ OneOwner /\ OwnedIsOpen
  /\ NoResultYet /\ NothingStored /\ Stored /\ ResultIsComplete

-----------------------------------------------------------------------------
(* Run ids and constants.                                                  *)

LEMMA RunIdFacts ==
  /\ \A d \in Days : DailyRun(d) \in RunIds
  /\ \A k \in Commands : CommandRun(k) \in RunIds
  /\ DailyRuns \subseteq RunIds
  /\ \A k \in Commands : CommandRun(k) \notin DailyRuns
  /\ \A k, l \in Commands : CommandRun(k) = CommandRun(l) => k = l
BY DEF RunIds, DailyRuns, DailyRun, CommandRun

LEMMA Constants == Epoch \in Clocks /\ NoJob \in Jobs /\ NoRun \in Records
<1>1. 0 \in Days /\ Epoch \in Clocks
  BY TimesAssumption DEF Days, Epoch, Clocks
<1>2. DailyRun(0) \in RunIds
  BY <1>1, RunIdFacts
<1>. QED BY <1>1, <1>2 DEF NoJob, Jobs, NoRun, Records, Statuses

LEMMA StagesType == \A w \in Workers : StagesOf(w) \in Nat /\ StagesOf(w) \in 1..StageCount
BY StagesAssumption DEF StagesOf

LEMMA StageItems ==
  ASSUME NEW stages \in Seq(StageResults)
  PROVE  \A i \in DOMAIN stages : stages[i] \in StageResults /\ stages[i].items \in Seq(ItemStatuses)
<1>1. \A i \in DOMAIN stages : stages[i] \in StageResults
  OBVIOUS
<1>2. \A s \in StageResults : s.items \in Seq(ItemStatuses)
  BY DEF StageResults
<1>. QED BY <1>1, <1>2

LEMMA InitIInv == Init => IInv
<1>. SUFFICES ASSUME Init PROVE IInv
  OBVIOUS
<1>1. Types
  BY Constants DEF Init, Types, Steps
<1>2. \A w \in Workers : pc[w] = "idle" /\ job[w].stages = <<>> /\ ~Owning(w)
  BY DEF Init, NoJob, Owning
<1>3. WorkersOK /\ OneOwner /\ OwnedIsOpen /\ Stored
  BY <1>2, StagesType DEF WorkersOK, RunOfWorker, StagesDone, OneOwner, OwnedIsOpen, Stored, StoredItems
<1>4. NoResultYet /\ NothingStored
  BY DEF Init, NoResultYet, NothingStored, NoRun
<1>5. ResultIsComplete
  BY RunIdFacts DEF Init, ResultIsComplete, NoRun
<1>. QED BY <1>1, <1>3, <1>4, <1>5 DEF IInv

-----------------------------------------------------------------------------
(* What a step changes.                                                    *)

WorkerStep(w) == Enter(w) \/ Perform(w) \/ Crash(w)

(* The others go on as they are.                                           *)
LEMMA OthersRest ==
  ASSUME Types, NEW w \in Workers, WorkerStep(w), NEW v \in Workers, v # w
  PROVE  pc'[v] = pc[v] /\ job'[v] = job[v]
<1>. USE DEF Types, Goto, End
<1>1. CASE Enter(w)
  BY <1>1 DEF Enter, Invoke, StartCommand, Replay, Inspect, RecoverInterruptedRuns, AcquireRun, NotAcquired
<1>2. CASE Perform(w)
  BY <1>2 DEF Perform, RunStage, UpsertRunItem, UpsertFails, Finish, FailRun, StoreFails
<1>3. CASE Crash(w)
  BY <1>3 DEF Crash
<1>. QED BY <1>1, <1>2, <1>3 DEF WorkerStep

(* A worker that ends.                                                     *)
LEMMA Ended ==
  ASSUME Types, NEW w \in Workers, End(w)
  PROVE  pc'[w] \in {"idle", "done"} /\ job'[w] = NoJob /\ pc' \in [Workers -> Steps] /\ job' \in [Workers -> Jobs]
BY Constants DEF Types, End, Goto, Steps

(* How the record of a run may change.                                     *)
GivenUp(r) ==
  record[r].status = "running" /\ record'[r].status = "interrupted" /\ record'[r].result = record[r].result
Claimed(w, r) ==
  /\ pc[w] = "acquire" /\ AcquireRun(w) /\ r = job[w].run
  /\ record[r].status = "none" /\ record'[r].status = "running" /\ record'[r].result = <<>>
FinishedAs(w, r, status, result) ==
  /\ r = job[w].run
  /\ record[r].status = "running" /\ record'[r].status = status /\ record'[r].result = result
Concluded(w, r) ==
  \/ /\ AllDone(w)
     /\ FinishedAs(w, r, Verdict(job[w].stages), IF w \in Services THEN job[w].stages ELSE <<>>)
  \/ /\ pc[w] = "fail"
     /\ FinishedAs(w, r, "failed", <<>>)
Changed(w, r) == GivenUp(r) \/ Claimed(w, r) \/ Concluded(w, r)

LEMMA RecordGivenUp ==
  ASSUME NEW x \in Records
  PROVE  LET y == [x EXCEPT !.status = "interrupted"] IN
         y \in Records /\ y.status = "interrupted" /\ y.result = x.result
BY DEF Records, Statuses, Terminal

LEMMA RecordClaimed ==
  ASSUME NEW started \in Clocks
  PROVE  LET y == [NoRun EXCEPT !.status = "running", !.started = started] IN
         y \in Records /\ y.status = "running" /\ y.result = <<>>
<1>1. NoRun \in Records /\ NoRun.result = <<>> /\ "running" \in Statuses
  BY Constants DEF NoRun, Statuses
<1>. HIDE DEF NoRun
<1>. QED BY <1>1 DEF Records

LEMMA VerdictType == \A o \in Seq(StageResults) : Verdict(o) \in {"completed", "partial", "failed"}
BY DEF Verdict

(* FinishRun.                                                              *)
LEMMA Finishing ==
  ASSUME Types, NEW w \in Workers, NEW status \in Statuses, NEW result \in Seq(StageResults),
         FinishRun(w, status, result)
  PROVE  /\ record' \in [RunIds -> Records]
         /\ \A r \in RunIds : record'[r] = record[r] \/ FinishedAs(w, r, status, result)
<1>. DEFINE x == record[job[w].run]
            y == [x EXCEPT !.status = status, !.result = result]
<1>1. job[w].run \in RunIds /\ x \in Records
  BY DEF Types, Jobs
<1>2. CASE x.status = "running"
  <2>1. record' = [record EXCEPT ![job[w].run] = y]
    BY <1>1, <1>2 DEF FinishRun, Mine, Types
  <2>. HIDE DEF x
  <2>2. y \in Records /\ y.status = status /\ y.result = result
    BY <1>1 DEF Records
  <2>. HIDE DEF y
  <2>. USE DEF x
  <2>. QED BY <1>1, <1>2, <2>1, <2>2 DEF Types, FinishedAs
<1>3. CASE x.status # "running"
  BY <1>3 DEF FinishRun, Mine, Types
<1>. QED BY <1>2, <1>3

LEMMA RecordSteps ==
  ASSUME Types, NEW w \in Workers, WorkerStep(w)
  PROVE  /\ record' \in [RunIds -> Records]
         /\ \A r \in RunIds : record'[r] = record[r] \/ Changed(w, r)
<1>. USE DEF Changed
<1>0. job[w] \in Jobs /\ job[w].run \in RunIds /\ job[w].now \in Clocks /\ job[w].stages \in Seq(StageResults)
  BY DEF Types, Jobs
<1>1. CASE UNCHANGED record
  BY <1>1 DEF Types
<1>2. CASE RecoverInterruptedRuns(w)
  <2>1. \A r \in RunIds : record'[r] \in {record[r], [record[r] EXCEPT !.status = "interrupted"]}
    BY <1>2 DEF RecoverInterruptedRuns
  <2>2. \A r \in RunIds : record'[r] # record[r] =>
          record[r].status = "running" /\ record'[r] = [record[r] EXCEPT !.status = "interrupted"]
    BY <1>2 DEF RecoverInterruptedRuns
  <2>3. \A r \in RunIds : record'[r] = record[r] \/ GivenUp(r)
    <3>. SUFFICES ASSUME NEW r \in RunIds, record'[r] # record[r]
                  PROVE  GivenUp(r)
      OBVIOUS
    <3>1. record[r] \in Records /\ record[r].status = "running"
      BY <2>2 DEF Types
    <3>2. record'[r] = [record[r] EXCEPT !.status = "interrupted"]
      BY <2>2
    <3>3. record'[r].status = "interrupted" /\ record'[r].result = record[r].result
      BY <3>1, <3>2 DEF Records
    <3>. QED BY <3>1, <3>3 DEF GivenUp
  <2>4. \A r \in RunIds : record'[r] \in Records
    BY <2>1, RecordGivenUp DEF Types
  <2>5. record' = [r \in RunIds |-> record'[r]]
    BY <1>2 DEF RecoverInterruptedRuns
  <2>. QED BY <2>3, <2>4, <2>5
<1>3. CASE AcquireRun(w)
  <2>. DEFINE y == [NoRun EXCEPT !.status = "running", !.started = job[w].now]
  <2>1. record' = [record EXCEPT ![job[w].run] = y] /\ record[job[w].run].status = "none" /\ pc[w] = "acquire"
    BY <1>3 DEF AcquireRun, Mine
  <2>2. y \in Records /\ y.status = "running" /\ y.result = <<>>
    BY <1>0, RecordClaimed
  <2>. HIDE DEF y
  <2>. QED BY <1>0, <1>3, <2>1, <2>2 DEF Claimed, Types
<1>4. CASE Finish(w)
  <2>. DEFINE result == IF w \in Services THEN job[w].stages ELSE <<>>
  <2>1. FinishRun(w, Verdict(job[w].stages), result) /\ AllDone(w)
    BY <1>4 DEF Finish
  <2>2. Verdict(job[w].stages) \in Statuses /\ result \in Seq(StageResults)
    BY <1>0, VerdictType DEF Statuses, Terminal
  <2>. QED BY <2>1, <2>2, Finishing DEF Concluded
<1>5. CASE FailRun(w)
  <2>1. FinishRun(w, "failed", <<>>) /\ pc[w] = "fail"
    BY <1>5 DEF FailRun
  <2>2. "failed" \in Statuses /\ <<>> \in Seq(StageResults)
    BY DEF Statuses, Terminal
  <2>. QED BY <2>1, <2>2, Finishing DEF Concluded
<1>6. UNCHANGED record \/ RecoverInterruptedRuns(w) \/ AcquireRun(w) \/ Finish(w) \/ FailRun(w)
  BY DEF WorkerStep, Enter, Perform, Crash, Invoke, StartCommand, Replay, Inspect, NotAcquired,
         RunStage, UpsertRunItem, UpsertFails, StoreFails, durable
<1>. QED BY <1>1, <1>2, <1>3, <1>4, <1>5, <1>6

-----------------------------------------------------------------------------
(* Who performs a run, and what is stored of it.                           *)

(* A stage has come to something.                                          *)
LEMMA Staged ==
  ASSUME Types, NEW w \in Workers, RunStage(w)
  PROVE  /\ \E s \in StageResults : job'[w].stages = Append(job[w].stages, s)
         /\ job'[w].stored = 0 /\ job'[w].run = job[w].run /\ job' \in [Workers -> Jobs]
         /\ pc[w] = "work" /\ UNCHANGED <<pc, record, items>> /\ ~ItemDue(w)
         /\ Len(job[w].stages) < StagesOf(w)
<1>1. PICK o \in Outcomes, list \in ItemLists :
        LET all == IF o = "failed" /\ w \in Services THEN Append(list, "FAILED") ELSE list
        IN job' = [job EXCEPT ![w].stages = Append(@, [outcome |-> o, items |-> all]), ![w].stored = 0]
  BY DEF RunStage
<1>. DEFINE all == IF o = "failed" /\ w \in Services THEN Append(list, "FAILED") ELSE list
            s == [outcome |-> o, items |-> all]
            j == [job[w] EXCEPT !.stages = Append(job[w].stages, s), !.stored = 0]
<1>2. list \in Seq(ItemStatuses)
  BY StagesAssumption DEF ItemLists
<1>3. s \in StageResults
  BY <1>2 DEF StageResults, ItemStatuses
<1>4. job[w] \in Jobs /\ job[w].stages \in Seq(StageResults)
  BY DEF Types, Jobs
<1>5. job' = [job EXCEPT ![w] = j]
  BY <1>1, <1>4 DEF Types
<1>. HIDE DEF s
<1>6. j \in Jobs /\ j.stages = Append(job[w].stages, s) /\ j.stored = 0 /\ j.run = job[w].run
  <2>1. Append(job[w].stages, s) \in Seq(StageResults)
    BY <1>3, <1>4
  <2>. QED BY <1>4, <2>1 DEF Jobs
<1>. HIDE DEF j
<1>7. job'[w] = j /\ job' \in [Workers -> Jobs]
  BY <1>5, <1>6 DEF Types
<1>. QED BY <1>3, <1>6, <1>7 DEF RunStage, durable

LEMMA Owners ==
  ASSUME Types, NEW w \in Workers, WorkerStep(w), Owning(w)'
  PROVE  job'[w].run = job[w].run /\ (Owning(w) \/ AcquireRun(w))
<1>1. ~End(w)
  BY Ended DEF Owning
<1>2. AcquireRun(w) \/ RunStage(w) \/ UpsertRunItem(w) \/ UpsertFails(w)
  <2>1. CASE Enter(w)
    BY <1>1, <2>1 DEF Enter, Invoke, StartCommand, Replay, Inspect, RecoverInterruptedRuns, NotAcquired,
                      Goto, Owning, Types
  <2>2. CASE Perform(w)
    BY <1>1, <2>2 DEF Perform, Finish, FailRun, StoreFails
  <2>3. CASE Crash(w)
    BY <1>1, <2>3 DEF Crash
  <2>. QED BY <2>1, <2>2, <2>3 DEF WorkerStep
<1>3. job[w] \in Jobs
  BY DEF Types
<1>4. CASE RunStage(w)
  BY <1>4, Staged DEF Owning
<1>5. CASE UpsertRunItem(w)
  <2>. DEFINE j == [job[w] EXCEPT !.stored = job[w].stored + 1]
  <2>1. job' = [job EXCEPT ![w] = j]
    BY <1>5 DEF UpsertRunItem, Types
  <2>2. j.run = job[w].run
    BY <1>3 DEF Jobs
  <2>. HIDE DEF j
  <2>. QED BY <1>5, <2>1, <2>2 DEF UpsertRunItem, Types, Owning
<1>. QED BY <1>2, <1>4, <1>5 DEF AcquireRun, UpsertFails, Owning

LEMMA FinishEnds ==
  ASSUME Types, NEW w \in Workers, WorkerStep(w), pc[w] = "fail" \/ AllDone(w)
  PROVE  ~Owning(w)'
<1>1. End(w)
  BY DEF WorkerStep, Enter, Perform, Crash, Invoke, StartCommand, Replay, Inspect, RecoverInterruptedRuns,
         AcquireRun, NotAcquired, RunStage, UpsertRunItem, UpsertFails, Finish, FailRun, StoreFails, AllDone
<1>. QED BY <1>1, Ended DEF Owning

LEMMA ItemsSteps ==
  ASSUME Types, NEW w \in Workers, WorkerStep(w)
  PROVE  UNCHANGED clock /\ (UpsertRunItem(w) \/ UNCHANGED items)
BY DEF WorkerStep, Enter, Perform, Crash, Invoke, StartCommand, Replay, Inspect, RecoverInterruptedRuns,
       AcquireRun, NotAcquired, RunStage, UpsertFails, Finish, FailRun, StoreFails, UpsertRunItem, durable

(* The items of stages.                                                    *)
LEMMA ItemsOfStages ==
  ASSUME NEW stages \in Seq(StageResults)
  PROVE  \A i, k, status :
           <<i, k, status>> \in ItemsOf(stages) <=>
             i \in DOMAIN stages /\ k \in DOMAIN stages[i].items /\ status = stages[i].items[k]
BY DEF ItemsOf

LEMMA ItemsOfType ==
  ASSUME NEW stages \in Seq(StageResults)
  PROVE  \A x \in ItemsOf(stages) :
           \E i \in DOMAIN stages : \E k \in DOMAIN stages[i].items : x = <<i, k, stages[i].items[k]>>
BY DEF ItemsOf

(* A stage more, nothing of which is stored; an item more.                 *)
LEMMA StageMore ==
  ASSUME NEW stages \in Seq(StageResults), NEW s \in StageResults, NEW stored \in Nat,
         stages # <<>> => ~(stored < Len(stages[Len(stages)].items))
  PROVE  ItemsSoFar(Append(stages, s), 0) = ItemsSoFar(stages, stored)
<1>. DEFINE more == Append(stages, s)
<1>1. more \in Seq(StageResults) /\ Len(more) = Len(stages) + 1 /\ DOMAIN more = 1..(Len(stages) + 1)
  OBVIOUS
<1>2. \A i \in 1..Len(stages) : more[i] = stages[i]
  OBVIOUS
<1>3. \A i \in DOMAIN more : more[i].items \in Seq(ItemStatuses)
  BY <1>1, StageItems
<1>4. \A i \in DOMAIN stages : stages[i].items \in Seq(ItemStatuses)
  BY StageItems
<1>. HIDE DEF more
<1>5. ASSUME NEW x \in ItemsSoFar(more, 0) PROVE x \in ItemsSoFar(stages, stored)
  <2>1. PICK i \in DOMAIN more : \E k \in DOMAIN more[i].items : x = <<i, k, more[i].items[k]>>
    BY <1>1, ItemsOfType DEF ItemsSoFar
  <2>2. PICK k \in DOMAIN more[i].items : x = <<i, k, more[i].items[k]>>
    BY <2>1
  <2>3. x[1] = i /\ x[2] = k /\ k \in Nat /\ k >= 1
    BY <1>3, <2>2
  <2>4. i < Len(stages) + 1
    <3>1. x[1] < Len(more) \/ x[2] <= 0
      BY DEF ItemsSoFar
    <3>. QED BY <1>1, <2>3, <3>1
  <2>5. i \in 1..Len(stages) /\ more[i] = stages[i]
    BY <1>1, <1>2, <2>4
  <2>6. x \in ItemsOf(stages)
    BY <2>2, <2>5, ItemsOfStages
  <2>7. i = Len(stages) => k <= stored
    BY <1>4, <2>2, <2>5
  <2>. QED BY <2>3, <2>5, <2>6, <2>7 DEF ItemsSoFar
<1>6. ASSUME NEW x \in ItemsSoFar(stages, stored) PROVE x \in ItemsSoFar(more, 0)
  <2>1. PICK i \in DOMAIN stages : \E k \in DOMAIN stages[i].items : x = <<i, k, stages[i].items[k]>>
    BY ItemsOfType DEF ItemsSoFar
  <2>2. PICK k \in DOMAIN stages[i].items : x = <<i, k, stages[i].items[k]>>
    BY <2>1
  <2>3. i \in DOMAIN more /\ more[i] = stages[i] /\ i < Len(more)
    BY <1>1, <1>2
  <2>4. x \in ItemsOf(more)
    BY <1>1, <2>2, <2>3, ItemsOfStages
  <2>. QED BY <2>2, <2>3, <2>4 DEF ItemsSoFar
<1>. QED BY <1>5, <1>6 DEF more

LEMMA ItemMore ==
  ASSUME NEW stages \in Seq(StageResults), stages # <<>>, NEW stored \in Nat,
         stored < Len(stages[Len(stages)].items)
  PROVE  LET i == Len(stages) IN
         ItemsSoFar(stages, stored + 1) = ItemsSoFar(stages, stored) \cup {<<i, stored + 1, stages[i].items[stored + 1]>>}
<1>. DEFINE i == Len(stages)
            new == <<i, stored + 1, stages[i].items[stored + 1]>>
<1>1. i \in DOMAIN stages /\ \A j \in DOMAIN stages : j <= i /\ stages[j].items \in Seq(ItemStatuses)
  BY StageItems
<1>2. new \in ItemsOf(stages)
  BY <1>1, ItemsOfStages
<1>3. ASSUME NEW x \in ItemsOf(stages)
      PROVE  x \in ItemsSoFar(stages, stored + 1) <=> x \in ItemsSoFar(stages, stored) \/ x = new
  <2>1. PICK j \in DOMAIN stages : \E k \in DOMAIN stages[j].items : x = <<j, k, stages[j].items[k]>>
    BY ItemsOfType
  <2>2. PICK k \in DOMAIN stages[j].items : x = <<j, k, stages[j].items[k]>>
    BY <2>1
  <2>3. x[1] = j /\ x[2] = k /\ j <= i /\ k \in Nat /\ j \in Nat /\ i \in Nat
    BY <1>1, <2>2
  <2>4. x = new <=> j = i /\ k = stored + 1
    BY <2>2
  <2>. QED BY <2>3, <2>4 DEF ItemsSoFar
<1>. QED BY <1>2, <1>3 DEF ItemsSoFar

(* When no item is due, all are stored.                                    *)
LEMMA AllStored ==
  ASSUME NEW stages \in Seq(StageResults), NEW stored \in Nat,
         stages # <<>> => ~(stored < Len(stages[Len(stages)].items))
  PROVE  ItemsSoFar(stages, stored) = ItemsOf(stages)
<1>. SUFFICES ASSUME NEW x \in ItemsOf(stages) PROVE x[1] < Len(stages) \/ x[2] <= stored
  BY DEF ItemsSoFar
<1>1. PICK i \in DOMAIN stages : \E k \in DOMAIN stages[i].items : x = <<i, k, stages[i].items[k]>>
  BY ItemsOfType
<1>2. PICK k \in DOMAIN stages[i].items : x = <<i, k, stages[i].items[k]>>
  BY <1>1
<1>3. stages[i].items \in Seq(ItemStatuses) /\ x[1] = i /\ x[2] = k
  BY <1>2, StageItems
<1>. QED BY <1>2, <1>3

(* Storing an item.                                                        *)
LEMMA Upserted ==
  ASSUME Types, WorkersOK, NEW w \in Workers, UpsertRunItem(w)
  PROVE  LET i == Len(job[w].stages)
             k == job[w].stored + 1
             x == <<i, k, job[w].stages[i].items[k]>>
         IN /\ x \in Items /\ job[w].run \in RunIds
            /\ items'[job[w].run] = items[job[w].run] \cup {x}
            /\ \A r \in RunIds \ {job[w].run} : items'[r] = items[r]
            /\ items' \in [RunIds -> SUBSET Items]
            /\ Owning(w) /\ UNCHANGED <<record, pc>> /\ ItemDue(w)
            /\ job' \in [Workers -> Jobs] /\ job'[w].run = job[w].run
            /\ job'[w].stages = job[w].stages /\ job'[w].stored = k
<1>. DEFINE i == Len(job[w].stages)
            k == job[w].stored + 1
            x == <<i, k, job[w].stages[i].items[k]>>
            j == [job[w] EXCEPT !.stored = k]
<1>1. job[w] \in Jobs /\ job[w].run \in RunIds /\ job[w].stages \in Seq(StageResults) /\ job[w].stored \in Nat
  BY DEF Types, Jobs
<1>2. i \in 1..StagesOf(w) /\ job[w].stored < Len(job[w].stages[i].items)
  BY <1>1, StagesType DEF UpsertRunItem, ItemDue, WorkersOK, StagesDone
<1>3. job[w].stages[i].items \in Seq(ItemStatuses)
  BY <1>1, <1>2, StageItems
<1>4. k \in Nat \ {0} /\ job[w].stages[i].items[k] \in ItemStatuses
  BY <1>1, <1>2, <1>3
<1>5. i \in StageCounts
  BY <1>2, StagesType, StagesAssumption DEF StageCounts
<1>6. x \in Items
  BY <1>4, <1>5 DEF Items
<1>7. items' = [items EXCEPT ![job[w].run] = @ \cup {x}] /\ UNCHANGED <<record, pc>> /\ pc[w] = "work" /\ ItemDue(w)
  BY DEF UpsertRunItem
<1>8. job' = [job EXCEPT ![w] = j]
  BY <1>1 DEF UpsertRunItem, Types
<1>9. j \in Jobs /\ j.run = job[w].run /\ j.stages = job[w].stages /\ j.stored = k
  BY <1>1, <1>4 DEF Jobs
<1>. HIDE DEF x, j
<1>10. items'[job[w].run] = items[job[w].run] \cup {x} /\ \A r \in RunIds \ {job[w].run} : items'[r] = items[r]
  BY <1>1, <1>7 DEF Types
<1>11. items' \in [RunIds -> SUBSET Items]
  BY <1>1, <1>6, <1>7 DEF Types
<1>12. job'[w] = j /\ job' \in [Workers -> Jobs]
  BY <1>8, <1>9 DEF Types
<1>. QED BY <1>1, <1>6, <1>7, <1>9, <1>10, <1>11, <1>12 DEF Owning, x

-----------------------------------------------------------------------------
(* Every step keeps every part.                                            *)

LEMMA TypesStep ==
  ASSUME IInv, NEW w \in Workers, WorkerStep(w)
  PROVE  Types'
<1>. USE DEF IInv
<1>1. clock' \in Clocks /\ record' \in [RunIds -> Records]
  BY ItemsSteps, RecordSteps DEF Types
<1>2. items' \in [RunIds -> SUBSET Items]
  BY ItemsSteps, Upserted DEF Types
<1>3. pc' \in [Workers -> Steps] /\ job' \in [Workers -> Jobs]
  <2>1. CASE End(w)
    BY <2>1, Ended DEF Types
  <2>2. CASE UNCHANGED job /\ \E step \in Steps : Goto(w, step)
    BY <2>2 DEF Types, Goto
  <2>3. CASE \E j \in Jobs, step \in Steps : job' = [job EXCEPT ![w] = j] /\ Goto(w, step)
    BY <2>3 DEF Types, Goto
  <2>4. CASE Invoke(w) \/ StartCommand(w)
    <3>1. clock \in Clocks /\ clock.day \in Days /\ NoJob \in Jobs
      BY Constants DEF Types, Clocks
    <3>2. DailyRun(clock.day) \in RunIds /\ (w \in Commands => CommandRun(w) \in RunIds)
      BY <3>1, RunIdFacts
    <3>3. \A r \in RunIds : [NoJob EXCEPT !.run = r, !.now = clock] \in Jobs
      BY <3>1 DEF Jobs
    <3>. HIDE DEF IInv
    <3>4. "inspect" \in Steps /\ "recoverAll" \in Steps
      BY DEF Steps
    <3>. QED BY <2>3, <2>4, <3>2, <3>3, <3>4 DEF Invoke, StartCommand
  <2>5. CASE RunStage(w) \/ UpsertRunItem(w)
    BY <2>5, Staged, Upserted DEF Types
  <2>6. CASE Inspect(w) \/ RecoverInterruptedRuns(w) \/ AcquireRun(w) \/ UpsertFails(w)
    BY <2>2, <2>6 DEF Inspect, RecoverInterruptedRuns, AcquireRun, UpsertFails, Steps
  <2>7. Replay(w) \/ NotAcquired(w) \/ Finish(w) \/ FailRun(w) \/ StoreFails(w) \/ Crash(w) => End(w)
    BY DEF Replay, NotAcquired, Finish, FailRun, StoreFails, Crash
  <2>. QED BY <2>1, <2>4, <2>5, <2>6, <2>7 DEF WorkerStep, Enter, Perform
<1>. QED BY <1>1, <1>2, <1>3 DEF Types

LEMMA WorkersStep ==
  ASSUME IInv, NEW w \in Workers, WorkerStep(w)
  PROVE  WorkersOK'
<1>1. Types /\ RunOfWorker(w) /\ StagesDone(w) /\ StagesOf(w) \in Nat /\ StagesOf(w) \in 1..StageCount
  BY StagesType DEF IInv, WorkersOK
<1>2. \A v \in Workers \ {w} : RunOfWorker(v)' /\ StagesDone(v)'
  BY <1>1, OthersRest DEF IInv, WorkersOK, RunOfWorker, StagesDone, Owning, StagesOf, LastItems
<1>3. RunOfWorker(w)' /\ StagesDone(w)'
  <2>. USE DEF RunOfWorker, StagesDone, Owning, Types
  <2>0. job[w] \in Jobs /\ job[w].stages \in Seq(StageResults) /\ job[w].stored \in Nat
    BY <1>1 DEF Jobs
  <2>1. CASE End(w)
    <3>1. pc'[w] \in {"idle", "done"} /\ job'[w].stages = <<>>
      BY <1>1, <2>1, Ended DEF NoJob
    <3>. QED BY <1>1, <3>1 DEF StagesOf
  <2>2. CASE Invoke(w)
    <3>1. pc'[w] = "inspect" /\ job'[w] = [NoJob EXCEPT !.run = DailyRun(clock.day), !.now = clock]
      BY <1>1, <2>2 DEF Invoke, Goto
    <3>2. job'[w].run = DailyRun(clock.day) /\ job'[w].stages = <<>>
      BY <3>1 DEF NoJob
    <3>3. clock.day \in Days /\ w \notin Commands
      BY <1>1, <2>2, WorkersAssumption DEF Clocks, Invoke
    <3>. QED BY <1>1, <3>1, <3>2, <3>3 DEF DailyRuns, StagesOf
  <2>3. CASE StartCommand(w)
    <3>1. /\ pc'[w] = "recoverAll" /\ w \in Commands
          /\ job'[w] = [NoJob EXCEPT !.run = CommandRun(w), !.now = clock]
      BY <1>1, <2>3 DEF StartCommand, Goto
    <3>2. job'[w].run = CommandRun(w) /\ job'[w].stages = <<>>
      BY <3>1 DEF NoJob
    <3>. QED BY <1>1, <3>1, <3>2 DEF StagesOf
  <2>4. CASE Inspect(w) \/ RecoverInterruptedRuns(w)
    BY <1>1, <2>4 DEF Inspect, RecoverInterruptedRuns, Goto
  <2>5. CASE AcquireRun(w)
    BY <1>1, <2>5 DEF AcquireRun, Goto
  <2>6. CASE RunStage(w)
    <3>1. PICK s \in StageResults : job'[w].stages = Append(job[w].stages, s)
      BY <1>1, <2>6, Staged
    <3>2. job'[w].stored = 0 /\ job'[w].run = job[w].run /\ pc' = pc /\ pc[w] = "work" /\ Len(job[w].stages) < StagesOf(w)
      BY <1>1, <2>6, Staged
    <3>3. Len(job'[w].stages) = Len(job[w].stages) + 1 /\ job'[w].stages[Len(job'[w].stages)] = s
      BY <2>0, <3>1
    <3>4. Len(s.items) >= 0
      BY DEF StageResults
    <3>. QED BY <1>1, <2>0, <3>2, <3>3, <3>4 DEF StagesOf, LastItems
  <2>7. CASE UpsertRunItem(w)
    <3>1. /\ job'[w].stages = job[w].stages /\ job'[w].stored = job[w].stored + 1 /\ job'[w].run = job[w].run
          /\ pc' = pc /\ ItemDue(w) /\ Owning(w)
      BY <1>1, <2>7, Upserted DEF IInv
    <3>2. job[w].stages[Len(job[w].stages)].items \in Seq(ItemStatuses)
      BY <2>0, <3>1, StageItems DEF ItemDue
    <3>. QED BY <1>1, <2>0, <3>1, <3>2 DEF ItemDue, StagesOf, LastItems
  <2>8. CASE UpsertFails(w)
    BY <1>1, <2>8 DEF UpsertFails, Goto, StagesOf, LastItems
  <2>9. Replay(w) \/ NotAcquired(w) \/ Finish(w) \/ FailRun(w) \/ StoreFails(w) \/ Crash(w) => End(w)
    BY DEF Replay, NotAcquired, Finish, FailRun, StoreFails, Crash
  <2>. QED BY <2>1, <2>2, <2>3, <2>4, <2>5, <2>6, <2>7, <2>8, <2>9 DEF WorkerStep, Enter, Perform
<1>. QED BY <1>2, <1>3 DEF WorkersOK

LEMMA OneOwnerStep ==
  ASSUME IInv, NEW w \in Workers, WorkerStep(w)
  PROVE  OneOwner'
<1>. SUFFICES ASSUME NEW s \in Workers, NEW t \in Workers, Owning(s)', Owning(t)',
                     job'[s].run = job'[t].run, s # t
              PROVE  FALSE
  BY DEF OneOwner
<1>. USE DEF IInv
<1>1. \A v \in Workers \ {w} : (Owning(v)' <=> Owning(v)) /\ job'[v] = job[v]
  BY OthersRest DEF Owning
<1>2. job'[s].run = job[s].run /\ job'[t].run = job[t].run
  BY <1>1, Owners
<1>3. \A v \in Workers \ {w} : Owning(v) /\ job[v].run = job[w].run => ~AcquireRun(w)
  BY DEF AcquireRun, Mine, OwnedIsOpen
<1>. QED BY <1>1, <1>2, <1>3, Owners DEF OneOwner

LEMMA OwnedIsOpenStep ==
  ASSUME IInv, NEW w \in Workers, WorkerStep(w)
  PROVE  OwnedIsOpen'
<1>. USE DEF IInv
<1>. SUFFICES ASSUME NEW v \in Workers, Owning(v)'
              PROVE  record'[job'[v].run].status \in {"running", "interrupted"}
  BY DEF OwnedIsOpen, Mine
<1>. DEFINE r == job[v].run
<1>1. job'[v].run = r /\ (Owning(v) \/ (v = w /\ AcquireRun(w)))
  BY OthersRest, Owners DEF Owning
<1>2. r \in RunIds
  BY DEF Types, Jobs
<1>3. CASE AcquireRun(w) /\ v = w
  <2>1. record'[r] = [NoRun EXCEPT !.status = "running", !.started = job[w].now]
    BY <1>2, <1>3 DEF AcquireRun, Types
  <2>2. record'[r].status = "running"
    BY <2>1 DEF NoRun
  <2>. QED BY <1>1, <2>2
<1>4. CASE Owning(v)
  <2>1. record[r].status \in {"running", "interrupted"}
    BY <1>4 DEF OwnedIsOpen, Mine
  <2>2. ~Concluded(w, r)
    <3>1. pc[w] = "fail" \/ AllDone(w) => Owning(w) /\ ~Owning(w)'
      BY FinishEnds DEF Owning, AllDone
    <3>2. Concluded(w, r) => (pc[w] = "fail" \/ AllDone(w)) /\ r = job[w].run
      BY DEF Concluded, FinishedAs
    <3>3. Owning(w) /\ r = job[w].run => v = w
      BY <1>4 DEF OneOwner
    <3>4. v # w \/ Owning(w)'
      OBVIOUS
    <3>. QED BY <3>1, <3>2, <3>3, <3>4
  <2>3. record'[r] = record[r] \/ GivenUp(r) \/ Claimed(w, r)
    BY <1>2, <2>2, RecordSteps DEF Changed
  <2>. QED BY <1>1, <2>1, <2>3 DEF GivenUp, Claimed
<1>. QED BY <1>1, <1>3, <1>4

LEMMA RecordsStep ==
  ASSUME IInv, NEW w \in Workers, WorkerStep(w)
  PROVE  NoResultYet' /\ NothingStored'
<1>. USE DEF IInv
<1>1. NoResultYet'
  <2>. SUFFICES ASSUME NEW r \in RunIds, record'[r].status \in Unfinished
                PROVE  record'[r].result = <<>>
    BY DEF NoResultYet, Unfinished
  <2>1. ~Concluded(w, r)
    <3>1. job[w].stages \in Seq(StageResults)
      BY DEF Types, Jobs
    <3>. QED BY <3>1, VerdictType DEF Concluded, FinishedAs, Unfinished
  <2>2. record'[r] = record[r] \/ GivenUp(r) \/ Claimed(w, r)
    BY <2>1, RecordSteps DEF Changed
  <2>. QED BY <2>2 DEF NoResultYet, Unfinished, GivenUp, Claimed
<1>2. NothingStored'
  <2>. SUFFICES ASSUME NEW r \in RunIds, record'[r].status = "none"
                PROVE  items'[r] = {}
    BY DEF NothingStored
  <2>1. record[r].status = "none"
    <3>1. job[w].stages \in Seq(StageResults)
      BY DEF Types, Jobs
    <3>2. record'[r] = record[r] \/ Changed(w, r)
      BY RecordSteps
    <3>. QED BY <3>1, <3>2, VerdictType DEF Changed, GivenUp, Claimed, Concluded, FinishedAs
  <2>2. items[r] = {}
    BY <2>1 DEF NothingStored
  <2>3. CASE UpsertRunItem(w)
    BY <2>1, <2>2, <2>3, Upserted DEF OwnedIsOpen, Mine
  <2>. QED BY <2>2, <2>3, ItemsSteps
<1>. QED BY <1>1, <1>2

LEMMA StoredStep ==
  ASSUME IInv, NEW w \in Workers, WorkerStep(w)
  PROVE  Stored'
<1>. USE DEF IInv
<1>1. ASSUME NEW v \in Workers \ {w}
      PROVE  StoredItems(v)'
  <2>. SUFFICES ASSUME Owning(v)
                PROVE  StoredItems(v)'
    BY OthersRest DEF StoredItems, Owning
  <2>1. job[v].run \in RunIds /\ StoredItems(v)
    BY DEF Types, Jobs, Stored
  <2>2. items'[job[v].run] = items[job[v].run]
    BY <2>1, ItemsSteps, Upserted DEF OneOwner
  <2>. QED BY <2>1, <2>2, OthersRest DEF StoredItems, Owning
<1>2. StoredItems(w)'
  <2>. SUFFICES ASSUME Owning(w)'
                PROVE  StoredItems(w)'
    BY DEF StoredItems
  <2>0. /\ Types /\ StagesDone(w) /\ job[w] \in Jobs /\ job[w].run \in RunIds
        /\ job[w].stages \in Seq(StageResults) /\ job[w].stored \in Nat
    BY DEF Types, Jobs, WorkersOK
  <2>1. CASE AcquireRun(w)
    <3>1. job' = job /\ job[w].stages = <<>> /\ items' = items /\ items[job[w].run] = {}
      BY <2>0, <2>1 DEF AcquireRun, StagesDone, Owning, Mine, NothingStored
    <3>2. ItemsSoFar(<<>>, job[w].stored) = {}
      BY DEF ItemsSoFar, ItemsOf
    <3>. QED BY <3>1, <3>2 DEF StoredItems
  <2>2. CASE RunStage(w)
    <3>1. PICK s \in StageResults : job'[w].stages = Append(job[w].stages, s)
      BY <2>0, <2>2, Staged
    <3>2. job'[w].stored = 0 /\ job'[w].run = job[w].run /\ items' = items /\ ~ItemDue(w) /\ pc[w] = "work"
      BY <2>0, <2>2, Staged
    <3>3. ItemsSoFar(Append(job[w].stages, s), 0) = ItemsSoFar(job[w].stages, job[w].stored)
      BY <2>0, <3>2, StageMore DEF ItemDue
    <3>. QED BY <3>1, <3>2, <3>3 DEF Stored, StoredItems, Owning
  <2>3. CASE UpsertRunItem(w)
    <3>. DEFINE i == Len(job[w].stages)
                k == job[w].stored + 1
                x == <<i, k, job[w].stages[i].items[k]>>
    <3>1. /\ items'[job[w].run] = items[job[w].run] \cup {x} /\ Owning(w) /\ ItemDue(w)
          /\ job'[w].run = job[w].run /\ job'[w].stages = job[w].stages /\ job'[w].stored = k
      BY <2>3, Upserted
    <3>2. job[w].stages # <<>> /\ job[w].stored < Len(job[w].stages[i].items)
      BY <2>0, <3>1 DEF ItemDue
    <3>3. ItemsSoFar(job[w].stages, k) = ItemsSoFar(job[w].stages, job[w].stored) \cup {x}
      BY <2>0, <3>2, ItemMore
    <3>. QED BY <3>1, <3>3 DEF Stored, StoredItems
  <2>4. CASE UpsertFails(w)
    <3>1. job' = job /\ items' = items /\ Owning(w)
      BY <2>0, <2>4 DEF UpsertFails, Owning, durable
    <3>. QED BY <3>1 DEF Stored, StoredItems
  <2>5. AcquireRun(w) \/ RunStage(w) \/ UpsertRunItem(w) \/ UpsertFails(w)
    <3>1. Owning(w) \/ AcquireRun(w)
      BY <2>0, Owners
    <3>2. ~End(w)
      BY <2>0, Ended DEF Owning
    <3>. QED BY <3>1, <3>2 DEF Owning, WorkerStep, Enter, Perform, Crash, Invoke, StartCommand, Replay, Inspect,
                               RecoverInterruptedRuns, NotAcquired, Finish, FailRun, StoreFails
  <2>. QED BY <2>1, <2>2, <2>3, <2>4, <2>5
<1>. QED BY <1>1, <1>2 DEF Stored

LEMMA ResultIsCompleteStep ==
  ASSUME IInv, NEW w \in Workers, WorkerStep(w)
  PROVE  ResultIsComplete'
<1>. USE DEF IInv
<1>. SUFFICES ASSUME NEW d \in Days
              PROVE  LET r == record'[DailyRun(d)]
                     IN /\ r.status \in {"completed", "partial"} => Len(r.result) = StageCount
                        /\ r.result # <<>> => items'[DailyRun(d)] = ItemsOf(r.result)
  BY DEF ResultIsComplete
<1>. DEFINE run == DailyRun(d)
<1>0. run \in RunIds /\ run \in DailyRuns
  BY RunIdFacts DEF DailyRuns
<1>. HIDE DEF run
<1>1. CASE record'[run] = record[run]
  <2>1. record[run].result # <<>> => items'[run] = items[run]
    BY <1>0, ItemsSteps, Upserted DEF OwnedIsOpen, Mine, NoResultYet, Unfinished
  <2>. QED BY <1>1, <2>1 DEF ResultIsComplete, run
<1>2. CASE GivenUp(run) \/ Claimed(w, run)
  <2>1. record'[run].status \in {"running", "interrupted"} /\ record'[run].result = <<>>
    BY <1>0, <1>2 DEF GivenUp, Claimed, NoResultYet, Unfinished
  <2>. QED BY <2>1 DEF run
<1>3. CASE AllDone(w) /\ FinishedAs(w, run, Verdict(job[w].stages),
                                    IF w \in Services THEN job[w].stages ELSE <<>>)
  <2>1. w \notin Commands /\ w \in Services /\ job[w].run = run
    BY <1>0, <1>3, RunIdFacts DEF WorkersOK, RunOfWorker, FinishedAs, Workers, AllDone
  <2>2. /\ record'[run].result = job[w].stages
        /\ job[w].stages \in Seq(StageResults) /\ job[w].stored \in Nat
    BY <1>3, <2>1 DEF FinishedAs, Types, Jobs
  <2>3. Len(job[w].stages) = StageCount
    BY <1>3, <2>1 DEF AllDone, StagesOf
  <2>4. items[run] = ItemsSoFar(job[w].stages, job[w].stored)
    BY <1>3, <2>1 DEF Stored, StoredItems, Owning, AllDone
  <2>5. ItemsSoFar(job[w].stages, job[w].stored) = ItemsOf(job[w].stages)
    BY <1>3, <2>2, AllStored DEF AllDone, ItemDue
  <2>6. items'[run] = items[run]
    BY <1>3, ItemsSteps DEF UpsertRunItem, AllDone
  <2>. QED BY <2>2, <2>3, <2>4, <2>5, <2>6 DEF run
<1>4. CASE pc[w] = "fail" /\ FinishedAs(w, run, "failed", <<>>)
  <2>1. record'[run].status = "failed" /\ record'[run].result = <<>>
    BY <1>4 DEF FinishedAs
  <2>. QED BY <2>1 DEF run
<1>. QED BY <1>0, <1>1, <1>2, <1>3, <1>4, RecordSteps DEF Changed, Concluded

LEMMA TickStep == IInv /\ Tick => IInv'
<1>. SUFFICES ASSUME IInv, Tick PROVE IInv'
  OBVIOUS
<1>1. clock' \in Clocks
  BY TimesAssumption DEF IInv, Types, Tick, Clocks, Days
<1>2. UNCHANGED <<record, items, pc, job>>
  BY DEF Tick, durable
<1>. QED BY <1>1, <1>2 DEF IInv, Types, WorkersOK, RunOfWorker, StagesDone, OneOwner, OwnedIsOpen, Owning, Mine,
       NoResultYet, NothingStored, Stored, StoredItems, ResultIsComplete, LastItems

LEMMA StutterStep == IInv /\ UNCHANGED vars => IInv'
BY DEF vars, IInv, Types, WorkersOK, RunOfWorker, StagesDone, OneOwner, OwnedIsOpen, Owning, Mine,
       NoResultYet, NothingStored, Stored, StoredItems, ResultIsComplete, LastItems

LEMMA NextStep == IInv /\ [Next]_vars => IInv'
<1>. SUFFICES ASSUME IInv, [Next]_vars PROVE IInv'
  OBVIOUS
<1>1. CASE \E w \in Workers : WorkerStep(w)
  BY <1>1, TypesStep, WorkersStep, OneOwnerStep, OwnedIsOpenStep, RecordsStep, StoredStep, ResultIsCompleteStep
  DEF IInv
<1>. QED BY <1>1, TickStep, StutterStep DEF Next, WorkerStep

-----------------------------------------------------------------------------
(* Theorems.                                                               *)

LEMMA Inductive == Spec => []IInv
BY InitIInv, NextStep, PTL DEF Spec

(* Every variable keeps its type, and whoever performs a run has a record  *)
(* of it in the store.                                                     *)
THEOREM TypeCorrect == Spec => []TypeOK
<1>1. IInv => TypeOK
  BY DEF IInv, Types, OwnedIsOpen, TypeOK
<1>. QED BY <1>1, Inductive, PTL

(* A run is performed by one worker, whoever gave it up meanwhile: no two  *)
(* processes perform the run of one day (AcquireRun).                      *)
THEOREM OneOwnerOfRun == Spec => []OneOwner
<1>1. IInv => OneOwner
  BY DEF IInv
<1>. QED BY <1>1, Inductive, PTL

(* The result of a day has every stage, and what is stored of the day are  *)
(* exactly the items its stages came to (UpsertRunItem, failRun).          *)
THEOREM CompleteResults == Spec => []ResultIsComplete
<1>1. IInv => ResultIsComplete
  BY DEF IInv
<1>. QED BY <1>1, Inductive, PTL

(* The record of a finished or interrupted run never changes again.        *)
THEOREM FinalRecords == Spec => FinishedIsFinal
<1>1. IInv /\ [Next]_vars => [\A r \in RunIds : record[r].status \in Terminal => record'[r] = record[r]]_vars
  <2>. SUFFICES ASSUME IInv, Next, NEW r \in RunIds, record[r].status \in Terminal
                PROVE  record'[r] = record[r]
    BY DEF vars
  <2>1. CASE Tick
    BY <2>1 DEF Tick, durable
  <2>2. ASSUME NEW w \in Workers, WorkerStep(w)
        PROVE  record'[r] = record[r]
    <3>1. record'[r] = record[r] \/ Changed(w, r)
      BY <2>2, RecordSteps DEF IInv
    <3>. QED BY <3>1 DEF Changed, GivenUp, Claimed, Concluded, FinishedAs, Terminal
  <2>. QED BY <2>1, <2>2 DEF Next, WorkerStep
<1>. QED BY <1>1, Inductive, PTL DEF Spec, FinishedIsFinal
=============================================================================
