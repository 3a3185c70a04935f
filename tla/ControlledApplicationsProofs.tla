---------------------- MODULE ControlledApplicationsProofs ----------------------
(***************************************************************************)
(* Proofs for ControlledApplications: types, one POST per approval file,   *)
(* one exposure per vacancy, batches that never send past an application   *)
(* that is not settled, and the refinement of OneResponse, for any         *)
(* commands, files and artifacts.                                          *)
(***************************************************************************)
EXTENDS ControlledApplications, FiniteSetTheorems, TLAPS

-----------------------------------------------------------------------------
(* Type correctness.                                                       *)

(* A command between the load of its approval and the end of its item has  *)
(* a path and an artifact.                                                 *)
HasPath == {"load", "lock", "check", "write", "unlock", "reserve", "send", "wait", "record", "reconcile"}
HasNonce == HasPath \ {"load"}

Real(i, s) ==
  /\ s \in HasPath => i.path \in Files
  /\ s \in HasNonce => i.approval.nonce \in Nonces
  /\ s = "record" => i.class \in Classes
ItemIsReal == \A p \in Commands : Real(item[p], pc[p])

(* The part of the invariant a command's own fields are in.                *)
OwnTyped == item \in [Commands -> Items] /\ pc \in [Commands -> Steps] /\ ItemIsReal
Typed == TypeOK /\ batch \in [Commands -> Seq(Files)] /\ ItemIsReal

(* The items a command starts from.                                        *)
LEMMA NoItemType == NoItem \in Items /\ \A f \in Files : [NoItem EXCEPT !.path = f] \in Items
BY DEF NoItem, Items, NoApproval, Approvals, Classes

(* A failure touches nothing else of an item.                              *)
LEMMA FailedItem ==
  ASSUME NEW i \in Items, NEW b \in BOOLEAN
  PROVE  LET j == [i EXCEPT !.failed = b] IN
         j \in Items /\ j.path = i.path /\ j.approval = i.approval /\ j.class = i.class
BY DEF Items

(* A command that changes its item, keeps it, fails it, or blocks.         *)
LEMMA ItemMoves ==
  ASSUME OwnTyped, NEW p \in Commands, NEW i \in Items, NEW s \in Steps, Real(i, s),
         item' = [item EXCEPT ![p] = i], Goto(p, s)
  PROVE  OwnTyped'
BY DEF OwnTyped, ItemIsReal, Goto

LEMMA ItemRests ==
  ASSUME OwnTyped, NEW p \in Commands, NEW s \in Steps, Real(item[p], s), UNCHANGED item, Goto(p, s)
  PROVE  OwnTyped'
BY DEF OwnTyped, ItemIsReal, Goto

LEMMA ItemFails ==
  ASSUME OwnTyped, NEW p \in Commands, NEW b \in BOOLEAN, NEW s \in Steps, Real(item[p], s),
         item' = [item EXCEPT ![p].failed = b], Goto(p, s)
  PROVE  OwnTyped'
<1>. DEFINE j == [item[p] EXCEPT !.failed = b]
<1>1. item[p] \in Items
  BY DEF OwnTyped
<1>2. j \in Items /\ j.path = item[p].path /\ j.approval = item[p].approval /\ j.class = item[p].class
  BY <1>1, FailedItem
<1>3. item' = [item EXCEPT ![p] = j]
  OBVIOUS
<1>4. Real(j, s)
  BY <1>2 DEF Real
<1>. QED BY <1>2, <1>3, <1>4, ItemMoves

LEMMA BlockKeeps ==
  ASSUME OwnTyped, NEW p \in Commands, Block(p)
  PROVE  OwnTyped'
BY ItemFails DEF Block, Real, HasPath, HasNonce, Steps

(* Every action keeps the types.                                           *)
LEMMA InitTyped == Init => Typed
BY NoItemType, ItemsAssumption, BoundsAssumption
   DEF Init, Typed, TypeOK, NoApproval, Approvals, States, Steps, ItemIsReal, Real, HasPath, HasNonce

LEMMA TypedOwn == Typed => OwnTyped
BY DEF Typed, TypeOK, OwnTyped

LEMMA StartTyped ==
  ASSUME Typed, NEW p \in Commands, Start(p)
  PROVE  Typed'
<1>1. PICK paths \in UNION {[1..k -> Files] : k \in 1..MaxItems} :
        batch' = [batch EXCEPT ![p] = paths]
  BY DEF Start
<1>2. paths \in Seq(Files) /\ Len(paths) <= MaxItems
  <2>1. PICK k \in 1..MaxItems : paths \in [1..k -> Files]
    BY <1>1
  <2>. QED BY <2>1, ItemsAssumption
<1>3. batch' \in [Commands -> Seq(Files)] /\ \A q \in Commands : Len(batch'[q]) <= MaxItems
  BY <1>1, <1>2 DEF Typed, TypeOK
<1>4. OwnTyped'
  BY TypedOwn, ItemRests DEF Start, Real, HasPath, HasNonce, Steps
<1>5. runs' \in 0..MaxRuns
  BY BoundsAssumption DEF Start, Typed, TypeOK
<1>. QED
  BY <1>3, <1>4, <1>5 DEF Start, Typed, TypeOK, OwnTyped, durable, provider

LEMMA LeaveTyped ==
  ASSUME Typed, NEW p \in Commands, EndBatch(p) \/ Crash(p)
  PROVE  Typed'
<1>1. Leave(p)
  BY DEF EndBatch, Crash
<1>2. OwnTyped'
  BY <1>1, TypedOwn, NoItemType, ItemMoves DEF Leave, Real, HasPath, HasNonce, Steps
<1>3. <<>> \in Seq(Files) /\ Len(<<>>) <= MaxItems
  BY ItemsAssumption
<1>4. batch' \in [Commands -> Seq(Files)] /\ \A q \in Commands : Len(batch'[q]) <= MaxItems
  BY <1>1, <1>3 DEF Leave, Typed, TypeOK
<1>5. crashes' \in 0..MaxCrashes
  BY BoundsAssumption DEF EndBatch, Crash, Typed, TypeOK
<1>. QED
  BY <1>1, <1>2, <1>4, <1>5 DEF Leave, Typed, TypeOK, OwnTyped, durable, provider

LEMMA NextItemTyped ==
  ASSUME Typed, NEW p \in Commands, NextItem(p)
  PROVE  Typed'
<1>1. Head(batch[p]) \in Files /\ Tail(batch[p]) \in Seq(Files) /\ Len(Tail(batch[p])) <= MaxItems
  BY ItemsAssumption DEF NextItem, Typed, TypeOK
<1>. DEFINE i == [NoItem EXCEPT !.path = Head(batch[p])]
<1>2. i \in Items /\ i.path = Head(batch[p])
  BY <1>1, NoItemType DEF NoItem
<1>3. Real(i, "load")
  BY <1>1, <1>2 DEF Real, HasPath, HasNonce
<1>4. OwnTyped'
  <2>1. "load" \in Steps /\ item' = [item EXCEPT ![p] = i] /\ Goto(p, "load")
    BY DEF NextItem, Steps
  <2>. HIDE DEF i
  <2>. QED BY <1>2, <1>3, <2>1, TypedOwn, ItemMoves
<1>5. batch' \in [Commands -> Seq(Files)] /\ \A q \in Commands : Len(batch'[q]) <= MaxItems
  BY <1>1 DEF NextItem, Typed, TypeOK
<1>. QED
  BY <1>4, <1>5 DEF NextItem, Typed, TypeOK, OwnTyped, durable, provider

LEMMA NonceTyped ==
  ASSUME Typed, NEW p \in Commands,
         Prepare(p) \/ LockNonce(p) \/ CheckNonce(p) \/ WriteNonce(p) \/ UnlockNonce(p)
  PROVE  Typed'
<1>0. OwnTyped /\ item[p] \in Items /\ Real(item[p], pc[p])
  BY TypedOwn DEF OwnTyped, ItemIsReal
<1>. USE DEF Steps, HasPath, HasNonce
<1>1. CASE Prepare(p)
  <2>. DEFINE approval == file[item[p].path]
  <2>1. item[p].path \in Files /\ approval \in Approvals
    BY <1>0, <1>1 DEF Prepare, Real, Typed, TypeOK
  <2>2. ASSUME Block(p)
        PROVE  OwnTyped'
    BY <1>0, <2>2, BlockKeeps
  <2>3. ASSUME Executable(approval), item' = [item EXCEPT ![p].approval = approval], Goto(p, "lock")
        PROVE  OwnTyped'
    <3>. DEFINE i == [item[p] EXCEPT !.approval = approval]
    <3>1. i \in Items /\ i.path = item[p].path /\ i.approval = approval
      BY <1>0, <2>1 DEF Items
    <3>2. approval.nonce \in Nonces
      BY <2>1, <2>3 DEF Executable, Approvals
    <3>3. Real(i, "lock")
      BY <2>1, <3>1, <3>2 DEF Real
    <3>4. item' = [item EXCEPT ![p] = i]
      BY <2>3
    <3>. HIDE DEF i
    <3>. QED BY <1>0, <2>3, <3>1, <3>3, <3>4, ItemMoves
  <2>4. OwnTyped'
    BY <1>1, <2>2, <2>3 DEF Prepare
  <2>. QED BY <1>1, <2>4 DEF Prepare, Typed, TypeOK, OwnTyped, durable, provider
<1>2. CASE LockNonce(p)
  <2>1. OwnTyped'
    BY <1>0, <1>2, BlockKeeps, ItemRests DEF LockNonce, Real
  <2>2. lock' \in [Files -> Commands \cup {None}]
    BY <1>2 DEF LockNonce, Typed, TypeOK
  <2>. QED BY <1>2, <2>1, <2>2 DEF LockNonce, Typed, TypeOK, OwnTyped, provider
<1>3. CASE CheckNonce(p)
  <2>1. OwnTyped'
    BY <1>0, <1>3, ItemFails, ItemRests DEF CheckNonce, Real
  <2>. QED BY <1>3, <2>1 DEF CheckNonce, Typed, TypeOK, OwnTyped, durable, provider
<1>4. CASE WriteNonce(p)
  <2>1. OwnTyped'
    BY <1>0, <1>4, ItemFails, ItemRests DEF WriteNonce, Real
  <2>2. [item[p].approval EXCEPT !.used = TRUE] \in Approvals
    BY <1>0 DEF Items, Approvals
  <2>3. file' \in [Files -> Approvals]
    BY <1>4, <2>2 DEF WriteNonce, Typed, TypeOK
  <2>. QED BY <1>4, <2>1, <2>3 DEF WriteNonce, Typed, TypeOK, OwnTyped, provider
<1>5. CASE UnlockNonce(p)
  <2>1. OwnTyped'
    BY <1>0, <1>5, ItemRests DEF UnlockNonce, Real
  <2>2. lock' \in [Files -> Commands \cup {None}]
    BY <1>5 DEF UnlockNonce, Typed, TypeOK
  <2>. QED BY <1>5, <2>1, <2>2 DEF UnlockNonce, Typed, TypeOK, OwnTyped, provider
<1>. QED BY <1>1, <1>2, <1>3, <1>4, <1>5

LEMMA AttemptTyped ==
  ASSUME Typed, NEW p \in Commands,
         Reserve(p) \/ Refuse(p) \/ Post(p) \/ Answer(p) \/ RecordOutcome(p) \/ Reconcile(p)
  PROVE  Typed'
<1>0. OwnTyped /\ item[p] \in Items /\ Real(item[p], pc[p])
  BY TypedOwn DEF OwnTyped, ItemIsReal
<1>00. /\ attempt \in [Vacancies -> States]
       /\ pc[p] \in HasNonce => Nonce(p) \in Nonces /\ Vacancy(p) \in Vacancies
  BY <1>0 DEF Typed, TypeOK, Real, Vacancy, Nonce, Vacancies
<1>. USE DEF Steps, HasPath, HasNonce
<1>1. CASE Reserve(p)
  <2>1. OwnTyped'
    BY <1>0, <1>1, BlockKeeps, ItemRests DEF Reserve, Real
  <2>2. attempt' \in [Vacancies -> States]
    BY <1>00, <1>1 DEF Reserve, States
  <2>. QED BY <1>1, <2>1, <2>2 DEF Reserve, Typed, TypeOK, OwnTyped, provider
<1>2. CASE Refuse(p)
  <2>1. OwnTyped'
    BY <1>0, <1>2, BlockKeeps DEF Refuse
  <2>2. attempt' \in [Vacancies -> States]
    BY <1>00, <1>2 DEF Refuse, States
  <2>. QED BY <1>2, <2>1, <2>2 DEF Refuse, Typed, TypeOK, OwnTyped, provider
<1>3. CASE Post(p)
  <2>. DEFINE i == [item[p] EXCEPT !.tried = TRUE]
  <2>1. i \in Items /\ i.path = item[p].path /\ i.approval = item[p].approval
    BY <1>0 DEF Items
  <2>2. Real(i, "wait") /\ item' = [item EXCEPT ![p] = i] /\ Goto(p, "wait")
    BY <1>0, <1>3, <2>1 DEF Post, Real
  <2>3. OwnTyped'
    <3>. HIDE DEF i
    <3>. QED BY <1>0, <2>1, <2>2, ItemMoves
  <2>4. /\ post' \in [Nonces -> {"none", "inflight", "delivered", "duplicate", "refused"}]
        /\ posts' \in [Nonces -> Nat] /\ sent' \in [Commands -> SUBSET Vacancies]
    BY <1>00, <1>3 DEF Post, Typed, TypeOK
  <2>. QED BY <1>3, <2>3, <2>4 DEF Post, Typed, TypeOK, OwnTyped, durable
<1>4. CASE Answer(p)
  <2>1. PICK class \in ClassesFor(p) :
          item' = [item EXCEPT ![p].class = class, ![p].failed = class # "SUCCESS"]
    BY <1>4 DEF Answer
  <2>2. class \in Classes
    BY DEF ClassesFor, Classes
  <2>. DEFINE b == class # "SUCCESS"
              i == [item[p] EXCEPT !.class = class, !.failed = b]
  <2>3. b \in BOOLEAN /\ item' = [item EXCEPT ![p] = i]
    BY <2>1
  <2>4. i \in Items /\ i.path = item[p].path /\ i.approval = item[p].approval /\ i.class = class
    <3>. HIDE DEF b
    <3>. QED BY <1>0, <2>2, <2>3 DEF Items
  <2>5. Real(i, "record") /\ Goto(p, "record")
    <3>. HIDE DEF i
    <3>. QED BY <1>0, <1>4, <2>2, <2>4 DEF Answer, Real
  <2>6. OwnTyped'
    <3>. HIDE DEF i
    <3>. QED BY <1>0, <2>3, <2>4, <2>5, ItemMoves
  <2>. QED BY <1>4, <2>6 DEF Answer, Typed, TypeOK, OwnTyped, durable, provider
<1>5. CASE RecordOutcome(p)
  <2>1. OwnTyped'
    BY <1>0, <1>5, ItemFails, ItemRests DEF RecordOutcome, Real
  <2>2. StateFor(item[p].class) \in States
    BY <1>0, <1>5 DEF RecordOutcome, StateFor, Classes, States, Real
  <2>3. attempt' \in [Vacancies -> States]
    BY <1>00, <1>5, <2>2 DEF RecordOutcome
  <2>. QED BY <1>5, <2>1, <2>3 DEF RecordOutcome, Typed, TypeOK, OwnTyped, provider
<1>6. CASE Reconcile(p)
  <2>1. PICK b \in BOOLEAN, c \in BOOLEAN : item' = [item EXCEPT ![p].confirmed = c, ![p].failed = b]
    <3>1. CASE Confirms(p)
      <4>1. \/ \E f \in BOOLEAN : item' = [item EXCEPT ![p].confirmed = TRUE, ![p].failed = @ \/ f]
            \/ item' = [item EXCEPT ![p].confirmed = TRUE, ![p].failed = TRUE]
        BY <3>1 DEF Confirms
      <4>. QED BY <4>1, <1>0 DEF Items
    <3>2. CASE Unconfirmed(p)
      <4>1. PICK f \in BOOLEAN : item' = [item EXCEPT ![p].failed = @ \/ f]
        BY <3>2 DEF Unconfirmed
      <4>2. item' = [item EXCEPT ![p].confirmed = item[p].confirmed, ![p].failed = item[p].failed \/ f]
        BY <4>1, <1>0 DEF Items, OwnTyped
      <4>. QED BY <4>2, <1>0 DEF Items
    <3>. QED BY <1>6, <3>1, <3>2 DEF Reconcile
  <2>. DEFINE i == [item[p] EXCEPT !.confirmed = c, !.failed = b]
  <2>2. i \in Items
    BY <1>0 DEF Items
  <2>3. Real(i, "next") /\ item' = [item EXCEPT ![p] = i] /\ Goto(p, "next")
    BY <1>6, <2>1 DEF Reconcile, Real
  <2>4. OwnTyped'
    <3>. HIDE DEF i
    <3>. QED BY <1>0, <2>2, <2>3, ItemMoves
  <2>5. attempt' \in [Vacancies -> States]
    BY <1>00, <1>6 DEF Reconcile, Confirms, Unconfirmed, States
  <2>. QED BY <1>6, <2>4, <2>5 DEF Reconcile, Typed, TypeOK, OwnTyped, provider
<1>. QED BY <1>1, <1>2, <1>3, <1>4, <1>5, <1>6

LEMMA ProviderTyped ==
  ASSUME Typed, Provider
  PROVE  Typed'
BY DEF Provider, Deliver, Turndown, Typed, TypeOK, ItemIsReal, durable, provider

LEMMA ExportTyped ==
  ASSUME Typed, NEW f \in Files, NEW n \in Nonces, Export(f, n)
  PROVE  Typed'
BY BoundsAssumption DEF Export, Typed, TypeOK, ItemIsReal, Approvals, durable, provider

LEMMA NextTyped == Typed /\ [Next]_vars => Typed'
<1>. SUFFICES ASSUME Typed, [Next]_vars
              PROVE  Typed'
  OBVIOUS
<1>1. CASE UNCHANGED vars
  BY <1>1 DEF vars, durable, provider, Typed, TypeOK, ItemIsReal
<1>2. ASSUME NEW p \in Commands, Command(p)
      PROVE  Typed'
  BY <1>2, StartTyped, LeaveTyped, NextItemTyped, NonceTyped, AttemptTyped DEF Command
<1>. QED BY <1>1, <1>2, ProviderTyped, ExportTyped DEF Next

(* The types and what commands have in hand, always.                       *)
LEMMA TypedAlways == Spec => []Typed
BY InitTyped, NextTyped, PTL DEF Spec

(* Files, attempts, POSTs and commands stay well formed (TypeOK).          *)
THEOREM TypeCorrect == Spec => []TypeOK
<1>1. Typed => TypeOK
  BY DEF Typed
<1>. QED BY <1>1, TypedAlways, PTL

-----------------------------------------------------------------------------
(* One exposure per vacancy.                                               *)

(* A command that has reserved its vacancy and is not done with it.        *)
Sending == {"send", "wait", "record"}
Holding == Sending \cup {"reconcile"}
Holds(p) == pc[p] \in Holding

ExposedIsBlocking == \A n \in Nonces : Exposed(n) => IsBlocking(attempt[VacancyOf[n]])

OneHolder == \A p, q \in Commands : Holds(p) /\ Holds(q) /\ Vacancy(p) = Vacancy(q) => p = q

HolderIsReserved ==
  \A p \in Commands :
    /\ pc[p] \in Sending => attempt[Vacancy(p)] = "SENDING"
    /\ Holds(p) => IsBlocking(attempt[Vacancy(p)])

(* What is exposed of the vacancy of a holder is its own POST.             *)
HolderExposes ==
  \A p \in Commands :
    /\ Holds(p) => \A n \in Nonces :
                     Exposed(n) /\ VacancyOf[n] = Vacancy(p) => n = Nonce(p) /\ pc[p] # "send"
    /\ pc[p] = "record" /\ item[p].class \notin Reconciled => ~Exposed(Nonce(p))

(* Of the artifacts of a vacancy one is exposed.                           *)
ExposedApart ==
  \A n, m \in Nonces : Exposed(n) /\ Exposed(m) /\ VacancyOf[n] = VacancyOf[m] => n = m

Exposure == ExposedIsBlocking /\ OneHolder /\ HolderIsReserved /\ HolderExposes /\ ExposedApart

(* A command changes nothing of the others.                                *)
OthersRest(p) ==
  \A q \in Commands \ {p} : pc'[q] = pc[q] /\ item'[q] = item[q] /\ sent'[q] = sent[q]

(* The actions of a command are its own.                                   *)
LEMMA CommandsApart ==
  ASSUME Typed, NEW p \in Commands, Command(p)
  PROVE  OthersRest(p)
<1>. USE DEF OthersRest, Typed, TypeOK, Goto
<1>1. CASE Start(p) \/ NextItem(p)
  BY <1>1 DEF Start, NextItem
<1>2. CASE EndBatch(p) \/ Crash(p)
  BY <1>2 DEF EndBatch, Crash, Leave
<1>3. CASE Prepare(p) \/ LockNonce(p) \/ CheckNonce(p) \/ WriteNonce(p) \/ UnlockNonce(p)
  BY <1>3 DEF Prepare, LockNonce, CheckNonce, WriteNonce, UnlockNonce, Block
<1>4. CASE Reserve(p) \/ Refuse(p) \/ Post(p)
  BY <1>4 DEF Reserve, Refuse, Post, Block
<1>5. CASE Answer(p) \/ RecordOutcome(p) \/ Reconcile(p)
  BY <1>5 DEF Answer, RecordOutcome, Reconcile, Confirms, Unconfirmed
<1>. QED BY <1>1, <1>2, <1>3, <1>4, <1>5 DEF Command

(* Where a command that reserves nothing goes.                             *)
LEMMA QuietSteps ==
  ASSUME Typed, NEW p \in Commands,
         \/ Start(p) \/ NextItem(p) \/ EndBatch(p) \/ Crash(p)
         \/ Prepare(p) \/ LockNonce(p) \/ CheckNonce(p) \/ WriteNonce(p) \/ UnlockNonce(p)
  PROVE  UNCHANGED <<attempt, provider>> /\ pc'[p] \notin Holding
<1>. USE DEF Typed, TypeOK, Goto, Sending, Holding, durable, provider
<1>1. CASE Start(p) \/ NextItem(p) \/ EndBatch(p) \/ Crash(p)
  BY <1>1 DEF Start, NextItem, EndBatch, Crash, Leave
<1>2. CASE Prepare(p) \/ LockNonce(p) \/ CheckNonce(p) \/ WriteNonce(p) \/ UnlockNonce(p)
  BY <1>2 DEF Prepare, LockNonce, CheckNonce, WriteNonce, UnlockNonce, Block
<1>. QED BY <1>1, <1>2

(* Such a step keeps what is known of the others.                          *)
LEMMA QuietKeepsExposure ==
  ASSUME Exposure, NEW p \in Commands, OthersRest(p), UNCHANGED <<attempt, post>>, pc'[p] \notin Holding
  PROVE  Exposure'
<1>. USE DEF Exposure, OthersRest, Exposed
<1>1. ExposedIsBlocking' /\ ExposedApart'
  BY DEF ExposedIsBlocking, ExposedApart
<1>2. OneHolder'
  BY DEF OneHolder, Holds, Vacancy, Nonce
<1>3. HolderIsReserved'
  BY DEF HolderIsReserved, Holds, Holding, Sending, Vacancy, Nonce
<1>4. HolderExposes'
  BY DEF HolderExposes, Holds, Holding, Sending, Vacancy, Nonce
<1>. QED BY <1>1, <1>2, <1>3, <1>4

(* A command past the load has a vacancy.                                  *)
LEMMA VacancyType ==
  ASSUME Typed, NEW p \in Commands, pc[p] \in HasNonce
  PROVE  Nonce(p) \in Nonces /\ Vacancy(p) \in Vacancies
BY DEF Typed, ItemIsReal, Real, Nonce, Vacancy, Vacancies

(* A reservation: nothing of the vacancy blocks, so nothing is exposed and *)
(* nobody holds it.                                                        *)
LEMMA ReserveKeepsExposure ==
  ASSUME Typed, Exposure, NEW p \in Commands, Reserve(p)
  PROVE  Exposure'
<1>. USE DEF Exposure, Sending, Holding
<1>0. OthersRest(p)
  BY CommandsApart DEF Command
<1>1. CASE Block(p) /\ UNCHANGED attempt
  <2>1. UNCHANGED <<attempt, post>> /\ pc'[p] \notin Holding
    BY <1>1 DEF Reserve, Block, Goto, Typed, TypeOK, provider
  <2>. QED BY <1>0, <2>1, QuietKeepsExposure
<1>2. CASE ~(Block(p) /\ UNCHANGED attempt)
  <2>. DEFINE v == Vacancy(p)
  <2>1. ~IsBlocking(attempt[v]) /\ attempt' = [attempt EXCEPT ![v] = "SENDING"] /\ Goto(p, "send")
        /\ UNCHANGED <<item, post>>
    BY <1>2 DEF Reserve, Reservable, provider
  <2>2. v \in Vacancies /\ attempt \in [Vacancies -> States] /\ pc'[p] = "send"
    BY <2>1, VacancyType DEF Reserve, HasNonce, HasPath, Typed, TypeOK, Goto
  <2>3. Vacancy(p)' = v /\ Nonce(p)' = Nonce(p) /\ \A n \in Nonces : Exposed(n)' <=> Exposed(n)
    BY <2>1 DEF Vacancy, Nonce, Exposed
  <2>4. /\ \A n \in Nonces : VacancyOf[n] = v => ~Exposed(n)
        /\ \A q \in Commands : Holds(q) => Vacancy(q) # v
    BY <2>1 DEF ExposedIsBlocking, HolderIsReserved
  <2>5. attempt'[v] = "SENDING" /\ \A w \in Vacancies \ {v} : attempt'[w] = attempt[w]
    BY <2>1, <2>2
  <2>6. \A n \in Nonces : VacancyOf[n] \in Vacancies
    BY DEF Vacancies
  <2>7. \A q \in Commands \ {p} : /\ Holds(q)' <=> Holds(q)
                                  /\ Vacancy(q)' = Vacancy(q) /\ Nonce(q)' = Nonce(q)
    BY <1>0 DEF OthersRest, Holds, Vacancy, Nonce
  <2>8. \A q \in Commands : Holds(q) => Vacancy(q) \in Vacancies
    BY VacancyType DEF Holds, HasNonce, HasPath
  <2>. HIDE DEF v
  <2>9. ExposedIsBlocking'
    BY <2>3, <2>4, <2>5, <2>6 DEF ExposedIsBlocking
  <2>10. OneHolder'
    BY <2>3, <2>4, <2>7 DEF OneHolder
  <2>11. HolderIsReserved'
    BY <1>0, <2>2, <2>3, <2>4, <2>5, <2>7, <2>8 DEF HolderIsReserved, OthersRest, Holds, IsBlocking
  <2>12. HolderExposes'
    BY <1>0, <2>1, <2>2, <2>3, <2>4, <2>7 DEF HolderExposes, OthersRest, Holds, Exposed
  <2>13. ExposedApart'
    BY <2>3 DEF ExposedApart
  <2>. QED BY <2>9, <2>10, <2>11, <2>12, <2>13
<1>. QED BY <1>1, <1>2

(* The holder's step writes its own attempt only, and leaves or holds on.  *)
LEMMA HolderKeepsExposure ==
  ASSUME Typed, Exposure, NEW p \in Commands, Holds(p), OthersRest(p), Nonce(p)' = Nonce(p),
         UNCHANGED post,
         \A w \in Vacancies \ {Vacancy(p)} : attempt'[w] = attempt[w],
         (\E n \in Nonces : Exposed(n) /\ VacancyOf[n] = Vacancy(p)) => IsBlocking(attempt'[Vacancy(p)]),
         pc'[p] \in Sending => attempt'[Vacancy(p)] = "SENDING",
         pc'[p] \in Holding => pc'[p] # "send" /\ pc[p] # "send" /\ IsBlocking(attempt'[Vacancy(p)]),
         pc'[p] = "record" /\ item'[p].class \notin Reconciled => ~Exposed(Nonce(p))
  PROVE  Exposure'
<1>. DEFINE v == Vacancy(p)
<1>. USE DEF Exposure
<1>1. /\ \A q \in Commands : Vacancy(q)' = Vacancy(q) /\ Nonce(q)' = Nonce(q)
      /\ \A q \in Commands \ {p} : Holds(q)' <=> Holds(q)
  BY DEF OthersRest, Holds, Vacancy, Nonce
<1>2. \A n \in Nonces : (Exposed(n)' <=> Exposed(n)) /\ VacancyOf[n] \in Vacancies
  BY DEF Exposed, Vacancies
<1>3. \A q \in Commands \ {p} : Holds(q) => Vacancy(q) \in Vacancies \ {v}
  BY VacancyType DEF Holds, Holding, Sending, HasNonce, HasPath, OneHolder
<1>4. ExposedIsBlocking'
  BY <1>2 DEF ExposedIsBlocking
<1>5. OneHolder'
  BY <1>1, <1>3 DEF OneHolder
<1>6. HolderIsReserved'
  <2>1. \A q \in Commands \ {p} : /\ pc'[q] \in Sending => attempt'[Vacancy(q)'] = "SENDING"
                                  /\ Holds(q)' => IsBlocking(attempt'[Vacancy(q)'])
    <3>. TAKE q \in Commands \ {p}
    <3>1. pc'[q] = pc[q] /\ Vacancy(q)' = Vacancy(q) /\ (Holds(q) => attempt'[Vacancy(q)] = attempt[Vacancy(q)])
      BY <1>1, <1>3 DEF OthersRest
    <3>. QED BY <3>1 DEF HolderIsReserved, Holds, Holding
  <2>2. /\ pc'[p] \in Sending => attempt'[Vacancy(p)'] = "SENDING"
        /\ Holds(p)' => IsBlocking(attempt'[Vacancy(p)'])
    BY <1>1 DEF Holds
  <2>3. \A q \in Commands : /\ pc'[q] \in Sending => attempt'[Vacancy(q)'] = "SENDING"
                            /\ Holds(q)' => IsBlocking(attempt'[Vacancy(q)'])
    BY <2>1, <2>2
  <2>. QED BY <2>3 DEF HolderIsReserved, Sending
<1>7. HolderExposes'
  <2>1. \A q \in Commands \ {p} :
          /\ Holds(q)' => \A n \in Nonces :
               Exposed(n)' /\ VacancyOf[n] = Vacancy(q)' => n = Nonce(q)' /\ pc'[q] # "send"
          /\ pc'[q] = "record" /\ item'[q].class \notin Reconciled => ~Exposed(Nonce(q))'
    BY <1>1, <1>2 DEF HolderExposes, OthersRest, Exposed
  <2>2. Holds(p)' => \A n \in Nonces :
          Exposed(n)' /\ VacancyOf[n] = Vacancy(p)' => n = Nonce(p)' /\ pc'[p] # "send"
    BY <1>1, <1>2 DEF HolderExposes, Holds
  <2>3. pc'[p] = "record" /\ item'[p].class \notin Reconciled => ~Exposed(Nonce(p))'
    BY DEF Exposed
  <2>. QED BY <2>1, <2>2, <2>3 DEF HolderExposes
<1>8. ExposedApart'
  BY <1>2 DEF ExposedApart
<1>. QED BY <1>4, <1>5, <1>6, <1>7, <1>8

(* A command that sends, waits, records or reconciles without a new POST.  *)
LEMMA SendingKeepsExposure ==
  ASSUME Typed, Exposure, NEW p \in Commands,
         Refuse(p) \/ Answer(p) \/ RecordOutcome(p) \/ Reconcile(p)
  PROVE  Exposure'
<1>. USE DEF Sending, Holding
<1>1. Holds(p) /\ OthersRest(p) /\ UNCHANGED post
  BY CommandsApart DEF Command, Holds, Refuse, Answer, RecordOutcome, Reconcile, provider
<1>2. /\ attempt \in [Vacancies -> States] /\ Vacancy(p) \in Vacancies /\ Nonce(p) \in Nonces
      /\ item[p] \in Items /\ item \in [Commands -> Items] /\ pc \in [Commands -> Steps]
  BY <1>1, VacancyType DEF Typed, TypeOK, HasNonce, HasPath, Holds
<1>3. IsBlocking(attempt[Vacancy(p)]) /\ (pc[p] \in Sending => attempt[Vacancy(p)] = "SENDING")
  BY <1>1 DEF Exposure, HolderIsReserved
<1>4. item'[p].approval = item[p].approval
  <2>1. CASE Refuse(p)
    BY <1>2, <2>1 DEF Items, Refuse, Block
  <2>2. CASE Answer(p)
    <3>1. PICK class \in ClassesFor(p) :
            item' = [item EXCEPT ![p].class = class, ![p].failed = class # "SUCCESS"]
      BY <2>2 DEF Answer
    <3>2. item'[p] = [item[p] EXCEPT !.class = class, !.failed = class # "SUCCESS"]
      BY <1>2, <3>1
    <3>. QED BY <1>2, <3>2 DEF Items
  <2>3. CASE RecordOutcome(p)
    BY <1>2, <2>3 DEF Items, RecordOutcome
  <2>4. CASE Reconcile(p)
    BY <1>2, <2>4 DEF Items, Reconcile, Confirms, Unconfirmed
  <2>. QED BY <2>1, <2>2, <2>3, <2>4
<1>5. Nonce(p)' = Nonce(p)
  BY <1>4 DEF Nonce
<1>6. \A w \in Vacancies \ {Vacancy(p)} : attempt'[w] = attempt[w]
  BY <1>2 DEF Refuse, Answer, RecordOutcome, Reconcile, Confirms, Unconfirmed, durable
<1>7. CASE Refuse(p)
  <2>1. pc[p] = "send" /\ pc'[p] = "next"
    BY <1>2, <1>7 DEF Refuse, Block, Goto
  <2>2. \A n \in Nonces : VacancyOf[n] = Vacancy(p) => ~Exposed(n)
    BY <1>1, <2>1 DEF Exposure, HolderExposes
  <2>. QED BY <1>1, <1>5, <1>6, <2>1, <2>2, HolderKeepsExposure
<1>8. CASE Answer(p)
  <2>1. pc[p] = "wait" /\ pc'[p] = "record" /\ attempt' = attempt
    BY <1>2, <1>8 DEF Answer, Goto, durable
  <2>2. item'[p].class \in ClassesFor(p)
    BY <1>2, <1>8 DEF Answer, Items
  <2>3. item'[p].class \notin Reconciled => ~Exposed(Nonce(p))
    BY <2>2 DEF ClassesFor, Reconciled, Exposed
  <2>. QED BY <1>1, <1>3, <1>5, <1>6, <2>1, <2>3, HolderKeepsExposure
<1>9. CASE RecordOutcome(p)
  <2>1. /\ pc[p] = "record"
        /\ pc'[p] = IF item[p].class \in Reconciled THEN "reconcile" ELSE "next"
        /\ attempt'[Vacancy(p)] = attempt[Vacancy(p)]
           \/ attempt'[Vacancy(p)] = StateFor(item[p].class)
    BY <1>2, <1>9 DEF RecordOutcome, Goto
  <2>2. item[p].class \in Classes
    BY <2>1 DEF Typed, ItemIsReal, Real
  <2>3. item[p].class \in Reconciled => IsBlocking(attempt'[Vacancy(p)])
    BY <1>3, <2>1, <2>2 DEF StateFor, Reconciled, IsBlocking
  <2>4. item[p].class \notin Reconciled => \A n \in Nonces : VacancyOf[n] = Vacancy(p) => ~Exposed(n)
    BY <1>1, <2>1 DEF Exposure, HolderExposes
  <2>. QED BY <1>1, <1>5, <1>6, <2>1, <2>3, <2>4, HolderKeepsExposure
<1>10. CASE Reconcile(p)
  <2>1. pc'[p] = "next" /\ IsBlocking(attempt'[Vacancy(p)])
    BY <1>2, <1>3, <1>10 DEF Reconcile, Goto, Confirms, Unconfirmed, IsBlocking
  <2>. QED BY <1>1, <1>5, <1>6, <2>1, HolderKeepsExposure
<1>. QED BY <1>7, <1>8, <1>9, <1>10

(* The POST is the first exposure of its vacancy.                          *)
LEMMA PostKeepsExposure ==
  ASSUME Typed, Exposure, NEW p \in Commands, Post(p)
  PROVE  Exposure'
<1>. USE DEF Sending, Holding
<1>0. PICK n \in Nonces : n = Nonce(p)
  BY VacancyType DEF Post, HasNonce, HasPath
<1>. DEFINE v == VacancyOf[n]
<1>1. Vacancy(p) = v /\ Holds(p) /\ OthersRest(p) /\ attempt' = attempt /\ pc[p] = "send"
  BY <1>0, CommandsApart DEF Command, Holds, Post, durable, Vacancy
<1>2. /\ item[p] \in Items /\ item \in [Commands -> Items] /\ pc \in [Commands -> Steps]
      /\ post \in [Nonces -> {"none", "inflight", "delivered", "duplicate", "refused"}]
  BY DEF Typed, TypeOK
<1>3. pc'[p] = "wait" /\ item'[p].approval = item[p].approval
  BY <1>2 DEF Post, Goto, Items
<1>4. \A q \in Commands : /\ Nonce(q)' = Nonce(q) /\ Vacancy(q)' = Vacancy(q) /\ (Holds(q)' <=> Holds(q))
                          /\ (q # p => pc'[q] = pc[q] /\ item'[q] = item[q])
  BY <1>1, <1>3 DEF OthersRest, Holds, Vacancy, Nonce
<1>5. Exposed(n)' /\ \A m \in Nonces \ {n} : Exposed(m)' <=> Exposed(m)
  BY <1>0, <1>2 DEF Post, Exposed
<1>6. \A m \in Nonces : VacancyOf[m] = v => ~Exposed(m)
  BY <1>1 DEF Exposure, HolderExposes
<1>7. IsBlocking(attempt[v]) /\ attempt[v] = "SENDING"
  BY <1>1 DEF Exposure, HolderIsReserved
<1>8. \A q \in Commands \ {p} : Holds(q) => Vacancy(q) # v
  BY <1>1 DEF Exposure, OneHolder
<1>9. ExposedIsBlocking'
  BY <1>1, <1>2, <1>5, <1>7 DEF Exposure, ExposedIsBlocking
<1>10. OneHolder'
  BY <1>4 DEF Exposure, OneHolder
<1>11. HolderIsReserved'
  BY <1>1, <1>3, <1>4 DEF Exposure, HolderIsReserved, Holds
<1>12. HolderExposes'
  <2>1. \A q \in Commands : Holds(q)' => \A m \in Nonces :
          Exposed(m)' /\ VacancyOf[m] = Vacancy(q)' => m = Nonce(q)' /\ pc'[q] # "send"
    <3>1. ASSUME NEW q \in Commands \ {p}, Holds(q), NEW m \in Nonces,
                 Exposed(m)', VacancyOf[m] = Vacancy(q)
          PROVE  m = Nonce(q) /\ pc[q] # "send"
      BY <1>2, <1>5, <1>8, <3>1 DEF Exposure, HolderExposes
    <3>2. \A m \in Nonces : Exposed(m)' /\ VacancyOf[m] = v => m = n
      BY <1>5, <1>6
    <3>. QED BY <1>0, <1>1, <1>3, <1>4, <3>1, <3>2
  <2>2. \A q \in Commands : pc'[q] = "record" /\ item'[q].class \notin Reconciled => ~Exposed(Nonce(q))'
    <3>. SUFFICES ASSUME NEW q \in Commands \ {p}, pc[q] = "record", item[q].class \notin Reconciled
                  PROVE  ~Exposed(Nonce(q))'
      BY <1>3, <1>4
    <3>1. ~Exposed(Nonce(q)) /\ Nonce(q) \in Nonces /\ Vacancy(q) # v
      BY <1>8, VacancyType DEF Exposure, HolderExposes, Holds, HasNonce, HasPath
    <3>2. Nonce(q) # n
      BY <1>2, <3>1 DEF Vacancy
    <3>3. post'[Nonce(q)] = post[Nonce(q)] /\ Nonce(q)' = Nonce(q)
      BY <1>0, <1>2, <1>4, <3>1, <3>2 DEF Post
    <3>. QED BY <3>1, <3>3 DEF Exposed
  <2>. QED BY <2>1, <2>2 DEF HolderExposes
<1>13. ExposedApart'
  BY <1>2, <1>5, <1>6 DEF Exposure, ExposedApart
<1>. QED BY <1>9, <1>10, <1>11, <1>12, <1>13 DEF Exposure

(* HH decides on a POST: nothing new is exposed.                           *)
LEMMA ProviderKeepsExposure ==
  ASSUME Typed, Exposure, Provider
  PROVE  Exposure'
<1>1. \A n \in Nonces : Exposed(n)' => Exposed(n)
  BY DEF Provider, Deliver, Turndown, Exposed, Typed, TypeOK
<1>2. UNCHANGED <<attempt, pc, item>>
  BY DEF Provider, Deliver, Turndown, durable
<1>3. \A p \in Commands : pc[p] = "record" => Nonce(p) \in Nonces
  BY VacancyType DEF HasNonce, HasPath
<1>4. HolderExposes'
  <2>1. \A p \in Commands : Exposed(Nonce(p))' /\ pc[p] = "record" => Exposed(Nonce(p))
    BY <1>1, <1>2, <1>3 DEF Exposed, Nonce
  <2>. QED BY <1>1, <1>2, <2>1 DEF Exposure, HolderExposes, Holds, Vacancy, Nonce
<1>. QED BY <1>1, <1>2, <1>4
        DEF Exposure, ExposedIsBlocking, OneHolder, HolderIsReserved, ExposedApart, Holds, Vacancy, Nonce

(* The invariant of the exposures.                                         *)
LEMMA InitExposure == Init => Exposure
BY DEF Init, Exposure, ExposedIsBlocking, OneHolder, HolderIsReserved, HolderExposes, ExposedApart,
       Exposed, Holds, Holding, Sending

LEMMA NextExposure == Typed /\ Exposure /\ [Next]_vars => Exposure'
<1>. SUFFICES ASSUME Typed, Exposure, [Next]_vars
              PROVE  Exposure'
  OBVIOUS
<1>1. ASSUME UNCHANGED <<attempt, provider, pc, item>>
      PROVE  Exposure'
  BY <1>1 DEF provider, Exposure, ExposedIsBlocking, OneHolder, HolderIsReserved, HolderExposes,
              ExposedApart, Exposed, Holds, Vacancy, Nonce
<1>2. ASSUME NEW p \in Commands, Command(p)
      PROVE  Exposure'
  <2>1. CASE \/ Start(p) \/ NextItem(p) \/ EndBatch(p) \/ Crash(p)
             \/ Prepare(p) \/ LockNonce(p) \/ CheckNonce(p) \/ WriteNonce(p) \/ UnlockNonce(p)
    BY <1>2, <2>1, CommandsApart, QuietSteps, QuietKeepsExposure DEF provider
  <2>2. CASE Reserve(p) \/ Refuse(p) \/ Post(p) \/ Answer(p) \/ RecordOutcome(p) \/ Reconcile(p)
    BY <2>2, ReserveKeepsExposure, SendingKeepsExposure, PostKeepsExposure
  <2>. QED BY <1>2, <2>1, <2>2 DEF Command
<1>3. ASSUME NEW f \in Files, NEW n \in Nonces, Export(f, n)
      PROVE  Exposure'
  BY <1>1, <1>3 DEF Export
<1>. QED BY <1>1, <1>2, <1>3, ProviderKeepsExposure DEF Next, vars, durable

LEMMA ExposureAlways == Spec => []Exposure
BY InitTyped, InitExposure, NextTyped, NextExposure, PTL DEF Spec

LEMMA OnlyPostPosts ==
  ASSUME Next, posts' # posts
  PROVE  \E p \in Commands : Post(p)
BY DEF Next, Command, Provider, Export, Start, NextItem, EndBatch, Crash, Leave, Prepare, LockNonce, CheckNonce,
       WriteNonce, UnlockNonce, Reserve, Refuse, Answer, RecordOutcome, Reconcile, Deliver, Turndown, provider

(* What a command finds at HH when it sends.                               *)
LEMMA NothingExposed ==
  ASSUME Typed, Exposure, NEW p \in Commands, Post(p)
  PROVE  \A n \in Nonces : VacancyOf[n] = Vacancy(p) => ~Exposed(n)
BY DEF Post, Exposure, HolderExposes, Holds, Holding, Sending

(* Whoever sends to a vacancy, HH has no other POST of the vacancy that it *)
(* took or may still take, of another artifact or of this one: the attempt *)
(* of that POST blocks the vacancy, through crashes, lost answers, records *)
(* that fail and repeated exports (Reserve, RecordOutcome, Reconcile).     *)
THEOREM NeverExposedTwice == Spec => OneExposure
<1>1. Typed /\ Exposure /\ [Next]_vars =>
        [\A n \in Nonces : posts'[n] # posts[n] =>
           \A m \in Nonces : VacancyOf[m] = VacancyOf[n] => ~Exposed(m)]_vars
  <2>. SUFFICES ASSUME Typed, Exposure, Next, NEW n \in Nonces, posts'[n] # posts[n]
                PROVE  \A m \in Nonces : VacancyOf[m] = VacancyOf[n] => ~Exposed(m)
    BY DEF vars
  <2>1. PICK p \in Commands : Post(p)
    BY OnlyPostPosts
  <2>2. n = Nonce(p)
    BY <2>1 DEF Post, Typed, TypeOK
  <2>. QED BY <2>1, <2>2, NothingExposed DEF Vacancy
<1>. QED BY <1>1, TypedAlways, ExposureAlways, PTL DEF Spec, OneExposure

-----------------------------------------------------------------------------
(* A batch that sends again is settled.                                    *)

Confirmed(v) == attempt[v] = "TARGET_RESPONSE_CONFIRMED" /\ Responded(v)
Fresh == {"load", "lock", "check", "write", "unlock", "reserve", "send"}

(* Where a command is in its batch, and what it then knows of its POSTs.   *)
SettledFor(p) ==
  /\ pc[p] = "idle" => sent[p] = {}
  /\ pc[p] \in Fresh => ~item[p].tried /\ ~item[p].confirmed /\ \A v \in sent[p] : Confirmed(v)
  /\ pc[p] \in Holding \ {"send"} =>
       item[p].tried /\ ~item[p].confirmed /\ \A v \in sent[p] \ {Vacancy(p)} : Confirmed(v)
  /\ pc[p] = "next" /\ Settled(p) => \A v \in sent[p] : Confirmed(v)

SettledSoFar == \A p \in Commands : SettledFor(p)

(* A confirmed response stays confirmed: its vacancy is sent to no more.   *)
LEMMA ConfirmedStays ==
  ASSUME Typed, Exposure, Next, NEW v \in Vacancies, Confirmed(v)
  PROVE  Confirmed(v)'
<1>. USE DEF Sending, Holding
<1>1. PICK n \in Nonces : VacancyOf[n] = v /\ post[n] = "delivered"
  BY DEF Confirmed, Responded
<1>2. attempt \in [Vacancies -> States] /\ attempt[v] = "TARGET_RESPONSE_CONFIRMED"
      /\ post \in [Nonces -> {"none", "inflight", "delivered", "duplicate", "refused"}]
  BY DEF Confirmed, Typed, TypeOK
<1>3. ASSUME attempt'[v] = attempt[v], post'[n] = post[n]
      PROVE  Confirmed(v)'
  BY <1>1, <1>3 DEF Confirmed, Responded
<1>4. ASSUME NEW p \in Commands, Command(p)
      PROVE  Confirmed(v)'
  <2>1. CASE \/ Start(p) \/ NextItem(p) \/ EndBatch(p) \/ Crash(p)
             \/ Prepare(p) \/ LockNonce(p) \/ CheckNonce(p) \/ WriteNonce(p) \/ UnlockNonce(p)
    BY <1>3, <2>1, QuietSteps DEF provider
  <2>2. pc[p] \in Sending => Vacancy(p) # v /\ Nonce(p) # n
    BY <1>1, <1>2 DEF Exposure, HolderIsReserved, Vacancy
  <2>3. CASE Reserve(p)
    BY <1>2, <1>3, <2>3 DEF Reserve, Reservable, IsBlocking, provider
  <2>4. CASE Refuse(p) \/ RecordOutcome(p)
    BY <1>2, <1>3, <2>2, <2>4 DEF Refuse, RecordOutcome, provider
  <2>5. CASE Post(p)
    BY <1>2, <1>3, <2>2, <2>5 DEF Post, durable
  <2>6. CASE Answer(p)
    BY <1>3, <2>6 DEF Answer, durable, provider
  <2>7. CASE Reconcile(p)
    BY <1>2, <1>3, <2>7 DEF Reconcile, Confirms, Unconfirmed, provider
  <2>. QED BY <1>4, <2>1, <2>3, <2>4, <2>5, <2>6, <2>7 DEF Command
<1>5. CASE Provider
  <2>1. post'[n] = post[n] /\ attempt' = attempt
    BY <1>1, <1>2, <1>5 DEF Provider, Deliver, Turndown, durable
  <2>. QED BY <1>3, <2>1
<1>6. CASE \E f \in Files, m \in Nonces : Export(f, m)
  BY <1>3, <1>6 DEF Export, provider
<1>. QED BY <1>4, <1>5, <1>6 DEF Next

(* What a command knows is not undone by another.                          *)
LEMMA OthersSettled ==
  ASSUME Typed, NEW q \in Commands, SettledFor(q),
         pc'[q] = pc[q], item'[q] = item[q], sent'[q] = sent[q],
         \A v \in Vacancies : Confirmed(v) => Confirmed(v)'
  PROVE  SettledFor(q)'
<1>1. \A v \in sent'[q] : Confirmed(v) => Confirmed(v)'
  BY DEF Typed, TypeOK
<1>2. Settled(q)' <=> Settled(q)
  BY DEF Settled
<1>3. Vacancy(q)' = Vacancy(q)
  BY DEF Vacancy, Nonce
<1>. QED BY <1>1, <1>2, <1>3 DEF SettledFor, Holding, Sending, Fresh

(* Nor by its own steps.                                                   *)
LEMMA CommandSettled ==
  ASSUME Typed, NEW p \in Commands, SettledFor(p), Command(p),
         \A v \in Vacancies : Confirmed(v) => Confirmed(v)'
  PROVE  SettledFor(p)'
<1>. USE DEF Sending, Holding, Fresh
<1>1. /\ item \in [Commands -> Items] /\ pc \in [Commands -> Steps] /\ sent \in [Commands -> SUBSET Vacancies]
      /\ item[p] \in Items
      /\ \A v \in sent[p] : Confirmed(v) => Confirmed(v)'
  BY DEF Typed, TypeOK
<1>2. CASE Start(p)
  <2>1. pc'[p] = "next" /\ sent'[p] = {}
    BY <1>1, <1>2 DEF Start, Goto, SettledFor
  <2>. QED BY <2>1 DEF SettledFor
<1>3. CASE NextItem(p)
  <2>1. pc'[p] = "load" /\ sent'[p] = sent[p] /\ ~item'[p].tried /\ ~item'[p].confirmed
    BY <1>1, <1>3 DEF NextItem, Goto, NoItem
  <2>2. \A v \in sent[p] : Confirmed(v)
    BY <1>3 DEF NextItem, SettledFor
  <2>. QED BY <1>1, <2>1, <2>2 DEF SettledFor
<1>4. CASE EndBatch(p) \/ Crash(p)
  <2>1. pc'[p] = "idle" /\ sent'[p] = {}
    BY <1>1, <1>4 DEF EndBatch, Crash, Leave, Goto
  <2>. QED BY <2>1 DEF SettledFor
<1>5. CASE Prepare(p) \/ LockNonce(p) \/ CheckNonce(p) \/ WriteNonce(p) \/ UnlockNonce(p) \/ Reserve(p) \/ Refuse(p)
  <2>1. pc[p] \in Fresh /\ pc'[p] \in Fresh \cup {"next"} /\ sent' = sent
    BY <1>1, <1>5 DEF Prepare, LockNonce, CheckNonce, WriteNonce, UnlockNonce, Reserve, Refuse, Block, Goto
  <2>2. item'[p].tried = item[p].tried /\ item'[p].confirmed = item[p].confirmed
    BY <1>1, <1>5 DEF Prepare, LockNonce, CheckNonce, WriteNonce, UnlockNonce, Reserve, Refuse, Block, Items
  <2>3. ~item'[p].tried /\ ~item'[p].confirmed /\ \A v \in sent'[p] : Confirmed(v)'
    BY <1>1, <2>1, <2>2 DEF SettledFor
  <2>. QED BY <2>1, <2>3 DEF SettledFor
<1>6. CASE Post(p)
  <2>1. /\ pc[p] = "send" /\ pc'[p] = "wait" /\ sent'[p] = sent[p] \cup {Vacancy(p)}
        /\ item'[p] = [item[p] EXCEPT !.tried = TRUE]
    BY <1>1, <1>6 DEF Post, Goto
  <2>2. item'[p].tried /\ item'[p].confirmed = item[p].confirmed /\ Vacancy(p)' = Vacancy(p)
    BY <1>1, <2>1 DEF Items, Vacancy, Nonce
  <2>. QED BY <1>1, <2>1, <2>2 DEF SettledFor
<1>7. CASE Answer(p) \/ RecordOutcome(p)
  <2>1. pc[p] \in {"wait", "record"} /\ pc'[p] \in {"record", "reconcile", "next"} /\ sent' = sent
    BY <1>1, <1>7 DEF Answer, RecordOutcome, Goto
  <2>2. /\ item'[p].tried = item[p].tried /\ item'[p].confirmed = item[p].confirmed
        /\ item'[p].approval = item[p].approval
    <3>1. CASE Answer(p)
      <4>1. PICK class \in ClassesFor(p) :
              item' = [item EXCEPT ![p].class = class, ![p].failed = class # "SUCCESS"]
        BY <3>1 DEF Answer
      <4>2. item'[p] = [item[p] EXCEPT !.class = class, !.failed = class # "SUCCESS"]
        BY <1>1, <4>1
      <4>. QED BY <1>1, <4>2 DEF Items
    <3>2. CASE RecordOutcome(p)
      BY <1>1, <3>2 DEF RecordOutcome, Items
    <3>. QED BY <1>7, <3>1, <3>2
  <2>3. item'[p].tried /\ ~item'[p].confirmed /\ Vacancy(p)' = Vacancy(p)
    BY <2>1, <2>2 DEF SettledFor, Vacancy, Nonce
  <2>4. ~Settled(p)'
    BY <2>3 DEF Settled
  <2>. QED BY <1>1, <2>1, <2>3, <2>4 DEF SettledFor
<1>8. CASE Reconcile(p)
  <2>1. /\ pc[p] = "reconcile" /\ pc'[p] = "next" /\ sent' = sent
        /\ item[p].tried /\ ~item[p].confirmed
        /\ \A v \in sent[p] \ {Vacancy(p)} : Confirmed(v)
    BY <1>1, <1>8 DEF Reconcile, Goto, SettledFor
  <2>2. CASE Confirms(p) /\ attempt' = [attempt EXCEPT ![Vacancy(p)] = "TARGET_RESPONSE_CONFIRMED"]
    <3>1. Vacancy(p) \in Vacancies /\ attempt \in [Vacancies -> States]
      BY <2>1, VacancyType DEF HasNonce, HasPath, Typed, TypeOK
    <3>2. \A v : v = Vacancy(p) => Confirmed(v)'
      BY <1>8, <2>2, <3>1 DEF Reconcile, provider, Confirms, Confirmed, Responded
    <3>3. \A v \in sent[p] \ {Vacancy(p)} : Confirmed(v)'
      BY <1>1, <2>1
    <3>. QED BY <1>1, <2>1, <3>2, <3>3 DEF SettledFor
  <2>3. CASE ~(Confirms(p) /\ attempt' = [attempt EXCEPT ![Vacancy(p)] = "TARGET_RESPONSE_CONFIRMED"])
    <3>1. CASE item' = [item EXCEPT ![p].confirmed = TRUE, ![p].failed = TRUE]
      <4>1. item'[p].failed /\ item'[p].tried = item[p].tried
        BY <1>1, <3>1 DEF Items
      <4>2. ~Settled(p)'
        BY <2>1, <4>1 DEF Settled
      <4>. QED BY <2>1, <4>2 DEF SettledFor
    <3>2. CASE \E failed \in BOOLEAN : item' = [item EXCEPT ![p].failed = @ \/ failed]
      <4>1. item'[p].confirmed = item[p].confirmed /\ item'[p].tried = item[p].tried
        BY <1>1, <3>2 DEF Items
      <4>2. ~Settled(p)'
        BY <2>1, <4>1 DEF Settled
      <4>. QED BY <2>1, <4>2 DEF SettledFor
    <3>. QED BY <1>8, <2>3, <3>1, <3>2 DEF Reconcile, Confirms, Unconfirmed
  <2>. QED BY <2>2, <2>3
<1>. QED BY <1>2, <1>3, <1>4, <1>5, <1>6, <1>7, <1>8 DEF Command

(* The invariant of the batches.                                           *)
LEMMA InitSettled == Init => SettledSoFar
BY DEF Init, SettledSoFar, SettledFor, Fresh, Holding, Sending

LEMMA NextSettled == Typed /\ Exposure /\ SettledSoFar /\ [Next]_vars => SettledSoFar'
<1>. SUFFICES ASSUME Typed, Exposure, SettledSoFar, [Next]_vars
              PROVE  SettledSoFar'
  OBVIOUS
<1>1. CASE UNCHANGED vars
  BY <1>1 DEF vars, durable, provider, SettledSoFar, SettledFor, Confirmed, Responded, Settled, Vacancy, Nonce
<1>2. CASE Next
  <2>1. \A v \in Vacancies : Confirmed(v) => Confirmed(v)'
    BY <1>2, ConfirmedStays
  <2>2. ASSUME NEW p \in Commands, Command(p)
        PROVE  SettledSoFar'
    <3>1. SettledFor(p)'
      BY <2>1, <2>2, CommandSettled DEF SettledSoFar
    <3>2. \A q \in Commands \ {p} : SettledFor(q)'
      BY <2>1, <2>2, CommandsApart, OthersSettled DEF SettledSoFar, OthersRest
    <3>. QED BY <3>1, <3>2 DEF SettledSoFar
  <2>3. ASSUME UNCHANGED <<pc, item, sent>>
        PROVE  SettledSoFar'
    BY <2>1, <2>3, OthersSettled DEF SettledSoFar
  <2>4. Provider \/ (\E f \in Files, n \in Nonces : Export(f, n)) => UNCHANGED <<pc, item, sent>>
    BY DEF Provider, Deliver, Turndown, Export
  <2>. QED BY <1>2, <2>2, <2>3, <2>4 DEF Next
<1>. QED BY <1>1, <1>2

(* A batch that sends again has confirmed all it has sent, on record and   *)
(* at HH (SettledBeforeNext).                                              *)
THEOREM BatchesSettle == Spec => []SettledBeforeNext
<1>1. SettledSoFar => SettledBeforeNext
  BY DEF SettledSoFar, SettledFor, SettledBeforeNext, Confirmed, Fresh
<1>2. Spec => []SettledSoFar
  BY InitSettled, NextSettled, TypedAlways, ExposureAlways, PTL DEF Spec
<1>. QED BY <1>1, <1>2, PTL

-----------------------------------------------------------------------------
(* One POST per export: a written approval file is worth one POST, and the *)
(* worth of a file passes to the command that is about to mark it as used. *)

(* A command that is about to mark a file as used, or has marked one, and  *)
(* has not sent its POST.                                                  *)
Spends(p, n) ==
  /\ Nonce(p) = n
  /\ \/ pc[p] \in {"write", "reserve", "send"}
     \/ pc[p] = "unlock" /\ ~item[p].failed
Spenders(n) == {p \in Commands : Spends(p, n)}

(* A file that can still be spent, and that no command is about to mark.   *)
Marks(p, f, n) == pc[p] = "write" /\ item[p].path = f /\ Nonce(p) = n
Unspent(n) == {f \in Files : /\ file[f].nonce = n /\ ~file[f].used
                             /\ \A p \in Commands : ~Marks(p, f, n)}

(* The commands between lock and unlock hold the lock file.                *)
Locked == \A p \in Commands : pc[p] \in {"check", "write", "unlock"} => lock[item[p].path] = p

Within(n) == posts[n] + Cardinality(Spenders(n)) + Cardinality(Unspent(n)) <= exports[n]
Budget == \A n \in Nonces : Within(n)

(* Cardinalities of a set and of one with an element more or less.         *)
LEMMA CardSubset ==
  ASSUME NEW S, IsFiniteSet(S), NEW T, T \subseteq S
  PROVE  Cardinality(T) \in Nat /\ Cardinality(S) \in Nat /\ Cardinality(T) <= Cardinality(S)
BY FS_Subset, FS_CardinalityType

LEMMA CardOneMore ==
  ASSUME NEW S, IsFiniteSet(S), NEW x, NEW T, T \subseteq S \cup {x}
  PROVE  Cardinality(T) \in Nat /\ Cardinality(S) \in Nat /\ Cardinality(T) <= Cardinality(S) + 1
<1>1. /\ IsFiniteSet(S \cup {x}) /\ Cardinality(S) \in Nat
      /\ Cardinality(S \cup {x}) \in {Cardinality(S), Cardinality(S) + 1}
  BY FS_AddElement, FS_CardinalityType
<1>2. Cardinality(T) \in Nat /\ Cardinality(T) <= Cardinality(S \cup {x})
  BY <1>1, CardSubset
<1>. QED BY <1>1, <1>2

LEMMA CardOneLess ==
  ASSUME NEW S, IsFiniteSet(S), NEW x \in S, NEW T, T \subseteq S \ {x}
  PROVE  Cardinality(T) \in Nat /\ Cardinality(S) \in Nat /\ Cardinality(T) + 1 <= Cardinality(S)
<1>1. /\ IsFiniteSet(S \ {x}) /\ Cardinality(S) \in Nat
      /\ Cardinality(S \ {x}) = Cardinality(S) - 1
  BY FS_RemoveElement, FS_CardinalityType
<1>2. Cardinality(T) \in Nat /\ Cardinality(T) <= Cardinality(S \ {x})
  BY <1>1, CardSubset
<1>. QED BY <1>1, <1>2

(* What is counted is finite.                                              *)
LEMMA ClaimsFinite ==
  ASSUME NEW n \in Nonces
  PROVE  /\ IsFiniteSet(Spenders(n)) /\ Cardinality(Spenders(n)) \in Nat
         /\ IsFiniteSet(Unspent(n)) /\ Cardinality(Unspent(n)) \in Nat
BY FiniteAssumption, FS_Subset, FS_CardinalityType DEF Spenders, Unspent

(* Lock exclusion.                                                         *)
LEMMA OthersLocked ==
  ASSUME Typed, Locked, NEW p \in Commands, OthersRest(p),
         \A f \in Files : lock[f] \in Commands \ {p} => lock'[f] = lock[f],
         pc'[p] \in {"check", "write", "unlock"} => lock'[item'[p].path] = p
  PROVE  Locked'
<1>1. ASSUME NEW q \in Commands \ {p}, pc[q] \in {"check", "write", "unlock"}
      PROVE  lock'[item[q].path] = q
  <2>1. item[q].path \in Files
    BY <1>1 DEF Typed, ItemIsReal, Real, HasPath
  <2>. QED BY <1>1, <2>1 DEF Locked
<1>. QED BY <1>1 DEF Locked, OthersRest

(* Lock files are taken when free, and freed by their holders.             *)
LEMMA CommandLocked ==
  ASSUME Typed, Locked, NEW p \in Commands, Command(p)
  PROVE  Locked'
<1>1. /\ lock \in [Files -> Commands \cup {None}] /\ pc \in [Commands -> Steps]
      /\ item \in [Commands -> Items] /\ item[p] \in Items /\ None \notin Commands
  BY ControlledNoneAssumption DEF Typed, TypeOK
<1>2. OthersRest(p)
  BY CommandsApart
<1>. USE DEF Goto
<1>3. CASE LockNonce(p)
  <2>1. item[p].path \in Files
    BY <1>3 DEF LockNonce, Typed, ItemIsReal, Real, HasPath
  <2>. QED BY <1>1, <1>2, <1>3, <2>1, OthersLocked DEF LockNonce, LockFree, Block
<1>4. CASE UnlockNonce(p)
  <2>1. lock[item[p].path] = p /\ pc'[p] \in {"next", "reserve"}
    BY <1>1, <1>4 DEF UnlockNonce, Locked
  <2>. QED BY <1>1, <1>2, <1>4, <2>1, OthersLocked DEF UnlockNonce
<1>5. CASE CheckNonce(p) \/ WriteNonce(p)
  <2>1. /\ pc[p] \in {"check", "write"} /\ lock' = lock /\ item'[p].path = item[p].path
    BY <1>1, <1>5 DEF CheckNonce, WriteNonce, durable, Items
  <2>. QED BY <1>2, <2>1, OthersLocked DEF Locked
<1>6. CASE Start(p) \/ NextItem(p) \/ EndBatch(p) \/ Crash(p) \/ Prepare(p)
  <2>1. lock' = lock /\ pc'[p] \notin {"check", "write", "unlock"}
    BY <1>1, <1>6 DEF Start, NextItem, EndBatch, Crash, Leave, Prepare, Block, durable
  <2>. QED BY <1>2, <2>1, OthersLocked
<1>7. CASE Reserve(p) \/ Refuse(p) \/ Post(p) \/ Answer(p) \/ RecordOutcome(p) \/ Reconcile(p)
  <2>1. lock' = lock /\ pc'[p] \notin {"check", "write", "unlock"}
    BY <1>1, <1>7 DEF Reserve, Refuse, Post, Answer, RecordOutcome, Reconcile, Block, durable
  <2>. QED BY <1>2, <2>1, OthersLocked
<1>. QED BY <1>3, <1>4, <1>5, <1>6, <1>7 DEF Command

(* How a step may change what is spent and unspent.                        *)
LEMMA WithinStep ==
  ASSUME Typed, NEW n \in Nonces, Within(n),
         \/ /\ posts'[n] = posts[n] /\ exports'[n] = exports[n]
            /\ Spenders(n)' \subseteq Spenders(n) /\ Unspent(n)' \subseteq Unspent(n)
         \/ \E f \in Unspent(n), p \in Commands :
              /\ posts'[n] = posts[n] /\ exports'[n] = exports[n]
              /\ Spenders(n)' \subseteq Spenders(n) \cup {p} /\ Unspent(n)' \subseteq Unspent(n) \ {f}
         \/ \E p \in Spenders(n), f \in Files :
              /\ posts'[n] = posts[n] /\ exports'[n] = exports[n]
              /\ Spenders(n)' \subseteq Spenders(n) \ {p} /\ Unspent(n)' \subseteq Unspent(n) \cup {f}
         \/ \E p \in Spenders(n) :
              /\ posts'[n] = posts[n] + 1 /\ exports'[n] = exports[n]
              /\ Spenders(n)' \subseteq Spenders(n) \ {p} /\ Unspent(n)' \subseteq Unspent(n)
         \/ \E f \in Files :
              /\ posts'[n] = posts[n] /\ exports'[n] = exports[n] + 1
              /\ Spenders(n)' \subseteq Spenders(n) /\ Unspent(n)' \subseteq Unspent(n) \cup {f}
  PROVE  Within(n)'
<1>. DEFINE S == Spenders(n)
            U == Unspent(n)
<1>1. /\ posts[n] \in Nat /\ exports[n] \in Nat /\ IsFiniteSet(S) /\ IsFiniteSet(U)
      /\ posts[n] + Cardinality(S) + Cardinality(U) <= exports[n]
  BY ClaimsFinite, BoundsAssumption DEF Typed, TypeOK, Within
<1>2. S' = Spenders(n)' /\ U' = Unspent(n)'
  OBVIOUS
<1>3. SUFFICES posts'[n] + Cardinality(S') + Cardinality(U') <= exports'[n]
  BY DEF Within
<1>. HIDE DEF S, U
<1>4. CASE /\ posts'[n] = posts[n] /\ exports'[n] = exports[n] /\ S' \subseteq S /\ U' \subseteq U
  <2>1. /\ Cardinality(S') \in Nat /\ Cardinality(S) \in Nat /\ Cardinality(S') <= Cardinality(S)
        /\ Cardinality(U') \in Nat /\ Cardinality(U) \in Nat /\ Cardinality(U') <= Cardinality(U)
    BY <1>1, <1>4, CardSubset
  <2>. QED BY <1>1, <1>4, <2>1
<1>5. ASSUME NEW f \in U, NEW p \in Commands, posts'[n] = posts[n], exports'[n] = exports[n],
             S' \subseteq S \cup {p}, U' \subseteq U \ {f}
      PROVE  posts'[n] + Cardinality(S') + Cardinality(U') <= exports'[n]
  <2>1. Cardinality(S') \in Nat /\ Cardinality(S) \in Nat /\ Cardinality(S') <= Cardinality(S) + 1
    BY <1>1, <1>5, CardOneMore
  <2>2. Cardinality(U') \in Nat /\ Cardinality(U) \in Nat /\ Cardinality(U') + 1 <= Cardinality(U)
    BY <1>1, <1>5, CardOneLess
  <2>. QED BY <1>1, <1>5, <2>1, <2>2
<1>6. ASSUME NEW p \in S, NEW f \in Files, posts'[n] = posts[n], exports'[n] = exports[n],
             S' \subseteq S \ {p}, U' \subseteq U \cup {f}
      PROVE  posts'[n] + Cardinality(S') + Cardinality(U') <= exports'[n]
  <2>1. Cardinality(S') \in Nat /\ Cardinality(S) \in Nat /\ Cardinality(S') + 1 <= Cardinality(S)
    BY <1>1, <1>6, CardOneLess
  <2>2. Cardinality(U') \in Nat /\ Cardinality(U) \in Nat /\ Cardinality(U') <= Cardinality(U) + 1
    BY <1>1, <1>6, CardOneMore
  <2>. QED BY <1>1, <1>6, <2>1, <2>2
<1>7. ASSUME NEW p \in S, posts'[n] = posts[n] + 1, exports'[n] = exports[n],
             S' \subseteq S \ {p}, U' \subseteq U
      PROVE  posts'[n] + Cardinality(S') + Cardinality(U') <= exports'[n]
  <2>1. Cardinality(S') \in Nat /\ Cardinality(S) \in Nat /\ Cardinality(S') + 1 <= Cardinality(S)
    BY <1>1, <1>7, CardOneLess
  <2>2. Cardinality(U') \in Nat /\ Cardinality(U) \in Nat /\ Cardinality(U') <= Cardinality(U)
    BY <1>1, <1>7, CardSubset
  <2>. QED BY <1>1, <1>7, <2>1, <2>2
<1>8. ASSUME NEW f \in Files, posts'[n] = posts[n], exports'[n] = exports[n] + 1,
             S' \subseteq S, U' \subseteq U \cup {f}
      PROVE  posts'[n] + Cardinality(S') + Cardinality(U') <= exports'[n]
  <2>1. Cardinality(S') \in Nat /\ Cardinality(S) \in Nat /\ Cardinality(S') <= Cardinality(S)
    BY <1>1, <1>8, CardSubset
  <2>2. Cardinality(U') \in Nat /\ Cardinality(U) \in Nat /\ Cardinality(U') <= Cardinality(U) + 1
    BY <1>1, <1>8, CardOneMore
  <2>. QED BY <1>1, <1>8, <2>1, <2>2
<1>. QED BY <1>4, <1>5, <1>6, <1>7, <1>8 DEF S, U

(* Steps that spend nothing and mark nothing.                              *)
LEMMA RestWithin ==
  ASSUME Typed, Budget, NEW p \in Commands, OthersRest(p), UNCHANGED <<file, posts, exports>>,
         pc[p] # "write", pc'[p] # "write",
         \A n \in Nonces : Spends(p, n)' => Spends(p, n)
  PROVE  Budget'
<1>. SUFFICES ASSUME NEW n \in Nonces
              PROVE  Within(n)'
  BY DEF Budget
<1>1. Spenders(n)' \subseteq Spenders(n)
  BY DEF Spenders, Spends, OthersRest, Nonce
<1>2. \A q \in Commands, f \in Files : Marks(q, f, n)' <=> Marks(q, f, n)
  BY DEF Marks, OthersRest, Nonce
<1>3. Unspent(n)' \subseteq Unspent(n)
  BY <1>2 DEF Unspent
<1>. QED BY <1>1, <1>3, WithinStep DEF Budget

(* The check of a file takes its worth over to the command.                *)
LEMMA CheckWithin ==
  ASSUME Typed, Locked, Budget, NEW p \in Commands, CheckNonce(p), SameApproval(p)
  PROVE  Budget'
<1>. DEFINE f == item[p].path
<1>1. /\ OthersRest(p) /\ UNCHANGED <<file, posts, exports, item>> /\ pc[p] = "check" /\ pc'[p] = "write"
      /\ f \in Files
  BY CommandsApart DEF Command, CheckNonce, Goto, durable, provider, Typed, TypeOK, ItemIsReal, Real, HasPath
<1>2. \A q \in Commands, g \in Files, n \in Nonces : Marks(q, g, n) => Marks(q, g, n)'
  BY <1>1 DEF Marks, OthersRest, Nonce
<1>. SUFFICES ASSUME NEW n \in Nonces
              PROVE  Within(n)'
  BY DEF Budget
<1>3. Unspent(n)' \subseteq Unspent(n)
  BY <1>1, <1>2 DEF Unspent
<1>4. CASE n # Nonce(p)
  <2>1. Spenders(n)' \subseteq Spenders(n)
    BY <1>1, <1>4 DEF Spenders, Spends, OthersRest, Nonce
  <2>. QED BY <1>1, <1>3, <2>1, WithinStep DEF Budget
<1>5. CASE n = Nonce(p)
  <2>1. Spenders(n)' \subseteq Spenders(n) \cup {p}
    BY <1>1 DEF Spenders, Spends, OthersRest, Nonce
  <2>2. \A q \in Commands : ~Marks(q, f, n)
    BY <1>1 DEF Locked, Marks
  <2>3. f \in Unspent(n)
    BY <1>1, <1>5, <2>2 DEF SameApproval, Executable, Unspent
  <2>4. Marks(p, f, n)'
    BY <1>1, <1>5 DEF Marks, Nonce
  <2>5. Unspent(n)' \subseteq Unspent(n) \ {f}
    BY <1>1, <1>3, <2>4 DEF Unspent
  <2>. HIDE DEF f
  <2>. QED BY <1>1, <2>1, <2>3, <2>5, WithinStep DEF Budget
<1>. QED BY <1>4, <1>5

(* The mark: the file is spent, the command still is not.                  *)
LEMMA MarkWithin ==
  ASSUME Typed, Budget, NEW p \in Commands, WriteNonce(p), UNCHANGED item,
         file' = [file EXCEPT ![item[p].path] = [item[p].approval EXCEPT !.used = TRUE]]
  PROVE  Budget'
<1>. DEFINE f == item[p].path
<1>1. /\ OthersRest(p) /\ UNCHANGED <<posts, exports>> /\ pc[p] = "write" /\ pc'[p] = "unlock"
      /\ file \in [Files -> Approvals] /\ item[p] \in Items /\ f \in Files
  BY CommandsApart DEF Command, WriteNonce, Goto, provider, Typed, TypeOK, ItemIsReal, Real, HasPath
<1>2. file'[f].used /\ \A g \in Files \ {f} : file'[g] = file[g]
  <2>1. [item[p].approval EXCEPT !.used = TRUE].used
    BY <1>1 DEF Items, Approvals
  <2>. QED BY <1>1, <2>1
<1>. SUFFICES ASSUME NEW n \in Nonces
              PROVE  Within(n)'
  BY DEF Budget
<1>3. Spenders(n)' \subseteq Spenders(n)
  BY <1>1 DEF Spenders, Spends, OthersRest, Nonce
<1>4. \A q \in Commands, g \in Files \ {f} : Marks(q, g, n)' <=> Marks(q, g, n)
  BY <1>1 DEF Marks, OthersRest, Nonce
<1>5. Unspent(n)' \subseteq Unspent(n)
  <2>. SUFFICES ASSUME NEW g \in Files, g \in Unspent(n)'
                PROVE  g \in Unspent(n)
    BY DEF Unspent
  <2>1. g \in Files \ {f}
    BY <1>2 DEF Unspent
  <2>. HIDE DEF f
  <2>. QED BY <1>2, <1>4, <2>1 DEF Unspent
<1>. QED BY <1>1, <1>3, <1>5, WithinStep DEF Budget

(* A command that leaves with the file unmarked gives the worth back.      *)
LEMMA UnmarkedWithin ==
  ASSUME Typed, Budget, NEW p \in Commands, OthersRest(p), UNCHANGED <<file, posts, exports>>,
         pc[p] = "write", \A n \in Nonces : ~Spends(p, n)', pc'[p] # "write"
  PROVE  Budget'
<1>. DEFINE f == item[p].path
<1>1. f \in Files
  BY DEF Typed, ItemIsReal, Real, HasPath
<1>. SUFFICES ASSUME NEW n \in Nonces
              PROVE  Within(n)'
  BY DEF Budget
<1>2. Spenders(n)' \subseteq Spenders(n) \ {p}
  BY DEF Spenders, Spends, OthersRest, Nonce
<1>3. \A q \in Commands \ {p}, g \in Files : Marks(q, g, n) => Marks(q, g, n)'
  BY DEF Marks, OthersRest, Nonce
<1>4. CASE n = Nonce(p)
  <2>1. p \in Spenders(n)
    BY <1>4 DEF Spenders, Spends
  <2>2. \A g \in Files \ {f} : ~Marks(p, g, n)
    BY DEF Marks
  <2>3. Unspent(n)' \subseteq Unspent(n) \cup {f}
    BY <1>3, <2>2 DEF Unspent
  <2>. HIDE DEF f
  <2>. QED BY <1>1, <1>2, <2>1, <2>3, WithinStep DEF Budget
<1>5. CASE n # Nonce(p)
  <2>1. \A g \in Files : ~Marks(p, g, n)
    BY <1>5 DEF Marks
  <2>2. Unspent(n)' \subseteq Unspent(n)
    BY <1>3, <2>1 DEF Unspent
  <2>. QED BY <1>2, <2>2, WithinStep DEF Budget
<1>. QED BY <1>4, <1>5

(* A POST spends.                                                          *)
LEMMA PostWithin ==
  ASSUME Typed, Budget, NEW p \in Commands, Post(p)
  PROVE  Budget'
<1>1. /\ OthersRest(p) /\ UNCHANGED <<file, exports>> /\ pc[p] = "send" /\ pc'[p] = "wait"
      /\ posts' = [posts EXCEPT ![Nonce(p)] = @ + 1] /\ posts \in [Nonces -> Nat]
  BY CommandsApart DEF Command, Post, Goto, durable, Typed, TypeOK
<1>. SUFFICES ASSUME NEW n \in Nonces
              PROVE  Within(n)'
  BY DEF Budget
<1>2. Spenders(n)' \subseteq Spenders(n) \ {p}
  BY <1>1 DEF Spenders, Spends, OthersRest, Nonce
<1>3. \A q \in Commands, g \in Files : Marks(q, g, n)' <=> Marks(q, g, n)
  BY <1>1 DEF Marks, OthersRest, Nonce
<1>4. Unspent(n)' \subseteq Unspent(n)
  BY <1>1, <1>3 DEF Unspent
<1>5. CASE n = Nonce(p)
  <2>1. p \in Spenders(n) /\ posts'[n] = posts[n] + 1
    BY <1>1, <1>5 DEF Spenders, Spends
  <2>. QED BY <1>1, <1>2, <1>4, <2>1, WithinStep DEF Budget
<1>6. CASE n # Nonce(p)
  <2>1. posts'[n] = posts[n]
    BY <1>1, <1>6
  <2>. QED BY <1>1, <1>2, <1>4, <2>1, WithinStep DEF Budget
<1>. QED BY <1>5, <1>6

(* An export is the worth of one POST.                                     *)
LEMMA ExportWithin ==
  ASSUME Typed, Budget, NEW f \in Files, NEW m \in Nonces, Export(f, m)
  PROVE  Budget'
<1>1. /\ UNCHANGED <<pc, item, posts>> /\ exports' = [exports EXCEPT ![m] = @ + 1]
      /\ file' = [file EXCEPT ![f] = [nonce |-> m, used |-> FALSE]]
      /\ file \in [Files -> Approvals] /\ exports \in [Nonces -> 0..MaxExports]
  BY DEF Export, provider, Typed, TypeOK
<1>. SUFFICES ASSUME NEW n \in Nonces
              PROVE  Within(n)'
  BY DEF Budget
<1>2. Spenders(n)' \subseteq Spenders(n)
  BY <1>1 DEF Spenders, Spends, Nonce
<1>3. \A q \in Commands, g \in Files : Marks(q, g, n)' <=> Marks(q, g, n)
  BY <1>1 DEF Marks, Nonce
<1>4. \A g \in Files \ {f} : file'[g] = file[g]
  BY <1>1
<1>5. CASE n = m
  <2>1. Unspent(n)' \subseteq Unspent(n) \cup {f}
    BY <1>3, <1>4 DEF Unspent
  <2>2. exports'[n] = exports[n] + 1
    BY <1>1, <1>5
  <2>. QED BY <1>1, <1>2, <2>1, <2>2, WithinStep DEF Budget
<1>6. CASE n # m
  <2>1. file'[f].nonce # n
    BY <1>1, <1>6
  <2>2. Unspent(n)' \subseteq Unspent(n)
    BY <1>3, <1>4, <2>1 DEF Unspent
  <2>3. exports'[n] = exports[n]
    BY <1>1, <1>6
  <2>. QED BY <1>1, <1>2, <2>2, <2>3, WithinStep DEF Budget
<1>. QED BY <1>5, <1>6

(* No step of a command spends more than it may.                           *)
LEMMA CommandWithin ==
  ASSUME Typed, Locked, Budget, NEW p \in Commands, Command(p)
  PROVE  Budget'
<1>1. /\ OthersRest(p) /\ pc \in [Commands -> Steps] /\ item \in [Commands -> Items] /\ item[p] \in Items
  BY CommandsApart DEF Typed, TypeOK
<1>. USE DEF Goto, provider, durable
<1>2. CASE Start(p) \/ NextItem(p) \/ EndBatch(p) \/ Prepare(p) \/ LockNonce(p)
  <2>1. /\ UNCHANGED <<file, posts, exports>> /\ pc[p] # "write"
        /\ pc'[p] \in {"next", "load", "idle", "lock", "check"}
    BY <1>1, <1>2 DEF Start, NextItem, EndBatch, Leave, Prepare, LockNonce, Block
  <2>. QED BY <1>1, <2>1, RestWithin DEF Spends
<1>3. CASE Crash(p)
  <2>1. UNCHANGED <<file, posts, exports>> /\ pc'[p] = "idle"
    BY <1>1, <1>3 DEF Crash, Leave
  <2>. QED BY <1>1, <2>1, RestWithin, UnmarkedWithin DEF Spends
<1>4. CASE CheckNonce(p) /\ ~SameApproval(p)
  <2>1. /\ UNCHANGED <<file, posts, exports>> /\ pc[p] = "check" /\ pc'[p] = "unlock"
        /\ item' = [item EXCEPT ![p].failed = TRUE]
    BY <1>1, <1>4 DEF CheckNonce
  <2>2. item'[p].failed
    BY <1>1, <2>1 DEF Items
  <2>. QED BY <1>1, <2>1, <2>2, RestWithin DEF Spends
<1>5. CASE WriteNonce(p) /\ UNCHANGED file /\ item' = [item EXCEPT ![p].failed = TRUE]
  <2>1. UNCHANGED <<file, posts, exports>> /\ pc[p] = "write" /\ pc'[p] = "unlock"
    BY <1>1, <1>5 DEF WriteNonce
  <2>2. item'[p].failed
    BY <1>1, <1>5 DEF Items
  <2>. QED BY <1>1, <2>1, <2>2, UnmarkedWithin DEF Spends
<1>6. CASE WriteNonce(p) /\ ~(UNCHANGED file /\ item' = [item EXCEPT ![p].failed = TRUE])
  BY <1>6, MarkWithin DEF WriteNonce
<1>7. CASE UnlockNonce(p)
  <2>1. /\ UNCHANGED <<file, posts, exports, item>> /\ pc[p] = "unlock"
        /\ pc'[p] = IF item[p].failed THEN "next" ELSE "reserve"
    BY <1>1, <1>7 DEF UnlockNonce
  <2>. QED BY <1>1, <2>1, RestWithin DEF Spends, Nonce
<1>8. CASE Reserve(p)
  <2>1. /\ UNCHANGED <<file, posts, exports>> /\ pc[p] = "reserve"
        /\ pc'[p] = "next" \/ (pc'[p] = "send" /\ UNCHANGED item)
    BY <1>1, <1>8 DEF Reserve, Block
  <2>. QED BY <1>1, <2>1, RestWithin DEF Spends, Nonce
<1>9. CASE Refuse(p) \/ Answer(p) \/ RecordOutcome(p) \/ Reconcile(p)
  <2>1. /\ UNCHANGED <<file, posts, exports>> /\ pc[p] # "write"
        /\ pc'[p] \in {"next", "record", "reconcile"}
    BY <1>1, <1>9 DEF Refuse, Answer, RecordOutcome, Reconcile, Block
  <2>. QED BY <1>1, <2>1, RestWithin DEF Spends
<1>. QED BY <1>2, <1>3, <1>4, <1>5, <1>6, <1>7, <1>8, <1>9, CheckWithin, PostWithin DEF Command

(* The invariant of the nonces.                                            *)
LEMMA InitBudget == Init => Locked /\ Budget
<1>. SUFFICES ASSUME Init
              PROVE  Locked /\ Budget
  OBVIOUS
<1>1. \A n \in Nonces : Spenders(n) = {} /\ Unspent(n) = {}
  BY ControlledNoneAssumption DEF Init, Spenders, Spends, Unspent, NoApproval
<1>2. \A n \in Nonces : posts[n] = 0 /\ exports[n] = 0
  BY DEF Init
<1>3. Cardinality({}) = 0
  BY FS_EmptySet
<1>4. Budget
  BY <1>1, <1>2, <1>3 DEF Budget, Within
<1>. QED BY <1>4 DEF Init, Locked

LEMMA NextBudget == Typed /\ Locked /\ Budget /\ [Next]_vars => Locked' /\ Budget'
<1>. SUFFICES ASSUME Typed, Locked, Budget, [Next]_vars
              PROVE  Locked' /\ Budget'
  OBVIOUS
<1>1. CASE UNCHANGED <<file, lock, posts, exports, pc, item>>
  BY <1>1 DEF Locked, Budget, Within, Spenders, Spends, Unspent, Marks, Nonce
<1>2. ASSUME NEW f \in Files, NEW n \in Nonces, Export(f, n)
      PROVE  Locked' /\ Budget'
  BY <1>2, ExportWithin DEF Export, Locked
<1>3. Provider => UNCHANGED <<file, lock, posts, exports, pc, item>>
  BY DEF Provider, Deliver, Turndown, durable
<1>. QED BY <1>1, <1>2, <1>3, CommandLocked, CommandWithin DEF Next, vars, durable, provider

(* An approval file that was written once sends one POST at most, to       *)
(* whatever commands it is given and wherever one of them dies             *)
(* (OnePostPerExport).                                                     *)
THEOREM NonceIsSpentOnce == Spec => []OnePostPerExport
<1>1. Typed /\ Budget => OnePostPerExport
  <2>. SUFFICES ASSUME Typed, Budget, NEW n \in Nonces
                PROVE  posts[n] <= exports[n]
    BY DEF OnePostPerExport
  <2>1. posts[n] \in Nat /\ exports[n] \in Nat
    BY BoundsAssumption DEF Typed, TypeOK
  <2>. QED BY <2>1, ClaimsFinite DEF Budget, Within
<1>2. Spec => [](Locked /\ Budget)
  BY InitBudget, NextBudget, TypedAlways, PTL DEF Spec
<1>. QED BY <1>1, <1>2, TypedAlways, PTL


-----------------------------------------------------------------------------
(* The promise to HH.                                                      *)

Promise == INSTANCE OneResponse WITH
  blocked   <- {v \in Vacancies : IsBlocking(attempt[v])},
  responded <- {v \in Vacancies : Responded(v)}

LEMMA PromiseInit == Init => Promise!Init
BY DEF Init, Promise!Init, IsBlocking, Responded, Vacancies

(* A new state of an attempt blocks its vacancy, releases it or neither;   *)
(* that what is exposed blocks before and after says when it may.          *)
LEMMA AttemptPromise ==
  ASSUME Typed, ExposedIsBlocking, ExposedIsBlocking', NEW v \in Vacancies, NEW s,
         attempt' = [attempt EXCEPT ![v] = s] \/ UNCHANGED attempt, UNCHANGED post
  PROVE  [Promise!Next]_(Promise!vars)
<1>. DEFINE blocked == {w \in Vacancies : IsBlocking(attempt[w])}
            responded == {w \in Vacancies : Responded(w)}
<1>1. responded' = responded
  BY DEF Responded
<1>2. responded \subseteq blocked /\ responded' \subseteq blocked'
  BY DEF ExposedIsBlocking, Exposed, Responded
<1>3. \A w \in Vacancies \ {v} : w \in blocked' <=> w \in blocked
  BY DEF Typed, TypeOK
<1>4. CASE v \in blocked <=> v \in blocked'
  <2>1. blocked' = blocked
    BY <1>3, <1>4
  <2>. QED BY <1>1, <2>1 DEF Promise!vars
<1>5. CASE v \notin blocked /\ v \in blocked'
  <2>1. blocked' = blocked \cup {v}
    BY <1>3, <1>5
  <2>. QED BY <1>1, <1>5, <2>1 DEF Promise!Next, Promise!Block
<1>6. CASE v \in blocked /\ v \notin blocked'
  <2>1. blocked' = blocked \ {v}
    BY <1>3, <1>6
  <2>2. v \notin responded
    BY <1>1, <1>2, <1>6
  <2>. QED BY <1>1, <1>6, <2>1, <2>2 DEF Promise!Next, Promise!Release
<1>. QED BY <1>4, <1>5, <1>6

(* A POST starts when nothing of its vacancy is exposed, so it overwrites  *)
(* no response.                                                            *)
LEMMA PostPromise ==
  ASSUME Typed, Exposure, NEW p \in Commands, Post(p)
  PROVE  UNCHANGED Promise!vars
<1>1. Nonce(p) \in Nonces /\ ~Exposed(Nonce(p))
  BY VacancyType DEF Post, HasNonce, HasPath, Exposure, HolderExposes, Holds, Holding, Sending, Vacancy
<1>2. \A n \in Nonces : post'[n] = "delivered" <=> post[n] = "delivered"
  BY <1>1 DEF Post, Exposed, Typed, TypeOK
<1>3. UNCHANGED attempt
  BY DEF Post, durable
<1>. QED BY <1>2, <1>3 DEF Promise!vars, Responded

LEMMA ProviderPromise ==
  ASSUME Typed, Exposure, Provider
  PROVE  [Promise!Next]_(Promise!vars)
<1>0. UNCHANGED attempt
  BY DEF Provider, Deliver, Turndown, durable
<1>1. PICK n \in Nonces : Deliver(n) \/ Turndown(n)
  BY DEF Provider
<1>2. CASE Turndown(n) \/ Responded(VacancyOf[n])
  <2>1. \A m \in Nonces : post'[m] = "delivered" <=> post[m] = "delivered"
    BY <1>1, <1>2 DEF Deliver, Turndown, Typed, TypeOK
  <2>. QED BY <1>0, <2>1 DEF Promise!vars, Responded
<1>3. CASE Deliver(n) /\ ~Responded(VacancyOf[n])
  <2>. DEFINE v == VacancyOf[n]
  <2>1. v \in Vacancies /\ IsBlocking(attempt[v])
    BY <1>3 DEF Vacancies, Deliver, Exposure, ExposedIsBlocking, Exposed
  <2>2. \A m \in Nonces : post'[m] = "delivered" <=> m = n \/ post[m] = "delivered"
    BY <1>3 DEF Deliver, Typed, TypeOK
  <2>3. \A w \in Vacancies : Responded(w)' <=> w = v \/ Responded(w)
    BY <2>2 DEF Responded
  <2>. QED BY <1>0, <1>3, <2>1, <2>3 DEF Promise!Next, Promise!Respond
<1>. QED BY <1>1, <1>2, <1>3

LEMMA PromiseNext ==
  ASSUME Typed, Exposure, Exposure', [Next]_vars
  PROVE  [Promise!Next]_(Promise!vars)
<1>1. ASSUME UNCHANGED <<attempt, post>>
      PROVE  [Promise!Next]_(Promise!vars)
  BY <1>1 DEF Promise!vars, Responded
<1>2. ASSUME NEW p \in Commands, Reserve(p) \/ Refuse(p) \/ RecordOutcome(p) \/ Reconcile(p)
      PROVE  [Promise!Next]_(Promise!vars)
  <2>1. Vacancy(p) \in Vacancies
    BY <1>2, VacancyType DEF Reserve, Refuse, RecordOutcome, Reconcile, HasNonce, HasPath
  <2>2. UNCHANGED post
    BY <1>2 DEF Reserve, Refuse, RecordOutcome, Reconcile, provider
  <2>3. \E s : attempt' = [attempt EXCEPT ![Vacancy(p)] = s] \/ UNCHANGED attempt
    BY <1>2 DEF Reserve, Refuse, RecordOutcome, Reconcile, Confirms, Unconfirmed
  <2>. QED BY <2>1, <2>2, <2>3, AttemptPromise DEF Exposure
<1>3. ASSUME NEW p \in Commands, Command(p)
      PROVE  [Promise!Next]_(Promise!vars)
  <2>1. CASE Answer(p)
    BY <1>1, <2>1 DEF Answer, durable, provider
  <2>. QED BY <1>1, <1>2, <1>3, <2>1, QuietSteps, PostPromise DEF Command, provider
<1>4. ASSUME NEW f \in Files, NEW n \in Nonces, Export(f, n)
      PROVE  [Promise!Next]_(Promise!vars)
  BY <1>1, <1>4 DEF Export, provider
<1>. QED BY <1>1, <1>3, <1>4, ProviderPromise DEF Next, vars, durable, provider

(* However often artifacts are exported and whichever commands send them,  *)
(* HH gets one response per vacancy, while the vacancy is blocked, and it  *)
(* stays blocked then.                                                     *)
THEOREM Refinement == Spec => Promise!Spec
<1>1. Exposure /\ Exposure' /\ Typed /\ [Next]_vars => [Promise!Next]_(Promise!vars)
  BY PromiseNext
<1>. QED BY <1>1, PromiseInit, ExposureAlways, TypedAlways, PTL DEF Spec, Promise!Spec
=============================================================================
