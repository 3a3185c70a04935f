----------------------------- MODULE AutoChatProofs -----------------------------
(***************************************************************************)
(* Proofs for AutoChat: at most one write per trigger (the refinement of   *)
(* AtMostOnce), one try in the life of a process, and confirmations that   *)
(* name a real answer, for any processes, attempts, messages, listings and *)
(* crashes.                                                                *)
(***************************************************************************)
EXTENDS AutoChat, TLAPS

-----------------------------------------------------------------------------
(* The inductive invariant.                                                *)

Messages == [who : EmployerKinds \cup {"candidate"}, time : Nat, by : Attempts \cup {None}]
Runs == [chats : Seq(Entries), handled : SUBSET Triggers]
Jobs == [trigger : 0..MaxMessages, action : {"REPLY", "LEAVE"}, attempt : Attempts \cup {None},
         outcome : Outcomes \cup {"none"}, outgoing : 0..MaxMessages, evidence : Evidence]

Types ==
  /\ record \in [Attempts -> Records]
  /\ flight \in [Attempts -> {"none", "inflight", "delivered", "refused"}]
  /\ history \in Seq(Messages) /\ Len(history) <= MaxMessages
  /\ ignored \in [Processes -> SUBSET Triggers]
  /\ mine \in [Processes -> SUBSET Attempts]
  /\ pc \in [Processes -> Steps]
  /\ run \in [Processes -> Runs]
  /\ job \in [Processes -> Jobs]
  /\ crashes \in Nat

(* The store, and what HH has of its attempts.                             *)
Sorted == \A i, j \in DOMAIN history : i <= j => history[i].time <= history[j].time
FreeIsUntouched ==
  \A a \in Attempts : record[a].state = "FREE" => record[a] = NoRecord /\ flight[a] = "none"
TriggerIsMessage ==
  \A a \in Attempts : record[a].state # "FREE" => record[a].trigger \in DOMAIN history
OneBlockingAttempt ==
  \A a, b \in Attempts :
    /\ IsBlocking(record[a].state) /\ IsBlocking(record[b].state)
    /\ record[a].trigger = record[b].trigger
    => a = b
ExposedIsBlocking ==
  \A a \in Attempts : flight[a] \in {"inflight", "delivered"} => IsBlocking(record[a].state)
SendingIsUnanswered ==
  \A a \in Attempts : record[a].state = "SENDING" => record[a].outgoing = 0
StoreSafe ==
  /\ Sorted /\ FreeIsUntouched /\ TriggerIsMessage /\ OneBlockingAttempt /\ ExposedIsBlocking
  /\ SendingIsUnanswered

(* What a process remembers of its attempts.                               *)
OwnedIsUsed == \A p \in Processes : \A a \in mine[p] : record[a].state # "FREE"
OwnedApart == \A p, q \in Processes : p # q => mine[p] \cap mine[q] = {}

(* What a process works on.                                                *)
Holding(p) == pc[p] \in {"reserved", "waiting", "answered"}
Reconciling(p) == pc[p] \in {"reading", "recording"}
Held(p) == record[job[p].attempt]

HeldIsPending(p) ==
  Holding(p) =>
    /\ job[p].attempt \in mine[p]
    /\ Held(p).state \in {"SENDING", "TARGET_REPLY_CONFIRMED"}
    /\ Held(p).trigger = job[p].trigger /\ Held(p).action = job[p].action
    /\ job[p].trigger \in run[p].handled
    /\ pc[p] = "reserved" => flight[job[p].attempt] = "none"
    /\ pc[p] = "answered" =>
         /\ job[p].outcome \in Outcomes
         /\ job[p].outcome = "REJECTED" => flight[job[p].attempt] = "refused"
         /\ job[p].outcome = "NOT_SENT" => flight[job[p].attempt] = "none"
ReconcilesReply(p) ==
  Reconciling(p) =>
    /\ run[p] = IdleRun
    /\ job[p].attempt \in Attempts
    /\ Held(p).state # "FREE"
    /\ Held(p).trigger = job[p].trigger
KnownMessages(p) ==
  /\ pc[p] = "idle" => run[p] = IdleRun /\ job[p] = NoJob
  /\ AtChat(p) => run[p].chats # <<>>
  /\ \A i \in DOMAIN run[p].chats : run[p].chats[i].trigger \in DOMAIN history
  /\ ignored[p] \subseteq DOMAIN history
  /\ pc[p] \in {"read", "reserve"} => job[p].trigger \in DOMAIN history
JobSafe(p) == HeldIsPending(p) /\ ReconcilesReply(p) /\ KnownMessages(p)

IInv ==
  /\ Types /\ StoreSafe /\ OwnedIsUsed /\ OwnedApart
  /\ \A p \in Processes : JobSafe(p)

(* A process that may yet reply has not replied to the same message, as    *)
(* what it ignores is handled in this run or older than what it lists.     *)
Older(t, S) == \A s \in S : s < t
NotYet(p) == ignored[p] \ run[p].handled
TriedIsIgnored(p) ==
  \A a \in mine[p] :
    record[a].action = "REPLY"
      => IsBlocking(record[a].state) \/ record[a].trigger \in ignored[p]
ListedIsNew(p) ==
  /\ \A i \in DOMAIN run[p].chats : Older(run[p].chats[i].trigger, NotYet(p))
  /\ pc[p] \in {"read", "reserve"} => Older(job[p].trigger, NotYet(p))
  /\ pc[p] = "reserve" => job[p].trigger \notin run[p].handled
TriesInv ==
  /\ OneTryPerLife
  /\ \A p \in Processes : TriedIsIgnored(p) /\ ListedIsNew(p)

(* m answers t in a conversation h; later messages change nothing.         *)
Answers(h, m, t) ==
  /\ m \in DOMAIN h
  /\ t < m
  /\ h[m].who \notin EmployerKinds
  /\ \A j \in (t + 1)..(m - 1) : h[j].who \in EmployerKinds => h[j].time = h[t].time
EvidenceIsTrue ==
  \A p \in Processes :
    pc[p] = "recording" /\ Positive(job[p].evidence)
      => Answers(history, job[p].evidence.message, job[p].trigger)
ConfirmationsInv == EvidenceIsTrue /\ ConfirmedIsAnswered

-----------------------------------------------------------------------------
(* Constants, the conversation, and types.                                 *)

LEMMA Constants ==
  /\ NoEvidence \in Evidence /\ NoRecord \in Records /\ NoJob \in Jobs /\ IdleRun \in Runs
  /\ NoRecord.state = "FREE" /\ NoRecord.trigger = 0 /\ NoRecord.outgoing = 0
  /\ NoJob.attempt = None /\ NoJob.trigger = 0 /\ IdleRun.chats = <<>> /\ IdleRun.handled = {}
BY ConversationBoundAssumption DEF NoEvidence, Evidence, EvidenceKinds, NoRecord, Records, NoJob,
  Jobs, IdleRun, Runs

LEMMA Domain ==
  ASSUME Types
  PROVE  /\ Len(history) \in Nat /\ DOMAIN history = 1..Len(history)
         /\ DOMAIN history \subseteq Triggers /\ DOMAIN history \subseteq 0..MaxMessages
         /\ \A i \in DOMAIN history : history[i] \in Messages /\ history[i].time \in Nat
<1>1. history \in Seq(Messages) /\ Len(history) <= MaxMessages /\ MaxMessages \in Nat
  BY ConversationBoundAssumption DEF Types
<1>2. Len(history) \in Nat /\ DOMAIN history = 1..Len(history)
  BY <1>1
<1>3. \A i \in DOMAIN history : history[i] \in Messages
  BY <1>1
<1>. QED BY <1>1, <1>2, <1>3 DEF Triggers, Messages

(* The conversation only grows, and in the order of its times.             *)
Grows == /\ DOMAIN history \subseteq DOMAIN history'
         /\ \A i \in DOMAIN history : history'[i] = history[i]

LEMMA TimesType ==
  ASSUME Types
  PROVE  \A t \in Times : t \in Nat /\ \A i \in DOMAIN history : history[i].time <= t \/ ~Sorted
<1>1. CASE history = <<>>
  BY <1>1 DEF Times
<1>2. CASE history # <<>>
  <2>1. Len(history) \in DOMAIN history /\ history[Len(history)].time \in Nat
    BY <1>2, Domain DEF Types
  <2>2. \A i \in DOMAIN history :
          Sorted => history[i].time \in Nat /\ history[i].time <= history[Len(history)].time
    BY <2>1, Domain DEF Sorted
  <2>3. \A t \in Times : \E d \in Gaps : t = history[Len(history)].time + d /\ d \in Nat
    BY <1>2, GapsAssumption DEF Times
  <2>. QED BY <2>1, <2>2, <2>3
<1>. QED BY <1>1, <1>2

LEMMA SayExtends ==
  ASSUME Types, Sorted, NEW who \in EmployerKinds \cup {"candidate"},
         NEW a \in Attempts \cup {None}, Say(who, a)
  PROVE  /\ history' \in Seq(Messages) /\ Len(history') <= MaxMessages
         /\ Grows /\ Sorted'
<1>1. PICK t \in Times : history' = Append(history, Message(who, t, a))
  BY DEF Say
<1>2. t \in Nat /\ \A i \in DOMAIN history : history[i].time <= t
  BY <1>1, TimesType
<1>3. Message(who, t, a) \in Messages /\ Message(who, t, a).time = t
  BY <1>2 DEF Message, Messages
<1>4. history \in Seq(Messages) /\ Len(history) < MaxMessages
  BY DEF Types, Say
<1>5. /\ history' \in Seq(Messages) /\ Len(history') = Len(history) + 1
      /\ \A i \in 1..Len(history) : history'[i] = history[i]
      /\ history'[Len(history) + 1] = Message(who, t, a)
  BY <1>1, <1>3, <1>4
<1>6. Grows
  BY <1>4, <1>5 DEF Grows
<1>7. Sorted'
  <2>1. SUFFICES ASSUME NEW i \in 1..(Len(history) + 1), NEW j \in 1..(Len(history) + 1), i <= j
                 PROVE  history'[i].time <= history'[j].time
    BY <1>4, <1>5 DEF Sorted
  <2>2. CASE j = Len(history) + 1 /\ i = j
    BY <2>2, <1>5, <1>3, <1>2
  <2>3. CASE j = Len(history) + 1 /\ i # j
    <3>1. i \in DOMAIN history
      BY <2>3, Domain
    <3>. QED BY <2>3, <3>1, <1>2, <1>3, <1>5, Domain
  <2>4. CASE j # Len(history) + 1
    <3>1. i \in DOMAIN history /\ j \in DOMAIN history
      BY <2>4, <2>1, Domain
    <3>. QED BY <3>1, <2>1, <1>5, Domain DEF Sorted
  <2>. QED BY <2>2, <2>3, <2>4
<1>. QED BY <1>4, <1>5, <1>6, <1>7, ConversationBoundAssumption

LEMMA RunsType ==
  ASSUME NEW r \in Runs, NEW chats \in Seq(Entries)
  PROVE  [r EXCEPT !.chats = chats] \in Runs
BY DEF Runs

LEMMA JobsType ==
  ASSUME NEW j \in Jobs, NEW t \in 0..MaxMessages, NEW x \in {"REPLY", "LEAVE"}, NEW e \in Evidence
  PROVE  /\ [j EXCEPT !.trigger = t, !.action = x] \in Jobs
         /\ [j EXCEPT !.trigger = t] \in Jobs
         /\ [j EXCEPT !.evidence = e] \in Jobs
BY DEF Jobs

LEMMA ContinueType ==
  ASSUME Types, NEW p \in Processes, NEW chats \in Seq(Entries), Continue(p, chats)
  PROVE  /\ pc' \in [Processes -> Steps] /\ run' \in [Processes -> Runs]
         /\ job' \in [Processes -> Jobs]
<1>1. /\ pc \in [Processes -> Steps] /\ run \in [Processes -> Runs] /\ job \in [Processes -> Jobs]
      /\ IdleRun \in Runs /\ NoJob \in Jobs
  BY Constants DEF Types
<1>2. job' \in [Processes -> Jobs]
  BY <1>1 DEF Continue
<1>3. CASE chats = <<>>
  BY <1>1, <1>2, <1>3 DEF Continue, Goto, Steps
<1>4. CASE chats # <<>>
  <2>1. [run[p] EXCEPT !.chats = chats] \in Runs
    BY <1>1 DEF Runs
  <2>2. run' = [run EXCEPT ![p] = [run[p] EXCEPT !.chats = chats]] /\ Goto(p, "chat")
    BY <1>4 DEF Continue
  <2>. QED BY <1>1, <1>2, <2>1, <2>2 DEF Goto, Steps
<1>. QED BY <1>3, <1>4

LEMMA TailType ==
  ASSUME NEW chats \in Seq(Entries), chats # <<>>
  PROVE  /\ Tail(chats) \in Seq(Entries)
         /\ Head(chats) \in Entries /\ Head(chats) = chats[1] /\ 1 \in DOMAIN chats
         /\ \A i \in DOMAIN Tail(chats) : i + 1 \in DOMAIN chats /\ Tail(chats)[i] = chats[i + 1]
OBVIOUS

LEMMA WorldIsTyped ==
  ASSUME IInv, World
  PROVE  Types'
<1>. USE Constants DEF IInv
<1>1. Types /\ Sorted
  BY DEF StoreSafe
<1>2. CASE Speak
  <2>1. history' \in Seq(Messages) /\ Len(history') <= MaxMessages
    BY <1>1, <1>2, SayExtends DEF Speak
  <2>. QED BY <1>1, <1>2, <2>1 DEF Speak, Types
<1>3. ASSUME NEW a \in Attempts, Deliver(a)
      PROVE  Types'
  <2>1. history' \in Seq(Messages) /\ Len(history') <= MaxMessages
    BY <1>1, <1>3, SayExtends DEF Deliver, Types
  <2>. QED BY <1>1, <1>3, <2>1 DEF Deliver, Types
<1>4. ASSUME NEW a \in Attempts, Refuse(a)
      PROVE  Types'
  BY <1>1, <1>4 DEF Refuse, Types
<1>5. ASSUME NEW p \in Processes, Crash(p)
      PROVE  Types'
  BY <1>1, <1>5 DEF Crash, Types, Goto, Steps, provider
<1>. QED BY <1>2, <1>3, <1>4, <1>5 DEF World

(* A chat of the listing is a message, and the next one is too.            *)
LEMMA Listed ==
  ASSUME IInv, NEW p \in Processes, AtChat(p)
  PROVE  /\ run[p].chats \in Seq(Entries) /\ run[p].chats # <<>>
         /\ Tail(run[p].chats) \in Seq(Entries)
         /\ Head(run[p].chats) \in Entries
         /\ Head(run[p].chats) = run[p].chats[1] /\ 1 \in DOMAIN run[p].chats
         /\ Head(run[p].chats).trigger \in DOMAIN history
         /\ \A i \in DOMAIN Tail(run[p].chats) :
              /\ i + 1 \in DOMAIN run[p].chats
              /\ Tail(run[p].chats)[i] = run[p].chats[i + 1]
<1>1. run[p].chats \in Seq(Entries) /\ run[p].chats # <<>>
  BY DEF IInv, JobSafe, KnownMessages, Types, Runs
<1>2. \A i \in DOMAIN run[p].chats : run[p].chats[i].trigger \in DOMAIN history
  BY DEF IInv, JobSafe, KnownMessages
<1>. QED BY <1>1, <1>2, TailType

LEMMA TakeChatType ==
  ASSUME IInv, NEW p \in Processes, AtChat(p), TakeChat(p)
  PROVE  /\ run' \in [Processes -> Runs]
         /\ run'[p].chats = Tail(run[p].chats) /\ run'[p].handled = run[p].handled
<1>1. run[p] \in Runs /\ [run[p] EXCEPT !.chats = Tail(run[p].chats)] \in Runs
  BY Listed, RunsType DEF IInv, Types
<1>2. run' = [run EXCEPT ![p] = [run[p] EXCEPT !.chats = Tail(run[p].chats)]]
  BY DEF TakeChat
<1>3. run \in [Processes -> Runs]
  BY DEF IInv, Types
<1>. QED BY <1>1, <1>2, <1>3 DEF Runs

LEMMA IterateIsTyped ==
  ASSUME IInv, NEW p \in Processes, Iterate(p)
  PROVE  Types'
<1>1. Types
  BY DEF IInv
<1>2. CASE ListChat(p)
  <2>. DEFINE e == [trigger |-> Len(history), discard |-> history[Len(history)].who = "discard"]
  <2>1. Len(history) \in Triggers
    BY <1>1, <1>2, Domain DEF ListChat, LastIsEmployers, Types, Triggers
  <2>2. e \in Entries
    BY <2>1 DEF Entries
  <2>3. run[p] \in Runs /\ [run[p] EXCEPT !.chats = Append(run[p].chats, e)] \in Runs
    <3>1. run[p] \in Runs
      BY <1>1 DEF Types
    <3>2. Append(run[p].chats, e) \in Seq(Entries)
      BY <2>2, <3>1 DEF Runs
    <3>. QED BY <3>1, <3>2, RunsType
  <2>4. run' = [run EXCEPT ![p] = [run[p] EXCEPT !.chats = Append(run[p].chats, e)]]
    BY <1>2 DEF ListChat
  <2>5. run' \in [Processes -> Runs]
    BY <1>1, <2>3, <2>4 DEF Types
  <2>. QED BY <1>1, <1>2, <2>5 DEF ListChat, Types, Goto, Steps, provider
<1>3. CASE PassOver(p)
  <2>1. run[p].chats \in Seq(Entries)
    BY <1>1 DEF Types, Runs
  <2>2. PICK chats \in Seq(Entries) : Continue(p, chats)
    BY <1>3, <2>1, Listed DEF PassOver
  <2>. QED BY <1>1, <1>3, <2>2, ContinueType DEF PassOver, Types, provider
<1>4. CASE ClearToLeave(p)
  <2>1. Head(run[p].chats).trigger \in 0..MaxMessages
    BY <1>1, <1>4, Listed, Domain DEF ClearToLeave
  <2>2. job' \in [Processes -> Jobs]
    <3>1. job[p] \in Jobs
      BY <1>1 DEF Types
    <3>2. [job[p] EXCEPT !.trigger = Head(run[p].chats).trigger, !.action = "LEAVE"] \in Jobs
      BY <2>1, <3>1, Constants, JobsType
    <3>3. job' = [job EXCEPT ![p] =
                    [job[p] EXCEPT !.trigger = Head(run[p].chats).trigger, !.action = "LEAVE"]]
      BY <1>4 DEF ClearToLeave
    <3>. QED BY <1>1, <3>2, <3>3 DEF Types
  <2>. QED BY <1>1, <1>4, <2>2, TakeChatType DEF ClearToLeave, Types, Goto, Steps, provider
<1>5. CASE ReadHistory(p)
  <2>1. /\ Head(run[p].chats).trigger \in 0..MaxMessages
        /\ Len(history) \in 0..MaxMessages
    BY <1>1, <1>5, Listed, Domain, ConversationBoundAssumption DEF ReadHistory, Types
  <2>2. job' \in [Processes -> Jobs]
    <3>. DEFINE t == IF LastIsEmployers THEN Len(history) ELSE Head(run[p].chats).trigger
    <3>1. job[p] \in Jobs /\ t \in 0..MaxMessages
      BY <1>1, <2>1 DEF Types
    <3>2. [job[p] EXCEPT !.trigger = t] \in Jobs
      BY <3>1, Constants, JobsType
    <3>3. job' = [job EXCEPT ![p] = [job[p] EXCEPT !.trigger = t]]
      BY <1>5 DEF ReadHistory
    <3>. QED BY <1>1, <3>2, <3>3 DEF Types
  <2>. QED BY <1>1, <1>5, <2>2, TakeChatType DEF ReadHistory, Types, Goto, Steps, provider
<1>6. CASE ClearToReply(p)
  BY <1>1, <1>6 DEF ClearToReply, Types, Goto, Steps, provider
<1>. QED BY <1>2, <1>3, <1>4, <1>5, <1>6 DEF Iterate

Settled(r, o, g) == [r EXCEPT !.state = o, !.outgoing = g]

LEMMA OutcomeType ==
  ASSUME NEW r \in Records, NEW o \in States, NEW g \in 0..MaxMessages
  PROVE  /\ Settled(r, o, g) \in Records
         /\ Settled(r, o, g).state = o /\ Settled(r, o, g).outgoing = g
         /\ Settled(r, o, g).trigger = r.trigger /\ Settled(r, o, g).action = r.action
         /\ Settled(r, o, g).evidence = r.evidence
BY DEF Records, Settled

LEMMA MessageOfType ==
  ASSUME Types, NEW a \in Attempts
  PROVE  MessageOf(a) \in 0..MaxMessages
<1>1. CASE \E i \in DOMAIN history : history[i].by = a
  <2>1. MessageOf(a) \in DOMAIN history
    BY <1>1 DEF MessageOf
  <2>. QED BY <2>1, Domain
<1>2. CASE ~\E i \in DOMAIN history : history[i].by = a
  BY <1>2, ConversationBoundAssumption DEF MessageOf
<1>. QED BY <1>1, <1>2

LEMMA IgnoreType ==
  ASSUME IInv, NEW p \in Processes, Holding(p), Ignore(p)
  PROVE  /\ ignored' \in [Processes -> SUBSET Triggers]
         /\ ToIgnore(p) \subseteq {job[p].trigger}
         /\ job[p].trigger \in Triggers /\ job[p].trigger \in DOMAIN history
<1>1. /\ Held(p).trigger = job[p].trigger /\ Held(p).state # "FREE"
      /\ job[p].attempt \in Attempts
  BY DEF IInv, JobSafe, HeldIsPending, Types
<1>2. job[p].trigger \in DOMAIN history
  BY <1>1 DEF IInv, StoreSafe, TriggerIsMessage, Held
<1>3. job[p].trigger \in Triggers
  BY <1>2, Domain DEF IInv
<1>4. ToIgnore(p) \subseteq {job[p].trigger}
  BY DEF ToIgnore
<1>. QED BY <1>2, <1>3, <1>4 DEF Ignore, IInv, Types

LEMMA WriteIsTyped ==
  ASSUME IInv, NEW p \in Processes, Write(p)
  PROVE  Types'
<1>1. Types /\ job[p] \in Jobs /\ run[p] \in Runs
  BY DEF IInv, Types
<1>2. ASSUME NEW a \in Attempts, Reserve(p, a)
      PROVE  Types'
  <2>1. job[p].trigger \in DOMAIN history
    BY <1>2 DEF Reserve, IInv, JobSafe, KnownMessages
  <2>2. job[p].trigger \in Triggers /\ job[p].action \in {"REPLY", "LEAVE"}
    BY <1>1, <2>1, Domain DEF Jobs
  <2>3. record' \in [Attempts -> Records]
    BY <1>1, <1>2, <2>1, <2>2, Domain, Constants DEF Reserve, Records, NoRecord, Types, States, Triggers
  <2>4. [run[p] EXCEPT !.handled = run[p].handled \cup {job[p].trigger}] \in Runs
    BY <1>1, <2>2 DEF Runs
  <2>5. run' = [run EXCEPT ![p] = [run[p] EXCEPT !.handled = run[p].handled \cup {job[p].trigger}]]
    BY <1>2 DEF Reserve
  <2>6. run' \in [Processes -> Runs]
    BY <1>1, <2>4, <2>5 DEF Types
  <2>7. job' \in [Processes -> Jobs] /\ mine' \in [Processes -> SUBSET Attempts]
    BY <1>1, <1>2 DEF Reserve, Types, Jobs
  <2>. QED BY <1>1, <1>2, <2>3, <2>6, <2>7 DEF Reserve, Types, Goto, Steps, provider
<1>3. CASE Dispatch(p)
  BY <1>1, <1>3 DEF Dispatch, Types, Goto, Steps
<1>4. CASE DispatchNotSent(p)
  <2>1. job' \in [Processes -> Jobs]
    BY <1>1, <1>4 DEF DispatchNotSent, Types, Jobs, Outcomes
  <2>. QED BY <1>1, <1>4, <2>1 DEF DispatchNotSent, Types, Goto, Steps, provider
<1>5. CASE Answer(p)
  <2>1. job[p].attempt \in Attempts
    BY <1>5 DEF Answer, IInv, JobSafe, HeldIsPending, Holding, Types
  <2>2. PICK o \in AnswersTo(job[p].attempt) :
          job' = [job EXCEPT ![p].outcome = o,
                             ![p].outgoing = IF o = "ACCEPTED" THEN MessageOf(job[p].attempt) ELSE 0]
    BY <1>5 DEF Answer
  <2>3. o \in Outcomes /\ MessageOf(job[p].attempt) \in 0..MaxMessages /\ 0 \in 0..MaxMessages
    BY <1>1, <2>1, <2>2, MessageOfType, ConversationBoundAssumption DEF AnswersTo, Outcomes
  <2>4. job' \in [Processes -> Jobs]
    BY <1>1, <2>2, <2>3 DEF Types, Jobs
  <2>. QED BY <1>1, <1>5, <2>4 DEF Answer, Types, Goto, Steps, provider
<1>6. CASE RecordOutcome(p) \/ RecordOutcomeFails(p)
  <2>1. run[p].chats \in Seq(Entries) /\ Continue(p, run[p].chats) /\ Holding(p) /\ Ignore(p)
    BY <1>1, <1>6 DEF RecordOutcome, RecordOutcomeFails, Runs, Holding
  <2>2. record' \in [Attempts -> Records]
    <3>1. CASE RecordOutcome(p)
      <4>1. job[p].attempt \in Attempts /\ job[p].outcome \in States /\ job[p].outgoing \in 0..MaxMessages
        BY <1>1, <2>1, <3>1 DEF RecordOutcome, ValidOutcome, Outcomes, States, IInv, JobSafe,
          HeldIsPending, Types, Jobs
      <4>. DEFINE a == job[p].attempt
                  r == Settled(record[a], job[p].outcome, job[p].outgoing)
      <4>2. r \in Records
        BY <1>1, <4>1, OutcomeType DEF Types
      <4>3. record' = [record EXCEPT ![a] = r]
        BY <1>1, <3>1, <4>1 DEF RecordOutcome, Settled, Types
      <4>. QED BY <1>1, <4>2, <4>3 DEF Types
    <3>2. CASE RecordOutcomeFails(p)
      BY <1>1, <3>2 DEF RecordOutcomeFails, Types
    <3>. QED BY <1>6, <3>1, <3>2
  <2>. QED BY <1>1, <1>6, <2>1, <2>2, ContinueType, IgnoreType
         DEF RecordOutcome, RecordOutcomeFails, Types, provider
<1>. QED BY <1>2, <1>3, <1>4, <1>5, <1>6 DEF Write

LEMMA ReconciledType ==
  ASSUME NEW r \in Records, NEW e \in Evidence
  PROVE  /\ WithReconciliation(r, e) \in Records
         /\ WithReconciliation(r, e).trigger = r.trigger
         /\ WithReconciliation(r, e).action = r.action
         /\ WithReconciliation(r, e).outgoing = r.outgoing
         /\ WithReconciliation(r, e).state
              = IF Positive(e) THEN "TARGET_REPLY_CONFIRMED" ELSE r.state
         /\ WithReconciliation(r, e).evidence
              = IF ~Positive(e) /\ r.state = "TARGET_REPLY_CONFIRMED" THEN r.evidence ELSE e
BY DEF WithReconciliation, Records, States

LEMMA ClassificationType ==
  ASSUME Types, NEW t, NEW g
  PROVE  \A e \in Classification(t, g) :
           /\ e \in Evidence
           /\ Positive(e) => e.message \in AnswersOf(t)
<1>1. AnswersOf(t) \subseteq 0..MaxMessages
  BY Domain DEF AnswersOf
<1>2. ~Positive(NoEvidence)
  BY DEF Positive, NoEvidence
<1>. QED BY <1>1, <1>2, Constants DEF Classification, Evidence, EvidenceKinds

LEMMA ReconcileIsTyped ==
  ASSUME IInv, NEW p \in Processes, Reconcile(p)
  PROVE  Types'
<1>1. Types /\ job[p] \in Jobs
  BY DEF IInv, Types
<1>2. ASSUME NEW a \in Attempts, ReconcileStart(p, a)
      PROVE  Types'
  <2>1. record[a] \in Records
    BY <1>1 DEF Types
  <2>2. record[a].trigger \in 0..MaxMessages /\ record[a].outgoing \in 0..MaxMessages
    BY <2>1 DEF Records
  <2>3. job' \in [Processes -> Jobs]
    BY <1>1, <1>2, <2>2 DEF ReconcileStart, Types, Jobs
  <2>. QED BY <1>1, <1>2, <2>3 DEF ReconcileStart, Types, Goto, Steps, provider
<1>3. CASE ReadAndClassify(p)
  <2>1. job' \in [Processes -> Jobs]
    <3>1. PICK e \in Classification(job[p].trigger, job[p].outgoing) :
            job' = [job EXCEPT ![p].evidence = e]
      BY <1>3 DEF ReadAndClassify
    <3>2. e \in Evidence
      BY <1>1, <3>1, ClassificationType
    <3>3. [job[p] EXCEPT !.evidence = e] \in Jobs
      BY <1>1, <3>2, Constants, JobsType, ConversationBoundAssumption DEF Jobs
    <3>4. job' = [job EXCEPT ![p] = [job[p] EXCEPT !.evidence = e]]
      BY <3>1
    <3>. QED BY <1>1, <3>3, <3>4 DEF Types
  <2>. QED BY <1>1, <1>3, <2>1 DEF ReadAndClassify, Types, Goto, Steps, provider
<1>4. CASE RecordReconciliation(p)
  <2>1. job[p].attempt \in Attempts /\ job[p].evidence \in Evidence
    BY <1>1, <1>4 DEF RecordReconciliation, IInv, JobSafe, ReconcilesReply, Reconciling, Jobs
  <2>2. WithReconciliation(record[job[p].attempt], job[p].evidence) \in Records
    BY <1>1, <2>1, ReconciledType DEF Types
  <2>. QED BY <1>1, <1>4, <2>2, Constants
         DEF RecordReconciliation, EndReconcile, Types, Goto, Steps, provider
<1>5. CASE ReconcileFails(p)
  BY <1>1, <1>5, Constants DEF ReconcileFails, EndReconcile, Types, Goto, Steps, provider
<1>. QED BY <1>2, <1>3, <1>4, <1>5 DEF Reconcile

LEMMA NextIsTyped == IInv /\ [Next]_vars => Types'
<1>1. ASSUME UNCHANGED vars, Types PROVE Types'
  BY <1>1 DEF vars, Types
<1>. QED BY <1>1, WorldIsTyped, IterateIsTyped, WriteIsTyped, ReconcileIsTyped DEF Next, IInv

-----------------------------------------------------------------------------
(* What a step does to the conversation, the store and the provider.       *)

StepOf(p) == Iterate(p) \/ Write(p) \/ Reconcile(p) \/ Crash(p)
Provider == Speak \/ \E a \in Attempts : Deliver(a) \/ Refuse(a)

LEMMA Steppers == Next => Provider \/ \E p \in Processes : StepOf(p)
BY DEF Next, World, StepOf, Provider

LEMMA ProcessesSaveHistory ==
  ASSUME NEW p \in Processes, StepOf(p)
  PROVE  UNCHANGED history
<1>1. CASE Iterate(p)
  BY <1>1 DEF Iterate, ListChat, PassOver, ClearToLeave, ReadHistory, ClearToReply, provider
<1>2. CASE Write(p)
  BY <1>2 DEF Write, Reserve, Dispatch, DispatchNotSent, Answer, RecordOutcome, RecordOutcomeFails,
    provider
<1>3. CASE Reconcile(p)
  BY <1>3 DEF Reconcile, ReconcileStart, ReadAndClassify, RecordReconciliation, ReconcileFails,
    EndReconcile, provider
<1>. QED BY <1>1, <1>2, <1>3 DEF StepOf, Crash, provider

LEMMA HistoryGrows ==
  ASSUME IInv, Next
  PROVE  Grows /\ Sorted'
<1>1. Types /\ Sorted
  BY DEF IInv, StoreSafe
<1>2. CASE UNCHANGED history
  BY <1>1, <1>2 DEF Grows, Sorted
<1>3. CASE Provider
  <2>1. CASE Speak
    BY <1>1, <2>1, SayExtends DEF Speak
  <2>2. ASSUME NEW a \in Attempts, Deliver(a)
        PROVE  Grows /\ Sorted'
    BY <1>1, <1>2, <2>2, SayExtends DEF Deliver
  <2>3. ASSUME NEW a \in Attempts, Refuse(a)
        PROVE  UNCHANGED history
    BY <2>3 DEF Refuse
  <2>. QED BY <1>2, <1>3, <2>1, <2>2, <2>3 DEF Provider
<1>. QED BY <1>2, <1>3, ProcessesSaveHistory, Steppers

Reserved(t, x) == [NoRecord EXCEPT !.state = "SENDING", !.trigger = t, !.action = x]
Reserves(t, x, a) ==
  Reservable(t, a) /\ record' = [record EXCEPT ![a] = Reserved(t, x)]
Settles(a, o, g) ==
  /\ record[a].state = "SENDING"
  /\ o = "REJECTED" => flight[a] = "refused"
  /\ o = "NOT_SENT" => flight[a] = "none"
  /\ record' = [record EXCEPT ![a] = Settled(record[a], o, g)]
Observes(a, e) ==
  /\ record[a].state # "FREE"
  /\ ReconciliationAllowed(record[a], e)
  /\ record' = [record EXCEPT ![a] = WithReconciliation(record[a], e)]

LEMMA ReservedRecord ==
  ASSUME NEW t \in Triggers, NEW x \in {"REPLY", "LEAVE"}
  PROVE  /\ Reserved(t, x).state = "SENDING" /\ Reserved(t, x).trigger = t
         /\ Reserved(t, x).action = x /\ Reserved(t, x).outgoing = 0
BY DEF Reserved, NoRecord

(* The actions that write the store, and what each writes.                 *)
LEMMA ReserveWrites ==
  ASSUME IInv, NEW p \in Processes, NEW a \in Attempts, Reserve(p, a)
  PROVE  /\ job[p].trigger \in DOMAIN history /\ job[p].trigger \in Triggers
         /\ job[p].action \in {"REPLY", "LEAVE"}
         /\ Reserves(job[p].trigger, job[p].action, a) /\ UNCHANGED provider
<1>1. job[p].trigger \in DOMAIN history
  BY DEF Reserve, IInv, JobSafe, KnownMessages
<1>2. job[p].trigger \in Triggers /\ job[p].action \in {"REPLY", "LEAVE"}
  BY <1>1, Domain DEF IInv, Types, Jobs
<1>. QED BY <1>1, <1>2 DEF Reserve, Reserves, Reserved

LEMMA OutcomeWrites ==
  ASSUME IInv, NEW p \in Processes, RecordOutcome(p)
  PROVE  /\ job[p].attempt \in mine[p] /\ job[p].attempt \in Attempts
         /\ job[p].outcome \in Outcomes /\ job[p].outgoing \in 0..MaxMessages
         /\ Settles(job[p].attempt, job[p].outcome, job[p].outgoing) /\ UNCHANGED provider
<1>. DEFINE a == job[p].attempt
<1>1. /\ a \in mine[p] /\ job[p].outcome \in Outcomes
      /\ job[p].outcome = "REJECTED" => flight[a] = "refused"
      /\ job[p].outcome = "NOT_SENT" => flight[a] = "none"
  BY DEF RecordOutcome, IInv, JobSafe, HeldIsPending, Holding
<1>2. a \in Attempts /\ job[p].outgoing \in 0..MaxMessages
  BY <1>1 DEF IInv, Types, Jobs
<1>3. record[a].state = "SENDING"
  BY DEF RecordOutcome, ValidOutcome
<1>4. record' = [record EXCEPT ![a] = Settled(record[a], job[p].outcome, job[p].outgoing)]
  BY <1>2 DEF RecordOutcome, Settled, IInv, Types
<1>. QED BY <1>1, <1>2, <1>3, <1>4 DEF RecordOutcome, Settles

LEMMA ReconciliationWrites ==
  ASSUME IInv, NEW p \in Processes, RecordReconciliation(p)
  PROVE  /\ job[p].attempt \in Attempts /\ job[p].evidence \in Evidence
         /\ Observes(job[p].attempt, job[p].evidence) /\ UNCHANGED provider
<1>1. job[p].attempt \in Attempts /\ Held(p).state # "FREE"
  BY DEF RecordReconciliation, IInv, JobSafe, ReconcilesReply, Reconciling
<1>. QED BY <1>1 DEF RecordReconciliation, EndReconcile, Observes, Held, IInv, Types, Jobs, provider

Writes(p) ==
  (\E a \in Attempts : Reserve(p, a)) \/ RecordOutcome(p) \/ RecordReconciliation(p)

LEMMA OthersSaveRecord ==
  ASSUME NEW p \in Processes, StepOf(p), ~Writes(p)
  PROVE  UNCHANGED record
<1>1. CASE Iterate(p)
  BY <1>1 DEF Iterate, ListChat, PassOver, ClearToLeave, ReadHistory, ClearToReply
<1>2. CASE Write(p)
  BY <1>2 DEF Writes, Write, Dispatch, DispatchNotSent, Answer, RecordOutcomeFails
<1>3. CASE Reconcile(p)
  BY <1>3 DEF Writes, Reconcile, ReconcileStart, ReadAndClassify, ReconcileFails
<1>. QED BY <1>1, <1>2, <1>3 DEF StepOf, Crash

LEMMA ProviderSavesRecord == Provider => UNCHANGED record
BY DEF Provider, Speak, Deliver, Refuse

LEMMA StoreMoves ==
  ASSUME IInv, Next
  PROVE  \/ UNCHANGED record
         \/ \E a \in Attempts, t \in Triggers \cap DOMAIN history, x \in {"REPLY", "LEAVE"} :
              Reserves(t, x, a) /\ UNCHANGED provider
         \/ \E a \in Attempts, o \in Outcomes, g \in 0..MaxMessages :
              Settles(a, o, g) /\ UNCHANGED provider
         \/ \E a \in Attempts, e \in Evidence : Observes(a, e) /\ UNCHANGED provider
<1>1. ASSUME NEW p \in Processes, NEW a \in Attempts, Reserve(p, a)
      PROVE  \E b \in Attempts, t \in Triggers \cap DOMAIN history, x \in {"REPLY", "LEAVE"} :
               Reserves(t, x, b) /\ UNCHANGED provider
  BY <1>1, ReserveWrites
<1>2. ASSUME NEW p \in Processes, RecordOutcome(p)
      PROVE  \E a \in Attempts, o \in Outcomes, g \in 0..MaxMessages :
               Settles(a, o, g) /\ UNCHANGED provider
  BY <1>2, OutcomeWrites
<1>3. ASSUME NEW p \in Processes, RecordReconciliation(p)
      PROVE  \E a \in Attempts, e \in Evidence : Observes(a, e) /\ UNCHANGED provider
  BY <1>3, ReconciliationWrites
<1>. QED BY <1>1, <1>2, <1>3, OthersSaveRecord, ProviderSavesRecord, Steppers DEF Writes

LEMMA OthersSaveFlight ==
  ASSUME NEW p \in Processes, StepOf(p), ~Dispatch(p)
  PROVE  UNCHANGED flight
<1>1. CASE Iterate(p)
  BY <1>1 DEF Iterate, ListChat, PassOver, ClearToLeave, ReadHistory, ClearToReply, provider
<1>2. CASE Write(p)
  BY <1>2 DEF Write, Reserve, DispatchNotSent, Answer, RecordOutcome, RecordOutcomeFails, provider
<1>3. CASE Reconcile(p)
  BY <1>3 DEF Reconcile, ReconcileStart, ReadAndClassify, RecordReconciliation, ReconcileFails,
    EndReconcile, provider
<1>. QED BY <1>1, <1>2, <1>3 DEF StepOf, Crash, provider

ProviderActs(a, f) == flight[a] = "inflight" /\ flight' = [flight EXCEPT ![a] = f]

LEMMA ProviderMoves ==
  ASSUME Provider
  PROVE  UNCHANGED flight \/ \E a \in Attempts, f \in {"delivered", "refused"} : ProviderActs(a, f)
BY DEF Provider, Speak, Deliver, Refuse, ProviderActs

LEMMA FlightMoves ==
  ASSUME Next
  PROVE  \/ UNCHANGED flight
         \/ \E p \in Processes : Dispatch(p)
         \/ \E a \in Attempts, f \in {"delivered", "refused"} : ProviderActs(a, f) /\ UNCHANGED record
BY OthersSaveFlight, ProviderMoves, ProviderSavesRecord, Steppers

LEMMA DispatchMoves ==
  ASSUME IInv, NEW p \in Processes, Dispatch(p)
  PROVE  /\ job[p].attempt \in mine[p] /\ job[p].attempt \in Attempts
         /\ IsBlocking(record[job[p].attempt].state)
         /\ flight[job[p].attempt] = "none"
         /\ flight' = [flight EXCEPT ![job[p].attempt] = "inflight"]
         /\ UNCHANGED record
BY DEF Dispatch, IInv, Types, JobSafe, HeldIsPending, Holding, Held, IsBlocking, Blocking

-----------------------------------------------------------------------------
(* What each kind of write leaves behind.                                  *)

LEMMA AfterReserve ==
  ASSUME Types, NEW a \in Attempts, NEW t \in Triggers, NEW x \in {"REPLY", "LEAVE"},
         Reserves(t, x, a)
  PROVE  /\ record[a].state = "FREE" /\ BlockingFor(t) = {}
         /\ record'[a].state = "SENDING" /\ record'[a].trigger = t
         /\ record'[a].action = x /\ record'[a].outgoing = 0
         /\ \A b \in Attempts \ {a} : record'[b] = record[b]
BY ReservedRecord DEF Types, Reserves, Reservable

LEMMA AfterSettle ==
  ASSUME Types, NEW a \in Attempts, NEW o \in Outcomes, NEW g \in 0..MaxMessages, Settles(a, o, g)
  PROVE  /\ record[a].state = "SENDING"
         /\ record'[a].state = o /\ record'[a].outgoing = g
         /\ record'[a].trigger = record[a].trigger /\ record'[a].action = record[a].action
         /\ record'[a].evidence = record[a].evidence
         /\ \A b \in Attempts \ {a} : record'[b] = record[b]
<1>1. record[a] \in Records /\ o \in States
  BY DEF Types, Outcomes, States
<1>2. record'[a] = Settled(record[a], o, g) /\ \A b \in Attempts \ {a} : record'[b] = record[b]
  BY DEF Settles, Types
<1>. QED BY <1>1, <1>2, OutcomeType DEF Settles

LEMMA AfterObservation ==
  ASSUME Types, NEW a \in Attempts, NEW e \in Evidence, Observes(a, e)
  PROVE  /\ record[a].state # "FREE"
         /\ \/ ~Positive(e) /\ record'[a].state = record[a].state
            \/ /\ Positive(e) /\ IsBlocking(record[a].state)
               /\ record'[a].state = "TARGET_REPLY_CONFIRMED"
         /\ record'[a].trigger = record[a].trigger /\ record'[a].action = record[a].action
         /\ record'[a].outgoing = record[a].outgoing
         /\ record'[a].evidence
              = IF ~Positive(e) /\ record[a].state = "TARGET_REPLY_CONFIRMED"
                THEN record[a].evidence ELSE e
         /\ \A b \in Attempts \ {a} : record'[b] = record[b]
<1>1. record[a] \in Records /\ (Positive(e) => IsBlocking(record[a].state))
  BY DEF Types, Observes, ReconciliationAllowed, Reconcilable
<1>2. /\ record'[a] = WithReconciliation(record[a], e) /\ record[a].state # "FREE"
      /\ \A b \in Attempts \ {a} : record'[b] = record[b]
  BY DEF Observes, Types
<1>. QED BY <1>1, <1>2, ReconciledType

-----------------------------------------------------------------------------
(* The store is safe after every step.                                     *)

LEMMA ReserveKeepsStore ==
  ASSUME IInv, Next, NEW a \in Attempts, NEW t \in Triggers \cap DOMAIN history,
         NEW x \in {"REPLY", "LEAVE"}, Reserves(t, x, a), UNCHANGED provider
  PROVE  StoreSafe'
<1>1. Types /\ StoreSafe
  BY DEF IInv
<1>2. /\ record[a].state = "FREE" /\ BlockingFor(t) = {}
      /\ record'[a].state = "SENDING" /\ record'[a].trigger = t /\ record'[a].outgoing = 0
      /\ \A b \in Attempts \ {a} : record'[b] = record[b]
  BY <1>1, AfterReserve
<1>3. history' = history /\ flight' = flight
  BY DEF provider
<1>4. flight[a] = "none"
  BY <1>1, <1>2 DEF StoreSafe, FreeIsUntouched
<1>5. OneBlockingAttempt'
  <2>1. \A b \in Attempts : IsBlocking(record[b].state) => record[b].trigger # t
    BY <1>2 DEF BlockingFor
  <2>. QED BY <1>1, <1>2, <2>1 DEF StoreSafe, OneBlockingAttempt
<1>6. FreeIsUntouched' /\ TriggerIsMessage'
  BY <1>1, <1>2, <1>3 DEF StoreSafe, FreeIsUntouched, TriggerIsMessage
<1>7. ExposedIsBlocking' /\ SendingIsUnanswered'
  BY <1>1, <1>2, <1>3, <1>4 DEF StoreSafe, ExposedIsBlocking, SendingIsUnanswered
<1>. QED BY <1>5, <1>6, <1>7, HistoryGrows DEF StoreSafe

LEMMA SettleKeepsStore ==
  ASSUME IInv, Next, NEW a \in Attempts, NEW o \in Outcomes, NEW g \in 0..MaxMessages,
         Settles(a, o, g), UNCHANGED provider
  PROVE  StoreSafe'
<1>1. Types /\ StoreSafe
  BY DEF IInv
<1>2. /\ record[a].state = "SENDING" /\ record'[a].state = o
      /\ record'[a].trigger = record[a].trigger
      /\ \A b \in Attempts \ {a} : record'[b] = record[b]
  BY <1>1, AfterSettle
<1>3. /\ history' = history /\ flight' = flight
      /\ o = "REJECTED" => flight[a] = "refused"
      /\ o = "NOT_SENT" => flight[a] = "none"
  BY DEF provider, Settles
<1>4. IsBlocking(record[a].state) /\ o # "FREE" /\ o # "SENDING"
  BY <1>2 DEF IsBlocking, Blocking, Outcomes
<1>5. OneBlockingAttempt'
  BY <1>1, <1>2, <1>4 DEF StoreSafe, OneBlockingAttempt
<1>6. FreeIsUntouched' /\ TriggerIsMessage' /\ SendingIsUnanswered'
  BY <1>1, <1>2, <1>3, <1>4
    DEF StoreSafe, FreeIsUntouched, TriggerIsMessage, SendingIsUnanswered
<1>7. ExposedIsBlocking'
  <2>1. flight[a] \in {"inflight", "delivered"} => IsBlocking(o)
    BY <1>3 DEF Outcomes, IsBlocking, Blocking
  <2>. QED BY <1>1, <1>2, <1>3, <2>1 DEF StoreSafe, ExposedIsBlocking
<1>. QED BY <1>5, <1>6, <1>7, HistoryGrows DEF StoreSafe

LEMMA ObservationKeepsStore ==
  ASSUME IInv, Next, NEW a \in Attempts, NEW e \in Evidence, Observes(a, e), UNCHANGED provider
  PROVE  StoreSafe'
<1>1. Types /\ StoreSafe
  BY DEF IInv
<1>2. /\ record[a].state # "FREE"
      /\ \/ record'[a].state = record[a].state
         \/ IsBlocking(record[a].state) /\ record'[a].state = "TARGET_REPLY_CONFIRMED"
      /\ record'[a].trigger = record[a].trigger /\ record'[a].outgoing = record[a].outgoing
      /\ \A b \in Attempts \ {a} : record'[b] = record[b]
  BY <1>1, AfterObservation
<1>3. history' = history /\ flight' = flight
  BY DEF provider
<1>4. IsBlocking("TARGET_REPLY_CONFIRMED")
  BY DEF IsBlocking, Blocking
<1>5. /\ \A b \in Attempts : IsBlocking(record'[b].state) <=> IsBlocking(record[b].state)
      /\ \A b \in Attempts : record'[b].trigger = record[b].trigger
      /\ \A b \in Attempts : record'[b].outgoing = record[b].outgoing
  BY <1>2, <1>4
<1>6. OneBlockingAttempt' /\ ExposedIsBlocking'
  BY <1>1, <1>3, <1>5 DEF StoreSafe, OneBlockingAttempt, ExposedIsBlocking
<1>7. FreeIsUntouched' /\ TriggerIsMessage' /\ SendingIsUnanswered'
  BY <1>1, <1>2, <1>3, <1>5 DEF StoreSafe, FreeIsUntouched, TriggerIsMessage, SendingIsUnanswered
<1>. QED BY <1>6, <1>7, HistoryGrows DEF StoreSafe

LEMMA ProviderKeepsStore ==
  ASSUME IInv, Next, UNCHANGED record
  PROVE  StoreSafe'
<1>1. Types /\ StoreSafe
  BY DEF IInv
<1>2. ~IsBlocking("FREE")
  BY DEF IsBlocking, Blocking
<1>3. \A b \in Attempts : flight'[b] = flight[b] \/ IsBlocking(record[b].state)
  <2>1. ASSUME NEW p \in Processes, Dispatch(p)
        PROVE  \A b \in Attempts : flight'[b] = flight[b] \/ IsBlocking(record[b].state)
    BY <1>1, <2>1, DispatchMoves DEF Types
  <2>2. ASSUME NEW a \in Attempts, NEW f, flight[a] = "inflight", flight' = [flight EXCEPT ![a] = f]
        PROVE  \A b \in Attempts : flight'[b] = flight[b] \/ IsBlocking(record[b].state)
    BY <1>1, <2>2 DEF Types, StoreSafe, ExposedIsBlocking
  <2>. QED BY <2>1, <2>2, FlightMoves DEF ProviderActs
<1>4. ExposedIsBlocking' /\ OneBlockingAttempt' /\ SendingIsUnanswered'
  BY <1>1, <1>3 DEF StoreSafe, ExposedIsBlocking, OneBlockingAttempt, SendingIsUnanswered
<1>5. FreeIsUntouched' /\ TriggerIsMessage'
  BY <1>1, <1>2, <1>3, HistoryGrows DEF StoreSafe, FreeIsUntouched, TriggerIsMessage, Grows
<1>. QED BY <1>4, <1>5, HistoryGrows DEF StoreSafe

LEMMA StoreStaysSafe == IInv /\ Next => StoreSafe'
BY StoreMoves, ReserveKeepsStore, SettleKeepsStore, ObservationKeepsStore, ProviderKeepsStore

-----------------------------------------------------------------------------
(* What a process works on stays as it needs it.                           *)

(* An attempt in use keeps its identity, and a refusal is final.           *)
StoreKept ==
  /\ \A a \in Attempts : record[a].state # "FREE" =>
       /\ record'[a].state # "FREE"
       /\ record'[a].trigger = record[a].trigger /\ record'[a].action = record[a].action
  /\ \A a \in Attempts : flight[a] = "refused" => flight'[a] = "refused"

LEMMA StoreIsKept == IInv /\ Next => StoreKept
<1>. SUFFICES ASSUME IInv, Next PROVE StoreKept
  OBVIOUS
<1>1. Types
  BY DEF IInv
<1>2. \A a \in Attempts : record[a].state # "FREE" =>
        /\ record'[a].state # "FREE"
        /\ record'[a].trigger = record[a].trigger /\ record'[a].action = record[a].action
  <2>1. ASSUME NEW a \in Attempts, NEW t \in Triggers, NEW x \in {"REPLY", "LEAVE"},
               Reserves(t, x, a)
        PROVE  \A b \in Attempts : record[b].state # "FREE" => record'[b] = record[b]
    BY <1>1, <2>1, AfterReserve
  <2>2. ASSUME NEW a \in Attempts, NEW o \in Outcomes, NEW g \in 0..MaxMessages, Settles(a, o, g)
        PROVE  \A b \in Attempts : record[b].state # "FREE" =>
                 /\ record'[b].state # "FREE"
                 /\ record'[b].trigger = record[b].trigger /\ record'[b].action = record[b].action
    BY <1>1, <2>2, AfterSettle DEF Outcomes
  <2>3. ASSUME NEW a \in Attempts, NEW e \in Evidence, Observes(a, e)
        PROVE  \A b \in Attempts : record[b].state # "FREE" =>
                 /\ record'[b].state # "FREE"
                 /\ record'[b].trigger = record[b].trigger /\ record'[b].action = record[b].action
    BY <1>1, <2>3, AfterObservation
  <2>. QED BY <2>1, <2>2, <2>3, StoreMoves
<1>3. \A a \in Attempts : flight[a] = "refused" => flight'[a] = "refused"
  <2>1. ASSUME NEW p \in Processes, Dispatch(p)
        PROVE  \A a \in Attempts : flight[a] = "refused" => flight'[a] = "refused"
    BY <1>1, <2>1, DispatchMoves DEF Types
  <2>. QED BY <1>1, <2>1, FlightMoves DEF Types, ProviderActs
<1>. QED BY <1>2, <1>3 DEF StoreKept

Undisturbed(q) ==
  /\ pc'[q] = pc[q] /\ job'[q] = job[q] /\ run'[q] = run[q]
  /\ ignored'[q] = ignored[q] /\ mine'[q] = mine[q]

LEMMA Undisturbs ==
  ASSUME Types, NEW p \in Processes, StepOf(p), NEW q \in Processes \ {p}
  PROVE  Undisturbed(q)
<1>. USE DEF Types, Undisturbed, Goto
<1>1. CASE Iterate(p)
  BY <1>1 DEF Iterate, ListChat, PassOver, Continue, ClearToLeave, ReadHistory, TakeChat,
    ClearToReply
<1>2. CASE Write(p)
  BY <1>2 DEF Write, Reserve, Dispatch, DispatchNotSent, Answer, RecordOutcome,
    RecordOutcomeFails, Ignore, Continue
<1>3. CASE Reconcile(p)
  BY <1>3 DEF Reconcile, ReconcileStart, ReadAndClassify, RecordReconciliation, ReconcileFails,
    EndReconcile
<1>4. CASE Crash(p)
  BY <1>4 DEF Crash
<1>. QED BY <1>1, <1>2, <1>3, <1>4 DEF StepOf

LEMMA ProviderDisturbsNone ==
  ASSUME Provider, NEW q \in Processes
  PROVE  Undisturbed(q)
BY DEF Provider, Speak, Deliver, Refuse, Undisturbed

NotOf(q) == Provider \/ \E p \in Processes \ {q} : StepOf(p)

LEMMA NotOfDisturbs ==
  ASSUME Types, NEW q \in Processes, NotOf(q)
  PROVE  Undisturbed(q) /\ Next
BY Undisturbs, ProviderDisturbsNone DEF NotOf, Next, StepOf, Provider, World

Pending == {"SENDING", "TARGET_REPLY_CONFIRMED"}

(* The attempt a process reserved is left to it: nobody else records an    *)
(* outcome of it or sends it, an operator can only confirm it.             *)
LEMMA OwnIsKept ==
  ASSUME IInv, NEW q \in Processes, NotOf(q), NEW b \in mine[q]
  PROVE  /\ record'[b] = record[b] \/ \E e \in Evidence : Observes(b, e)
         /\ record[b].state \in Pending => record'[b].state \in Pending
         /\ IsBlocking(record[b].state) <=> IsBlocking(record'[b].state)
         /\ flight[b] = "none" => flight'[b] = "none"
<1>1. /\ Types /\ b \in Attempts /\ record[b].state # "FREE"
      /\ \A p \in Processes \ {q} : b \notin mine[p]
  BY DEF IInv, Types, OwnedIsUsed, OwnedApart
<1>2. record'[b] = record[b] \/ \E e \in Evidence : Observes(b, e)
  <2>1. ASSUME NEW p \in Processes \ {q}, NEW a \in Attempts, Reserve(p, a)
        PROVE  record'[b] = record[b]
    BY <1>1, <2>1, ReserveWrites, AfterReserve
  <2>2. ASSUME NEW p \in Processes \ {q}, RecordOutcome(p)
        PROVE  record'[b] = record[b]
    BY <1>1, <2>2, OutcomeWrites, AfterSettle
  <2>3. ASSUME NEW p \in Processes \ {q}, RecordReconciliation(p)
        PROVE  record'[b] = record[b] \/ \E e \in Evidence : Observes(b, e)
    BY <1>1, <2>3, ReconciliationWrites, AfterObservation
  <2>. QED BY <2>1, <2>2, <2>3, OthersSaveRecord, ProviderSavesRecord DEF NotOf, Writes
<1>3. /\ record[b].state \in Pending => record'[b].state \in Pending
      /\ IsBlocking(record[b].state) <=> IsBlocking(record'[b].state)
  BY <1>1, <1>2, AfterObservation DEF Pending, IsBlocking, Blocking
<1>4. flight[b] = "none" => flight'[b] = "none"
  <2>1. ASSUME NEW p \in Processes \ {q}, Dispatch(p)
        PROVE  flight'[b] = flight[b]
    BY <1>1, <2>1, DispatchMoves DEF Types
  <2>2. Provider => (flight[b] = "none" => flight'[b] = "none")
    BY <1>1, ProviderMoves DEF Types, ProviderActs
  <2>. QED BY <2>1, <2>2, OthersSaveFlight DEF NotOf
<1>. QED BY <1>2, <1>3, <1>4

LEMMA OthersStaySafe ==
  ASSUME IInv, NEW q \in Processes, NotOf(q)
  PROVE  JobSafe(q)'
<1>1. Types /\ JobSafe(q) /\ Undisturbed(q) /\ Next /\ StoreKept /\ Grows
  BY NotOfDisturbs, StoreIsKept, HistoryGrows DEF IInv
<1>2. KnownMessages(q)'
  BY <1>1 DEF JobSafe, KnownMessages, AtChat, Undisturbed, Grows
<1>3. ReconcilesReply(q)'
  BY <1>1 DEF JobSafe, ReconcilesReply, Reconciling, Held, Undisturbed, StoreKept
<1>4. HeldIsPending(q)'
  <2>. DEFINE a == job[q].attempt
  <2>1. SUFFICES ASSUME Holding(q)
                 PROVE  HeldIsPending(q)'
    BY <1>1 DEF HeldIsPending, Holding, Undisturbed
  <2>2. /\ a \in mine[q] /\ a \in Attempts /\ record[a].state # "FREE"
        /\ record[a].state \in Pending
    BY <1>1, <2>1 DEF JobSafe, HeldIsPending, Held, Types, Pending
  <2>3. /\ record'[a].state \in Pending
        /\ record'[a].trigger = record[a].trigger /\ record'[a].action = record[a].action
        /\ flight[a] = "none" => flight'[a] = "none"
        /\ flight[a] = "refused" => flight'[a] = "refused"
    BY <1>1, <2>2, OwnIsKept DEF StoreKept
  <2>. QED BY <1>1, <2>1, <2>2, <2>3 DEF JobSafe, HeldIsPending, Holding, Held, Undisturbed, Pending
<1>. QED BY <1>2, <1>3, <1>4 DEF JobSafe

(* The process that takes the step is safe after it.                       *)
LEMMA IdleIsSafe ==
  ASSUME NEW p \in Processes, pc'[p] = "idle", run'[p] = IdleRun, job'[p] = NoJob,
         ignored'[p] \subseteq DOMAIN history'
  PROVE  JobSafe(p)'
BY DEF JobSafe, HeldIsPending, Holding, ReconcilesReply, Reconciling, KnownMessages, AtChat, IdleRun

LEMMA ContinueIsSafe ==
  ASSUME Types, NEW p \in Processes, NEW chats \in Seq(Entries), Continue(p, chats),
         \A i \in DOMAIN chats : chats[i].trigger \in DOMAIN history,
         UNCHANGED history, ignored'[p] \subseteq DOMAIN history
  PROVE  JobSafe(p)'
<1>1. job'[p] = NoJob
  BY DEF Continue, Types
<1>2. CASE chats = <<>>
  <2>1. pc'[p] = "idle" /\ run'[p] = IdleRun
    BY <1>2 DEF Continue, Goto, Types
  <2>. QED BY <1>1, <2>1, IdleIsSafe
<1>3. CASE chats # <<>>
  <2>1. pc'[p] = "chat" /\ run'[p].chats = chats
    BY <1>3 DEF Continue, Goto, Types, Runs
  <2>. QED BY <1>3, <2>1 DEF JobSafe, HeldIsPending, Holding, ReconcilesReply, Reconciling,
              KnownMessages, AtChat
<1>. QED BY <1>2, <1>3

LEMMA IteratorIsSafe ==
  ASSUME IInv, NEW p \in Processes, Iterate(p)
  PROVE  JobSafe(p)'
<1>1. Types /\ KnownMessages(p) /\ run[p] \in Runs
  BY DEF IInv, JobSafe, Types
<1>2. UNCHANGED <<history, ignored>>
  BY DEF Iterate, ListChat, PassOver, ClearToLeave, ReadHistory, ClearToReply, provider
<1>3. ignored'[p] \subseteq DOMAIN history
  BY <1>1, <1>2 DEF KnownMessages
<1>. DEFINE Known(chats) ==
       chats \in Seq(Entries) /\ \A i \in DOMAIN chats : chats[i].trigger \in DOMAIN history
<1>4. Known(run[p].chats) /\ (AtChat(p) => Known(Tail(run[p].chats)))
  BY <1>1, Listed DEF KnownMessages, Runs
<1>. USE DEF JobSafe, HeldIsPending, Holding, ReconcilesReply, Reconciling
<1>5. CASE ListChat(p)
  <2>. DEFINE e == [trigger |-> Len(history), discard |-> history[Len(history)].who = "discard"]
  <2>1. pc'[p] = "listing" /\ run'[p].chats = Append(run[p].chats, e)
    BY <1>1, <1>5 DEF ListChat, Goto, Types, Runs
  <2>2. Len(history) \in DOMAIN history
    BY <1>1, <1>5, Domain DEF ListChat, LastIsEmployers, Types
  <2>3. run[p].chats \in Seq(Entries) /\ e \in Entries
    BY <1>1, <2>2, Domain DEF Runs, Entries
  <2>4. /\ Append(run[p].chats, e) # <<>>
        /\ \A i \in DOMAIN Append(run[p].chats, e) :
             \/ i \in DOMAIN run[p].chats /\ Append(run[p].chats, e)[i] = run[p].chats[i]
             \/ Append(run[p].chats, e)[i] = e
    BY <2>3
  <2>. QED BY <1>1, <1>2, <2>1, <2>2, <2>4 DEF KnownMessages, AtChat
<1>6. CASE PassOver(p)
  <2>1. CASE AtChat(p) /\ Continue(p, Tail(run[p].chats))
    BY <1>1, <1>2, <1>3, <1>4, <2>1, ContinueIsSafe
  <2>2. CASE Continue(p, run[p].chats)
    BY <1>1, <1>2, <1>3, <1>4, <2>2, ContinueIsSafe
  <2>. QED BY <1>6, <2>1, <2>2 DEF PassOver
<1>7. ASSUME AtChat(p), TakeChat(p), pc'[p] \in {"read", "reserve"}, job'[p].trigger \in DOMAIN history
      PROVE  JobSafe(p)'
  <2>1. \A i \in DOMAIN run'[p].chats : run'[p].chats[i].trigger \in DOMAIN history
    BY <1>7, <1>4, TakeChatType
  <2>. QED BY <1>2, <1>3, <1>7, <2>1 DEF KnownMessages, AtChat
<1>8. CASE ClearToLeave(p)
  <2>1. AtChat(p) /\ TakeChat(p) /\ pc'[p] = "reserve"
    BY <1>1, <1>8 DEF ClearToLeave, Goto, Types
  <2>2. job'[p].trigger = Head(run[p].chats).trigger
    BY <1>1, <1>8 DEF ClearToLeave, Types, Jobs
  <2>. QED BY <1>7, <2>1, <2>2, Listed
<1>9. CASE ReadHistory(p)
  <2>1. AtChat(p) /\ TakeChat(p) /\ pc'[p] = "read"
    BY <1>1, <1>9 DEF ReadHistory, Goto, Types
  <2>2. job'[p].trigger = IF LastIsEmployers THEN Len(history) ELSE Head(run[p].chats).trigger
    BY <1>1, <1>9 DEF ReadHistory, Types, Jobs
  <2>3. LastIsEmployers => Len(history) \in DOMAIN history
    BY <1>1, Domain DEF LastIsEmployers, Types
  <2>. QED BY <1>7, <2>1, <2>2, <2>3, Listed
<1>10. CASE ClearToReply(p)
  <2>1. pc[p] = "read" /\ pc'[p] = "reserve" /\ UNCHANGED <<run, job>>
    BY <1>1, <1>10 DEF ClearToReply, Goto, Types
  <2>. QED BY <1>1, <1>2, <2>1 DEF KnownMessages, AtChat
<1>. QED BY <1>5, <1>6, <1>8, <1>9, <1>10 DEF Iterate

LEMMA OwnersStay ==
  ASSUME IInv, Next
  PROVE  OwnedIsUsed' /\ OwnedApart'
<1>1. Types /\ OwnedIsUsed /\ OwnedApart /\ StoreKept
  BY StoreIsKept DEF IInv
<1>2. CASE UNCHANGED mine
  BY <1>1, <1>2 DEF OwnedIsUsed, OwnedApart, StoreKept, Types
<1>3. ASSUME NEW p \in Processes, NEW a \in Attempts, Reserve(p, a)
      PROVE  OwnedIsUsed' /\ OwnedApart'
  <2>1. record[a].state = "FREE" /\ record'[a].state = "SENDING"
    BY <1>1, <1>3, ReserveWrites, AfterReserve
  <2>2. \A q \in Processes : mine'[q] = IF q = p THEN mine[q] \cup {a} ELSE mine[q]
    BY <1>1, <1>3 DEF Reserve, Types
  <2>3. \A q \in Processes : a \notin mine[q]
    BY <1>1, <2>1 DEF OwnedIsUsed
  <2>4. OwnedApart'
    BY <1>1, <2>2, <2>3 DEF OwnedApart
  <2>5. OwnedIsUsed'
    <3>1. SUFFICES ASSUME NEW q \in Processes, NEW b \in mine'[q]
                   PROVE  record'[b].state # "FREE"
      BY DEF OwnedIsUsed
    <3>2. CASE b = a
      BY <2>1, <3>2
    <3>3. CASE b # a
      <4>1. b \in mine[q] /\ b \in Attempts /\ record[b].state # "FREE"
        BY <1>1, <2>2, <3>3 DEF OwnedIsUsed, Types
      <4>. QED BY <1>1, <4>1 DEF StoreKept
    <3>. QED BY <3>2, <3>3
  <2>. QED BY <2>4, <2>5
<1>4. ASSUME NEW p \in Processes, Crash(p)
      PROVE  OwnedIsUsed' /\ OwnedApart'
  <2>1. \A q \in Processes : mine'[q] = IF q = p THEN {} ELSE mine[q]
    BY <1>1, <1>4 DEF Crash, Types
  <2>. QED BY <1>1, <2>1 DEF OwnedIsUsed, OwnedApart, StoreKept, Types
<1>5. ASSUME NEW p \in Processes, Iterate(p) \/ Write(p) \/ Reconcile(p),
             ~\E a \in Attempts : Reserve(p, a)
      PROVE  UNCHANGED mine
  BY <1>5 DEF Iterate, ListChat, PassOver, ClearToLeave, ReadHistory, ClearToReply, Write, Dispatch,
    DispatchNotSent, Answer, RecordOutcome, RecordOutcomeFails, Reconcile, ReconcileStart,
    ReadAndClassify, RecordReconciliation, ReconcileFails, EndReconcile
<1>6. Provider => UNCHANGED mine
  BY DEF Provider, Speak, Deliver, Refuse
<1>. QED BY <1>2, <1>3, <1>4, <1>5, <1>6, Steppers DEF StepOf

LEMMA WriterIsSafe ==
  ASSUME IInv, NEW p \in Processes, Write(p)
  PROVE  JobSafe(p)'
<1>1. Types /\ HeldIsPending(p) /\ KnownMessages(p) /\ run[p] \in Runs /\ job[p] \in Jobs
  BY DEF IInv, JobSafe, Types
<1>2. UNCHANGED history
  BY ProcessesSaveHistory DEF StepOf
<1>. USE DEF JobSafe, Holding, ReconcilesReply, Reconciling, AtChat, Held
<1>3. ASSUME NEW a \in Attempts, Reserve(p, a)
      PROVE  JobSafe(p)'
  <2>1. /\ pc'[p] = "reserved" /\ job'[p].attempt = a
        /\ job'[p].trigger = job[p].trigger /\ job'[p].action = job[p].action
        /\ a \in mine'[p] /\ ignored' = ignored /\ flight' = flight
    BY <1>1, <1>3 DEF Reserve, Goto, Types, Jobs, provider
  <2>2. /\ run'[p].chats = run[p].chats /\ job[p].trigger \in run'[p].handled
    BY <1>1, <1>3 DEF Reserve, Types, Runs
  <2>3. /\ record'[a].state = "SENDING" /\ record'[a].trigger = job[p].trigger
        /\ record'[a].action = job[p].action /\ flight[a] = "none"
    BY <1>1, <1>3, ReserveWrites, AfterReserve DEF IInv, StoreSafe, FreeIsUntouched
  <2>. QED BY <1>1, <1>2, <2>1, <2>2, <2>3 DEF HeldIsPending, KnownMessages
<1>4. CASE Dispatch(p)
  <2>1. pc[p] = "reserved" /\ pc'[p] = "waiting" /\ UNCHANGED <<record, ignored, mine, run, job>>
    BY <1>1, <1>4 DEF Dispatch, Goto, Types
  <2>. QED BY <1>1, <1>2, <2>1 DEF HeldIsPending, KnownMessages
<1>5. CASE DispatchNotSent(p)
  <2>1. /\ pc[p] = "reserved" /\ pc'[p] = "answered" /\ UNCHANGED <<record, flight, ignored, mine, run>>
        /\ job'[p].outcome = "NOT_SENT" /\ job'[p].attempt = job[p].attempt
        /\ job'[p].trigger = job[p].trigger /\ job'[p].action = job[p].action
    BY <1>1, <1>5 DEF DispatchNotSent, Goto, Types, Jobs, provider
  <2>. QED BY <1>1, <1>2, <2>1 DEF HeldIsPending, KnownMessages, Outcomes
<1>6. CASE Answer(p)
  <2>1. /\ pc[p] = "waiting" /\ pc'[p] = "answered" /\ UNCHANGED <<record, flight, ignored, mine, run>>
        /\ job'[p].outcome \in AnswersTo(job[p].attempt) /\ job'[p].attempt = job[p].attempt
        /\ job'[p].trigger = job[p].trigger /\ job'[p].action = job[p].action
    BY <1>1, <1>6 DEF Answer, Goto, Types, Jobs, provider
  <2>2. /\ job'[p].outcome \in Outcomes /\ job'[p].outcome # "NOT_SENT"
        /\ job'[p].outcome = "REJECTED" => flight[job[p].attempt] = "refused"
    BY <2>1 DEF AnswersTo, Outcomes
  <2>. QED BY <1>1, <1>2, <2>1, <2>2 DEF HeldIsPending, KnownMessages
<1>7. CASE RecordOutcome(p) \/ RecordOutcomeFails(p)
  <2>1. Holding(p) /\ Ignore(p) /\ Continue(p, run[p].chats) /\ run[p].chats \in Seq(Entries)
    BY <1>1, <1>7 DEF RecordOutcome, RecordOutcomeFails, Runs
  <2>2. ignored'[p] \subseteq DOMAIN history
    BY <1>1, <2>1, IgnoreType DEF Ignore, KnownMessages, Types
  <2>. QED BY <1>1, <1>2, <2>1, <2>2, ContinueIsSafe DEF KnownMessages
<1>. QED BY <1>3, <1>4, <1>5, <1>6, <1>7 DEF Write

LEMMA ReconcilerIsSafe ==
  ASSUME IInv, NEW p \in Processes, Reconcile(p)
  PROVE  JobSafe(p)'
<1>1. Types /\ ReconcilesReply(p) /\ KnownMessages(p) /\ run[p] \in Runs /\ job[p] \in Jobs
  BY DEF IInv, JobSafe, Types
<1>2. UNCHANGED <<history, ignored>> /\ run' = run
  BY DEF Reconcile, ReconcileStart, ReadAndClassify, RecordReconciliation, ReconcileFails,
    EndReconcile, provider
<1>. USE DEF JobSafe, HeldIsPending, Holding, AtChat
<1>3. ASSUME NEW a \in Attempts, ReconcileStart(p, a)
      PROVE  JobSafe(p)'
  <2>1. /\ pc[p] = "idle" /\ pc'[p] = "reading" /\ UNCHANGED record
        /\ job'[p].attempt = a /\ job'[p].trigger = record[a].trigger
    BY <1>1, <1>3 DEF ReconcileStart, Goto, Types, Jobs
  <2>2. record[a].state # "FREE"
    BY <1>3 DEF ReconcileStart, Reconcilable, IsBlocking, Blocking
  <2>. QED BY <1>1, <1>2, <2>1, <2>2 DEF ReconcilesReply, Reconciling, KnownMessages, Held
<1>4. CASE ReadAndClassify(p)
  <2>1. /\ pc[p] = "reading" /\ pc'[p] = "recording" /\ UNCHANGED record
        /\ job'[p].attempt = job[p].attempt /\ job'[p].trigger = job[p].trigger
    BY <1>1, <1>4 DEF ReadAndClassify, Goto, Types, Jobs
  <2>. QED BY <1>1, <1>2, <2>1 DEF ReconcilesReply, Reconciling, KnownMessages, Held
<1>5. CASE RecordReconciliation(p) \/ ReconcileFails(p)
  <2>1. pc'[p] = "idle" /\ job'[p] = NoJob /\ run'[p] = IdleRun
    BY <1>1, <1>2, <1>5 DEF RecordReconciliation, ReconcileFails, EndReconcile, Goto, Types,
      ReconcilesReply, Reconciling
  <2>. QED BY <1>1, <1>2, <2>1, IdleIsSafe DEF KnownMessages
<1>. QED BY <1>3, <1>4, <1>5 DEF Reconcile

LEMMA CrashedIsSafe ==
  ASSUME IInv, NEW p \in Processes, Crash(p)
  PROVE  JobSafe(p)'
BY IdleIsSafe DEF Crash, Goto, IInv, Types

LEMMA JobsStaySafe == IInv /\ Next => \A p \in Processes : JobSafe(p)'
<1>. SUFFICES ASSUME IInv, Next, NEW q \in Processes PROVE JobSafe(q)'
  OBVIOUS
<1>1. NotOf(q) \/ StepOf(q)
  BY Steppers DEF NotOf
<1>. QED BY <1>1, OthersStaySafe, IteratorIsSafe, WriterIsSafe, ReconcilerIsSafe, CrashedIsSafe
       DEF StepOf

LEMMA InitIInv == Init => IInv
<1>. SUFFICES ASSUME Init PROVE IInv
  OBVIOUS
<1>1. history = <<>> /\ DOMAIN history = {}
  BY DEF Init
<1>2. Types
  BY Constants, <1>1, ConversationBoundAssumption DEF Init, Types, Steps
<1>3. \A a \in Attempts : record[a] = NoRecord /\ flight[a] = "none"
  BY DEF Init
<1>4. StoreSafe
  BY <1>1, <1>3, Constants DEF StoreSafe, Sorted, FreeIsUntouched, TriggerIsMessage, OneBlockingAttempt,
    ExposedIsBlocking, SendingIsUnanswered, IsBlocking, Blocking
<1>5. OwnedIsUsed /\ OwnedApart
  BY DEF Init, OwnedIsUsed, OwnedApart
<1>6. \A p \in Processes : JobSafe(p)
  BY DEF Init, JobSafe, HeldIsPending, Holding, ReconcilesReply, Reconciling, KnownMessages, AtChat,
    IdleRun
<1>. QED BY <1>2, <1>4, <1>5, <1>6 DEF IInv

LEMMA NextIInv == IInv /\ [Next]_vars => IInv'
<1>. SUFFICES ASSUME IInv, [Next]_vars PROVE IInv'
  OBVIOUS
<1>1. CASE Next
  BY <1>1, NextIsTyped, StoreStaysSafe, OwnersStay, JobsStaySafe DEF IInv
<1>2. CASE UNCHANGED vars
  BY <1>2 DEF vars, IInv, Types, StoreSafe, Sorted, FreeIsUntouched, TriggerIsMessage,
    OneBlockingAttempt, ExposedIsBlocking, SendingIsUnanswered, OwnedIsUsed, OwnedApart, JobSafe,
    HeldIsPending, Holding, ReconcilesReply, Reconciling, Held, KnownMessages, AtChat
<1>. QED BY <1>1, <1>2

LEMMA Safety == Spec => []IInv
BY InitIInv, NextIInv, PTL DEF Spec

(* The state stays what the declarations say; an idle process holds        *)
(* nothing and one that may write holds an attempt of its own.             *)
THEOREM TypeCorrect == Spec => []TypeOK
<1>1. IInv => TypeOK
  BY DEF IInv, Types, TypeOK, Runs, Messages, JobSafe, KnownMessages, HeldIsPending, Holding
<1>. QED BY <1>1, Safety, PTL

-----------------------------------------------------------------------------
(* What is settled stays settled.                                          *)

LEMMA SettledStays ==
  ASSUME IInv, [Next]_vars, NEW a \in Attempts
  PROVE  /\ record[a].state \in {"TARGET_REPLY_CONFIRMED", "REJECTED", "NOT_SENT"}
              => record'[a].state = record[a].state
         /\ record[a].outgoing # 0 => record'[a].outgoing = record[a].outgoing
<1>1. Types /\ StoreSafe
  BY DEF IInv
<1>2. CASE UNCHANGED record
  BY <1>2
<1>3. ASSUME NEW b \in Attempts, NEW t \in Triggers, NEW x \in {"REPLY", "LEAVE"}, Reserves(t, x, b)
      PROVE  record'[a] = record[a] \/ record[a] = NoRecord
  BY <1>1, <1>3, AfterReserve DEF StoreSafe, FreeIsUntouched
<1>4. ASSUME NEW b \in Attempts, NEW o \in Outcomes, NEW g \in 0..MaxMessages, Settles(b, o, g)
      PROVE  \/ record'[a] = record[a]
             \/ record[a].state = "SENDING" /\ record[a].outgoing = 0
  BY <1>1, <1>4, AfterSettle DEF StoreSafe, SendingIsUnanswered
<1>5. ASSUME NEW b \in Attempts, NEW e \in Evidence, Observes(b, e)
      PROVE  /\ record'[a].outgoing = record[a].outgoing
             /\ \/ record'[a].state = record[a].state
                \/ IsBlocking(record[a].state) /\ record'[a].state = "TARGET_REPLY_CONFIRMED"
  BY <1>1, <1>5, AfterObservation
<1>6. CASE Next
  <2>1. NoRecord.state = "FREE" /\ NoRecord.outgoing = 0
    BY Constants
  <2>. QED BY <1>2, <1>3, <1>4, <1>5, <1>6, <2>1, StoreMoves DEF IsBlocking, Blocking
<1>. QED BY <1>2, <1>6 DEF vars

(* Whichever of the writer and the operator comes last, a confirmed or     *)
(* released attempt keeps its state and a known message is not replaced.   *)
THEOREM SettledIsFinalAlways == Spec => SettledIsFinal
<1>. DEFINE Stays == \A a \in Attempts :
       /\ record[a].state \in {"TARGET_REPLY_CONFIRMED", "REJECTED", "NOT_SENT"}
            => record'[a].state = record[a].state
       /\ record[a].outgoing # 0 => record'[a].outgoing = record[a].outgoing
<1>1. IInv /\ [Next]_vars => [Stays]_vars
  BY SettledStays
<1>. HIDE DEF Stays
<1>2. Spec => [][Stays]_vars
  BY <1>1, Safety, PTL DEF Spec
<1>. QED BY <1>2 DEF SettledIsFinal, Stays

-----------------------------------------------------------------------------
(* Refinement: one write per trigger.                                      *)

Used == {a \in Attempts : record[a].state # "FREE"}
Delivered == {a \in Attempts : flight[a] = "delivered"}
Claims == [t \in Triggers |-> BlockingFor(t)]

LEMMA InitRefines == Init => OneWritePerTrigger!Init
BY Constants DEF Init, OneWritePerTrigger!Init, BlockingFor, IsBlocking, Blocking

LEMMA ClaimRefines ==
  ASSUME IInv, NEW t \in Triggers, NEW x \in {"REPLY", "LEAVE"}, NEW a \in Attempts,
         Reserves(t, x, a), UNCHANGED provider
  PROVE  OneWritePerTrigger!Claim(t, a)
<1>1. /\ record[a].state = "FREE" /\ BlockingFor(t) = {}
      /\ record'[a].state = "SENDING" /\ record'[a].trigger = t
      /\ \A b \in Attempts \ {a} : record'[b] = record[b]
  BY AfterReserve DEF IInv
<1>2. IsBlocking("SENDING") /\ ~IsBlocking("FREE")
  BY DEF IsBlocking, Blocking
<1>3. \A u \in Triggers : BlockingFor(u)' = IF u = t THEN {a} ELSE BlockingFor(u)
  <2>. TAKE u \in Triggers
  <2>1. ASSUME NEW b \in Attempts
        PROVE  b \in BlockingFor(u)' <=> (IF u = t THEN b = a ELSE b \in BlockingFor(u))
    <3>1. CASE b = a
      BY <1>1, <1>2, <3>1 DEF BlockingFor
    <3>2. CASE b # a
      BY <1>1, <3>2 DEF BlockingFor
    <3>. QED BY <3>1, <3>2
  <2>. QED BY <2>1 DEF BlockingFor
<1>4. a \notin Used /\ Used' = Used \cup {a} /\ Delivered' = Delivered
  BY <1>1 DEF Used, Delivered, provider
<1>5. Claims[t] = {} /\ Claims' = [Claims EXCEPT ![t] = {a}]
  BY <1>1, <1>3 DEF Claims
<1>. QED BY <1>4, <1>5 DEF OneWritePerTrigger!Claim, Used, Delivered, Claims

LEMMA SettlementRefines ==
  ASSUME IInv, NEW a \in Attempts, NEW o \in Outcomes, NEW g \in 0..MaxMessages,
         Settles(a, o, g), UNCHANGED provider
  PROVE  \/ UNCHANGED <<Claims, Used, Delivered>>
         \/ \E t \in Triggers : OneWritePerTrigger!Release(t, a)
<1>1. Types /\ StoreSafe
  BY DEF IInv
<1>2. /\ record[a].state = "SENDING" /\ record'[a].state = o
      /\ record'[a].trigger = record[a].trigger
      /\ \A b \in Attempts \ {a} : record'[b] = record[b]
  BY <1>1, AfterSettle
<1>3. record[a].trigger \in Triggers /\ IsBlocking(record[a].state)
  BY <1>1, <1>2, Domain DEF StoreSafe, TriggerIsMessage, IsBlocking, Blocking
<1>4. Used' = Used /\ Delivered' = Delivered
  BY <1>2 DEF Used, Delivered, provider, Outcomes
<1>5. CASE o \in {"ACCEPTED", "DELIVERY_UNCERTAIN"}
  <2>1. IsBlocking(o)
    BY <1>5 DEF IsBlocking, Blocking
  <2>2. \A u \in Triggers : BlockingFor(u)' = BlockingFor(u)
    BY <1>2, <1>3, <2>1 DEF BlockingFor
  <2>. QED BY <1>4, <2>2 DEF Claims
<1>6. CASE o \in {"REJECTED", "NOT_SENT"}
  <2>. DEFINE t == record[a].trigger
  <2>1. ~IsBlocking(o) /\ flight[a] # "delivered"
    BY <1>6 DEF IsBlocking, Blocking, Settles
  <2>2. BlockingFor(t) = {a}
    BY <1>1, <1>3 DEF BlockingFor, StoreSafe, OneBlockingAttempt
  <2>3. \A u \in Triggers : BlockingFor(u)' = IF u = t THEN {} ELSE BlockingFor(u)
    <3>. TAKE u \in Triggers
    <3>1. ASSUME NEW b \in Attempts
          PROVE  b \in BlockingFor(u)' <=> (u # t /\ b \in BlockingFor(u))
      <4>1. CASE b = a
        BY <1>2, <2>1, <4>1 DEF BlockingFor
      <4>2. CASE b # a
        BY <1>2, <2>2, <4>2 DEF BlockingFor
      <4>. QED BY <4>1, <4>2
    <3>. QED BY <3>1 DEF BlockingFor
  <2>4. Claims[t] = {a} /\ Claims' = [Claims EXCEPT ![t] = {}]
    BY <1>3, <2>2, <2>3 DEF Claims
  <2>5. a \notin Delivered
    BY <2>1 DEF Delivered
  <2>6. OneWritePerTrigger!Release(t, a)
    BY <1>4, <2>4, <2>5 DEF OneWritePerTrigger!Release, Used, Delivered, Claims
  <2>. QED BY <1>3, <2>6
<1>. QED BY <1>5, <1>6 DEF Outcomes

LEMMA ObservationRefines ==
  ASSUME IInv, NEW a \in Attempts, NEW e \in Evidence, Observes(a, e), UNCHANGED provider
  PROVE  UNCHANGED <<Claims, Used, Delivered>>
<1>1. /\ record[a].state # "FREE"
      /\ \/ record'[a].state = record[a].state
         \/ IsBlocking(record[a].state) /\ record'[a].state = "TARGET_REPLY_CONFIRMED"
      /\ record'[a].trigger = record[a].trigger
      /\ \A b \in Attempts \ {a} : record'[b] = record[b]
  BY AfterObservation DEF IInv
<1>2. IsBlocking("TARGET_REPLY_CONFIRMED") /\ ~IsBlocking("FREE")
  BY DEF IsBlocking, Blocking
<1>3. \A b \in Attempts : /\ IsBlocking(record'[b].state) <=> IsBlocking(record[b].state)
                          /\ record'[b].state = "FREE" <=> record[b].state = "FREE"
                          /\ record'[b].trigger = record[b].trigger
  BY <1>1, <1>2
<1>. QED BY <1>3 DEF Claims, Used, Delivered, BlockingFor, provider

LEMMA DeliveryRefines ==
  ASSUME IInv, UNCHANGED record, NEW a \in Attempts, ProviderActs(a, "delivered")
  PROVE  \E t \in Triggers : OneWritePerTrigger!Effect(t, a)
<1>1. Types /\ StoreSafe
  BY DEF IInv
<1>2. flight[a] = "inflight" /\ IsBlocking(record[a].state) /\ record[a].state # "FREE"
  BY <1>1 DEF ProviderActs, StoreSafe, ExposedIsBlocking, IsBlocking, Blocking
<1>. DEFINE t == record[a].trigger
<1>3. t \in Triggers
  BY <1>1, <1>2, Domain DEF StoreSafe, TriggerIsMessage
<1>4. BlockingFor(t) = {a}
  BY <1>1, <1>2 DEF BlockingFor, StoreSafe, OneBlockingAttempt
<1>5. a \notin Delivered /\ Delivered' = Delivered \cup {a}
  BY <1>1, <1>2 DEF ProviderActs, Delivered, Types
<1>6. Claims' = Claims /\ Used' = Used /\ Claims[t] = {a}
  BY <1>3, <1>4 DEF Claims, Used, BlockingFor
<1>7. OneWritePerTrigger!Effect(t, a)
  BY <1>5, <1>6 DEF OneWritePerTrigger!Effect, Used, Delivered, Claims
<1>. QED BY <1>3, <1>7

LEMMA StepRefines ==
  ASSUME IInv, [Next]_vars
  PROVE  [OneWritePerTrigger!Next]_(OneWritePerTrigger!vars)
<1>. DEFINE Stutters == UNCHANGED <<Claims, Used, Delivered>>
<1>1. Stutters => UNCHANGED OneWritePerTrigger!vars
  BY DEF OneWritePerTrigger!vars, Claims, Used, Delivered
<1>2. ASSUME UNCHANGED record, Delivered' = Delivered PROVE Stutters
  BY <1>2 DEF Claims, Used, BlockingFor
<1>3. CASE UNCHANGED vars
  BY <1>1, <1>2, <1>3 DEF vars, Delivered, provider
<1>4. CASE Next /\ UNCHANGED record
  <2>1. CASE UNCHANGED flight
    BY <1>1, <1>2, <1>4, <2>1 DEF Delivered
  <2>2. ASSUME NEW p \in Processes, Dispatch(p)
        PROVE  Delivered' = Delivered
    BY <2>2, DispatchMoves DEF Delivered, IInv, Types
  <2>3. ASSUME NEW a \in Attempts, NEW f \in {"delivered", "refused"}, ProviderActs(a, f)
        PROVE  OneWritePerTrigger!Next \/ Delivered' = Delivered
    <3>1. CASE f = "delivered"
      BY <1>4, <2>3, <3>1, DeliveryRefines DEF OneWritePerTrigger!Next
    <3>2. CASE f = "refused"
      BY <2>3, <3>2 DEF ProviderActs, Delivered, IInv, Types
    <3>. QED BY <3>1, <3>2
  <2>. QED BY <1>1, <1>2, <1>4, <2>1, <2>2, <2>3, FlightMoves
<1>5. ASSUME NEW a \in Attempts, NEW t \in Triggers, NEW x \in {"REPLY", "LEAVE"},
             Reserves(t, x, a), UNCHANGED provider
      PROVE  OneWritePerTrigger!Next
  BY <1>5, ClaimRefines DEF OneWritePerTrigger!Next
<1>6. ASSUME NEW a \in Attempts, NEW o \in Outcomes, NEW g \in 0..MaxMessages,
             Settles(a, o, g), UNCHANGED provider
      PROVE  Stutters \/ OneWritePerTrigger!Next
  BY <1>6, SettlementRefines DEF OneWritePerTrigger!Next
<1>7. ASSUME NEW a \in Attempts, NEW e \in Evidence, Observes(a, e), UNCHANGED provider
      PROVE  Stutters
  BY <1>7, ObservationRefines
<1>. HIDE DEF Stutters
<1>8. CASE Next
  BY <1>1, <1>4, <1>5, <1>6, <1>7, <1>8, StoreMoves
<1>. QED BY <1>3, <1>8

(* Over all processes, operators, crashes and restarts one employer        *)
(* message is answered at most once, and what HH holds is not released.    *)
THEOREM Refinement == Spec => ImplementsAtMostOnce
BY InitRefines, StepRefines, Safety, PTL DEF Spec, ImplementsAtMostOnce, OneWritePerTrigger!Spec

-----------------------------------------------------------------------------
(* A confirmation names an answer, and the answer stays one.               *)

(* classify compares times only; as times do not decrease along the        *)
(* history, what it finds lies behind the trigger, with no later employer  *)
(* message between them.                                                   *)
LEMMA AnswersFollow ==
  ASSUME Types, Sorted, NEW t \in DOMAIN history, NEW m \in AnswersOf(t)
  PROVE  Answers(history, m, t)
<1>1. /\ m \in DOMAIN history /\ m # t /\ ~FromEmployer(m)
      /\ history[m].time > history[t].time
      /\ \A j \in DOMAIN history \ {t} :
           FromEmployer(j) /\ history[j].time > history[t].time => history[j].time > history[m].time
  BY DEF AnswersOf, StrictlyAfter
<1>2. history[m].time \in Nat /\ history[t].time \in Nat /\ m \in Nat /\ t \in Nat
  BY <1>1, Domain
<1>3. t < m
  <2>1. m <= t => history[m].time <= history[t].time
    BY <1>1 DEF Sorted
  <2>. QED BY <1>1, <1>2, <2>1
<1>4. ASSUME NEW j \in (t + 1)..(m - 1), FromEmployer(j)
      PROVE  history[j].time = history[t].time
  <2>1. j \in DOMAIN history /\ j # t /\ t <= j /\ j <= m
    BY <1>1, <1>2, <1>4, Domain
  <2>2. /\ history[t].time <= history[j].time /\ history[j].time <= history[m].time
        /\ history[j].time \in Nat
    BY <1>1, <2>1, Domain DEF Sorted
  <2>3. ~(history[j].time > history[t].time)
    BY <1>1, <1>2, <1>4, <2>1, <2>2
  <2>. QED BY <1>2, <2>2, <2>3
<1>. QED BY <1>1, <1>3, <1>4 DEF Answers, FromEmployer

LEMMA AnswersStay ==
  ASSUME Types, Grows, NEW t \in DOMAIN history, NEW m, Answers(history, m, t)
  PROVE  Answers(history', m, t)
<1>1. m \in DOMAIN history /\ t < m
  BY DEF Answers
<1>2. \A j \in (t + 1)..(m - 1) : j \in DOMAIN history
  BY <1>1, Domain
<1>. QED BY <1>1, <1>2 DEF Answers, Grows

LEMMA ConfirmedMeans ==
  ConfirmedIsAnswered
    <=> \A a \in Attempts : record[a].state = "TARGET_REPLY_CONFIRMED" =>
          /\ Positive(record[a].evidence)
          /\ Answers(history, record[a].evidence.message, record[a].trigger)
BY DEF ConfirmedIsAnswered, Answers, FromEmployer

LEMMA EvidenceStaysTrue ==
  ASSUME IInv, EvidenceIsTrue, Next
  PROVE  EvidenceIsTrue'
<1>1. Types /\ StoreSafe /\ Grows
  BY HistoryGrows DEF IInv
<1>2. ASSUME NEW q \in Processes, pc'[q] = "recording", Positive(job'[q].evidence)
      PROVE  Answers(history', job'[q].evidence.message, job'[q].trigger)
  <2>1. CASE NotOf(q)
    <3>1. Undisturbed(q)
      BY <1>1, <2>1, NotOfDisturbs
    <3>2. Answers(history, job[q].evidence.message, job[q].trigger)
      BY <1>2, <3>1 DEF EvidenceIsTrue, Undisturbed
    <3>3. job[q].trigger \in DOMAIN history
      BY <1>1, <1>2, <3>1 DEF Undisturbed, IInv, JobSafe, ReconcilesReply, Reconciling, Held,
        StoreSafe, TriggerIsMessage
    <3>4. Answers(history', job[q].evidence.message, job[q].trigger)
      BY <1>1, <3>2, <3>3, AnswersStay
    <3>. QED BY <3>1, <3>4 DEF Undisturbed
  <2>2. CASE ReadAndClassify(q)
    <3>1. PICK e \in Classification(job[q].trigger, job[q].outgoing) :
            job' = [job EXCEPT ![q].evidence = e]
      BY <2>2 DEF ReadAndClassify
    <3>2. job'[q].evidence = e /\ job'[q].trigger = job[q].trigger
      BY <1>1, <3>1 DEF Types, Jobs
    <3>3. e.message \in AnswersOf(job[q].trigger)
      BY <1>1, <1>2, <3>1, <3>2, ClassificationType
    <3>4. job[q].trigger \in DOMAIN history
      BY <1>1, <2>2 DEF ReadAndClassify, IInv, JobSafe, ReconcilesReply, Reconciling, Held, StoreSafe,
        TriggerIsMessage
    <3>5. Answers(history, e.message, job[q].trigger)
      BY <1>1, <3>3, <3>4, AnswersFollow DEF StoreSafe
    <3>6. history' = history
      BY <2>2 DEF ReadAndClassify, provider
    <3>. QED BY <3>2, <3>5, <3>6
  <2>3. ASSUME StepOf(q), ~ReadAndClassify(q)
        PROVE  FALSE
    <3>1. CASE Iterate(q)
      BY <1>1, <1>2, <3>1 DEF Types, Iterate, ListChat, PassOver, ClearToLeave, ReadHistory,
        ClearToReply, Continue, Goto
    <3>2. CASE Write(q)
      BY <1>1, <1>2, <3>2 DEF Types, Write, Reserve, Dispatch, DispatchNotSent, Answer, RecordOutcome,
        RecordOutcomeFails, Continue, Goto
    <3>3. CASE Reconcile(q) \/ Crash(q)
      BY <1>1, <1>2, <2>3, <3>3 DEF Types, Reconcile, ReconcileStart, RecordReconciliation,
        ReconcileFails, EndReconcile, Crash, Goto
    <3>. QED BY <2>3, <3>1, <3>2, <3>3 DEF StepOf
  <2>. QED BY <2>1, <2>2, <2>3, Steppers DEF NotOf
<1>. QED BY <1>2 DEF EvidenceIsTrue

LEMMA ConfirmedStaysAnswered ==
  ASSUME IInv, ConfirmationsInv, Next
  PROVE  ConfirmedIsAnswered'
<1>1. Types /\ StoreSafe /\ Grows /\ EvidenceIsTrue /\ ConfirmedIsAnswered
  BY HistoryGrows DEF IInv, ConfirmationsInv
<1>. DEFINE Sound(h, r) == r.state = "TARGET_REPLY_CONFIRMED" =>
       /\ Positive(r.evidence)
       /\ Answers(h, r.evidence.message, r.trigger)
<1>2. \A a \in Attempts : Sound(history, record[a])
  BY <1>1, ConfirmedMeans
<1>3. ASSUME NEW a \in Attempts PROVE Sound(history', record[a])
  <2>1. SUFFICES ASSUME record[a].state = "TARGET_REPLY_CONFIRMED"
                 PROVE  /\ Positive(record[a].evidence)
                        /\ Answers(history', record[a].evidence.message, record[a].trigger)
    OBVIOUS
  <2>2. record[a].trigger \in DOMAIN history
    BY <1>1, <2>1 DEF StoreSafe, TriggerIsMessage
  <2>3. /\ Positive(record[a].evidence)
        /\ Answers(history, record[a].evidence.message, record[a].trigger)
    BY <1>2, <2>1
  <2>. QED BY <1>1, <2>2, <2>3, AnswersStay
<1>4. ASSUME NEW p \in Processes, RecordReconciliation(p)
      PROVE  \A a \in Attempts : Sound(history', record'[a])
  <2>. DEFINE b == job[p].attempt
              e == job[p].evidence
  <2>1. b \in Attempts /\ e \in Evidence /\ Observes(b, e) /\ history' = history
    BY <1>4, ReconciliationWrites DEF provider
  <2>2. \A a \in Attempts \ {b} : record'[a] = record[a]
    BY <1>1, <2>1, AfterObservation
  <2>3. CASE Positive(e)
    <3>1. record'[b].evidence = e /\ record'[b].trigger = record[b].trigger
      BY <1>1, <2>1, <2>3, AfterObservation
    <3>2. Answers(history, e.message, record[b].trigger)
      BY <1>1, <1>4, <2>3 DEF RecordReconciliation, EvidenceIsTrue, IInv, JobSafe, ReconcilesReply,
        Reconciling, Held
    <3>3. Sound(history', record'[b])
      BY <2>1, <2>3, <3>1, <3>2
    <3>. QED BY <1>3, <2>2, <3>3
  <2>4. CASE ~Positive(e)
    <3>1. /\ record'[b].state = record[b].state /\ record'[b].trigger = record[b].trigger
          /\ record[b].state = "TARGET_REPLY_CONFIRMED" => record'[b].evidence = record[b].evidence
      BY <1>1, <2>1, <2>4, AfterObservation
    <3>2. Sound(history', record'[b])
      BY <1>3, <2>1, <3>1
    <3>. QED BY <1>3, <2>2, <3>2
  <2>. QED BY <2>3, <2>4
<1>5. ASSUME NEW p \in Processes, NEW a \in Attempts, Reserve(p, a)
      PROVE  \A b \in Attempts : Sound(history', record'[b])
  <2>1. record'[a].state = "SENDING" /\ \A b \in Attempts \ {a} : record'[b] = record[b]
    BY <1>1, <1>5, ReserveWrites, AfterReserve
  <2>. QED BY <1>3, <2>1
<1>6. ASSUME NEW p \in Processes, RecordOutcome(p)
      PROVE  \A b \in Attempts : Sound(history', record'[b])
  <2>1. /\ record'[job[p].attempt].state \in Outcomes
        /\ \A b \in Attempts \ {job[p].attempt} : record'[b] = record[b]
    BY <1>1, <1>6, OutcomeWrites, AfterSettle
  <2>. QED BY <1>3, <2>1 DEF Outcomes
<1>7. \A a \in Attempts : Sound(history', record'[a])
  <2>1. CASE UNCHANGED record
    BY <1>3, <2>1
  <2>. QED BY <1>4, <1>5, <1>6, <2>1, OthersSaveRecord, ProviderSavesRecord, Steppers DEF Writes
<1>. QED BY <1>7 DEF ConfirmedIsAnswered, Answers, FromEmployer

LEMMA ConfirmationsKept == IInv /\ ConfirmationsInv /\ [Next]_vars => ConfirmationsInv'
<1>1. CASE UNCHANGED vars
  BY <1>1 DEF vars, provider, ConfirmationsInv, EvidenceIsTrue, ConfirmedIsAnswered,
    FromEmployer
<1>. QED BY <1>1, EvidenceStaysTrue, ConfirmedStaysAnswered DEF ConfirmationsInv

LEMMA InitConfirmations == Init => ConfirmationsInv
BY Constants DEF Init, ConfirmationsInv, EvidenceIsTrue, ConfirmedIsAnswered

(* A confirmed reply names a candidate message that follows the trigger    *)
(* before the employer wrote again at a later time.                        *)
THEOREM ConfirmedIsAnsweredAlways == Spec => []ConfirmedIsAnswered
<1>1. ConfirmationsInv => ConfirmedIsAnswered
  BY DEF ConfirmationsInv
<1>. QED BY <1>1, InitConfirmations, ConfirmationsKept, Safety, PTL DEF Spec

-----------------------------------------------------------------------------
(* One try in the life of a process.                                       *)

(* What others do takes nothing from what a process remembers.             *)
LEMMA OthersStayNew ==
  ASSUME IInv, NEW q \in Processes, TriedIsIgnored(q), ListedIsNew(q), NotOf(q)
  PROVE  TriedIsIgnored(q)' /\ ListedIsNew(q)'
<1>1. Types /\ Undisturbed(q) /\ Next /\ StoreKept /\ OwnedIsUsed
  BY NotOfDisturbs, StoreIsKept DEF IInv
<1>2. ListedIsNew(q)'
  BY <1>1 DEF ListedIsNew, NotYet, Older, Undisturbed
<1>3. TriedIsIgnored(q)'
  <2>1. ASSUME NEW b \in mine[q]
        PROVE  /\ record'[b].trigger = record[b].trigger /\ record'[b].action = record[b].action
               /\ IsBlocking(record'[b].state) <=> IsBlocking(record[b].state)
    BY <1>1, <2>1, OwnIsKept DEF OwnedIsUsed, StoreKept, Types
  <2>. QED BY <1>1, <2>1 DEF TriedIsIgnored, Undisturbed
<1>. QED BY <1>2, <1>3

LEMMA EmptyIsNew ==
  ASSUME NEW p \in Processes, run'[p] = IdleRun, pc'[p] = "idle"
  PROVE  ListedIsNew(p)'
BY DEF ListedIsNew, IdleRun

LEMMA ContinueIsNew ==
  ASSUME Types, NEW p \in Processes, NEW chats \in Seq(Entries), Continue(p, chats),
         \A i \in DOMAIN chats : Older(chats[i].trigger, ignored'[p] \ run[p].handled)
  PROVE  ListedIsNew(p)'
<1>1. CASE chats = <<>>
  BY <1>1, EmptyIsNew DEF Continue, Goto, Types
<1>2. CASE chats # <<>>
  <2>1. pc'[p] = "chat" /\ run'[p].chats = chats /\ run'[p].handled = run[p].handled
    BY <1>2 DEF Continue, Goto, Types, Runs
  <2>. QED BY <2>1 DEF ListedIsNew, NotYet, Older
<1>. QED BY <1>1, <1>2

(* What is listed, or read, is newer than all it ignores, save what this   *)
(* run handled.                                                            *)
LEMMA IteratorStaysNew ==
  ASSUME IInv, NEW p \in Processes, TriedIsIgnored(p), ListedIsNew(p), Iterate(p)
  PROVE  TriedIsIgnored(p)' /\ ListedIsNew(p)'
<1>1. Types /\ KnownMessages(p) /\ run[p] \in Runs /\ job[p] \in Jobs
  BY DEF IInv, JobSafe, Types
<1>2. UNCHANGED <<record, history, ignored, mine>>
  BY DEF Iterate, ListChat, PassOver, ClearToLeave, ReadHistory, ClearToReply, provider
<1>3. TriedIsIgnored(p)'
  BY <1>2 DEF TriedIsIgnored
<1>. DEFINE Fresh(chats) == \A i \in DOMAIN chats : Older(chats[i].trigger, NotYet(p))
<1>4. /\ Fresh(run[p].chats)
      /\ AtChat(p) => /\ Fresh(Tail(run[p].chats))
                      /\ Older(Head(run[p].chats).trigger, NotYet(p))
  BY Listed DEF ListedIsNew
<1>5. CASE ListChat(p)
  <2>. DEFINE e == [trigger |-> Len(history), discard |-> history[Len(history)].who = "discard"]
  <2>1. pc'[p] = "listing" /\ run'[p].chats = Append(run[p].chats, e) /\ run'[p].handled = run[p].handled
    BY <1>1, <1>5 DEF ListChat, Goto, Types, Runs
  <2>2. Len(history) \in DOMAIN history /\ Len(history) \notin ignored[p]
    BY <1>1, <1>5, Domain DEF ListChat, LastIsEmployers, Types
  <2>3. Older(Len(history), NotYet(p))
    <3>1. \A s \in ignored[p] : s \in 1..Len(history) /\ s # Len(history)
      BY <1>1, <2>2, Domain DEF KnownMessages
    <3>. QED BY <1>1, <3>1, Domain DEF Older, NotYet
  <2>4. run[p].chats \in Seq(Entries) /\ e \in Entries
    BY <1>1, <2>2, Domain DEF Runs, Entries
  <2>5. Fresh(Append(run[p].chats, e))
    <3>1. \A i \in DOMAIN Append(run[p].chats, e) :
            \/ i \in DOMAIN run[p].chats /\ Append(run[p].chats, e)[i] = run[p].chats[i]
            \/ Append(run[p].chats, e)[i] = e
      BY <2>4
    <3>. QED BY <1>4, <2>3, <3>1
  <2>. QED BY <1>2, <1>3, <2>1, <2>5 DEF ListedIsNew, NotYet
<1>6. CASE PassOver(p)
  <2>1. CASE AtChat(p) /\ Continue(p, Tail(run[p].chats))
    <3>1. Tail(run[p].chats) \in Seq(Entries) /\ Fresh(Tail(run[p].chats))
      BY <1>4, <2>1, Listed
    <3>2. \A i \in DOMAIN Tail(run[p].chats) :
            Older(Tail(run[p].chats)[i].trigger, ignored'[p] \ run[p].handled)
      BY <1>2, <3>1 DEF NotYet, Older
    <3>. QED BY <1>1, <1>3, <2>1, <3>1, <3>2, ContinueIsNew
  <2>2. CASE Continue(p, run[p].chats)
    <3>1. run[p].chats \in Seq(Entries) /\ Fresh(run[p].chats)
      BY <1>1, <1>4 DEF Runs
    <3>2. \A i \in DOMAIN run[p].chats :
            Older(run[p].chats[i].trigger, ignored'[p] \ run[p].handled)
      BY <1>2, <3>1 DEF NotYet, Older
    <3>. QED BY <1>1, <1>3, <2>2, <3>1, <3>2, ContinueIsNew
  <2>. QED BY <1>6, <2>1, <2>2 DEF PassOver
<1>7. CASE ClearToLeave(p)
  <2>1. AtChat(p) /\ TakeChat(p) /\ pc'[p] = "reserve"
    BY <1>1, <1>7 DEF ClearToLeave, Goto, Types
  <2>2. /\ job'[p].trigger = Head(run[p].chats).trigger
        /\ Head(run[p].chats).trigger \notin run[p].handled
    BY <1>1, <1>7 DEF ClearToLeave, Clear, Types, Jobs
  <2>. QED BY <1>2, <1>3, <1>4, <2>1, <2>2, TakeChatType DEF ListedIsNew, NotYet
<1>8. CASE ReadHistory(p)
  <2>1. AtChat(p) /\ TakeChat(p) /\ pc'[p] = "read"
    BY <1>1, <1>8 DEF ReadHistory, Goto, Types
  <2>2. job'[p].trigger = IF LastIsEmployers THEN Len(history) ELSE Head(run[p].chats).trigger
    BY <1>1, <1>8 DEF ReadHistory, Types, Jobs
  <2>3. Older(job'[p].trigger, NotYet(p))
    <3>1. Head(run[p].chats).trigger \in 1..Len(history)
      BY <1>1, <2>1, Listed, Domain
    <3>2. \A s \in NotYet(p) : s \in Nat /\ s < Head(run[p].chats).trigger
      BY <1>1, <1>4, <2>1, Domain DEF Older, NotYet, KnownMessages
    <3>. QED BY <1>1, <2>2, <3>1, <3>2, Domain DEF Older
  <2>. QED BY <1>2, <1>3, <1>4, <2>1, <2>3, TakeChatType DEF ListedIsNew, NotYet
<1>9. CASE ClearToReply(p)
  <2>1. pc[p] = "read" /\ pc'[p] = "reserve" /\ UNCHANGED <<run, job>>
    BY <1>1, <1>9 DEF ClearToReply, Goto, Types
  <2>2. job[p].trigger \notin run[p].handled
    BY <1>9 DEF ClearToReply, Clear
  <2>. QED BY <1>2, <1>3, <2>1, <2>2 DEF ListedIsNew, NotYet
<1>. QED BY <1>5, <1>6, <1>7, <1>8, <1>9 DEF Iterate

(* What is recorded was handled in this run, so it may join the ignored.   *)
LEMMA WriterStaysNew ==
  ASSUME IInv, NEW p \in Processes, TriedIsIgnored(p), ListedIsNew(p), Write(p)
  PROVE  TriedIsIgnored(p)' /\ ListedIsNew(p)'
<1>1. Types /\ HeldIsPending(p) /\ run[p] \in Runs /\ job[p] \in Jobs /\ StoreKept /\ OwnedIsUsed
  BY StoreIsKept DEF IInv, JobSafe, Types, Next
<1>2. ASSUME NEW a \in Attempts, Reserve(p, a)
      PROVE  TriedIsIgnored(p)' /\ ListedIsNew(p)'
  <2>1. /\ mine'[p] = mine[p] \cup {a} /\ record'[a].state = "SENDING"
        /\ ignored' = ignored /\ \A b \in Attempts \ {a} : record'[b] = record[b]
    <3>1. mine'[p] = mine[p] \cup {a} /\ ignored' = ignored
      BY <1>1, <1>2 DEF Reserve, Types
    <3>. QED BY <1>1, <1>2, <3>1, ReserveWrites, AfterReserve
  <2>2. TriedIsIgnored(p)'
    BY <1>1, <2>1 DEF TriedIsIgnored, IsBlocking, Blocking, Types
  <2>3. /\ pc'[p] = "reserved" /\ run'[p].chats = run[p].chats
        /\ run'[p].handled = run[p].handled \cup {job[p].trigger}
    BY <1>1, <1>2 DEF Reserve, Goto, Types, Runs
  <2>. QED BY <2>1, <2>2, <2>3 DEF ListedIsNew, NotYet, Older
<1>3. CASE Dispatch(p) \/ DispatchNotSent(p) \/ Answer(p)
  <2>1. pc'[p] \in {"waiting", "answered"} /\ UNCHANGED <<record, ignored, mine, run>>
    BY <1>1, <1>3 DEF Dispatch, DispatchNotSent, Answer, Goto, Types
  <2>. QED BY <2>1 DEF TriedIsIgnored, ListedIsNew, NotYet
<1>4. CASE RecordOutcome(p) \/ RecordOutcomeFails(p)
  <2>. DEFINE a == job[p].attempt
  <2>1. /\ pc[p] = "answered" /\ Holding(p) /\ Ignore(p) /\ mine' = mine
        /\ Continue(p, run[p].chats) /\ run[p].chats \in Seq(Entries)
    BY <1>1, <1>4 DEF RecordOutcome, RecordOutcomeFails, Runs, Holding
  <2>2. ignored'[p] = ignored[p] \cup ToIgnore(p) /\ ToIgnore(p) \subseteq {job[p].trigger}
    BY <1>1, <2>1, IgnoreType DEF Ignore, Types
  <2>3. ListedIsNew(p)'
    <3>1. ignored'[p] \ run[p].handled \subseteq NotYet(p)
      BY <1>1, <2>1, <2>2 DEF HeldIsPending, NotYet
    <3>2. \A i \in DOMAIN run[p].chats : Older(run[p].chats[i].trigger, ignored'[p] \ run[p].handled)
      BY <3>1 DEF ListedIsNew, Older
    <3>. QED BY <1>1, <2>1, <3>2, ContinueIsNew
  <2>4. /\ a \in mine[p] /\ a \in Attempts /\ record[a].state \in Pending
        /\ record[a].trigger = job[p].trigger /\ record[a].action = job[p].action
    BY <1>1, <2>1 DEF HeldIsPending, Held, Types, Pending
  <2>5. TriedIsIgnored(p)'
    <3>1. CASE UNCHANGED record
      BY <2>1, <2>2, <3>1 DEF TriedIsIgnored
    <3>2. CASE RecordOutcome(p)
      <4>1. /\ record'[a].state = job[p].outcome /\ record'[a].trigger = job[p].trigger
            /\ record'[a].action = job[p].action
            /\ \A b \in Attempts \ {a} : record'[b] = record[b]
        BY <1>1, <2>4, <3>2, OutcomeWrites, AfterSettle
      <4>2. job[p].action = "REPLY" => IsBlocking(job[p].outcome) \/ job[p].trigger \in ToIgnore(p)
        BY DEF IsBlocking, Blocking, ToIgnore
      <4>. QED BY <1>1, <2>1, <2>2, <4>1, <4>2 DEF TriedIsIgnored, Types
    <3>. QED BY <1>4, <3>1, <3>2 DEF RecordOutcomeFails
  <2>. QED BY <2>3, <2>5
<1>. QED BY <1>2, <1>3, <1>4 DEF Write

LEMMA ReconcilerStaysNew ==
  ASSUME IInv, NEW p \in Processes, TriedIsIgnored(p), ListedIsNew(p), Reconcile(p)
  PROVE  TriedIsIgnored(p)' /\ ListedIsNew(p)'
<1>1. Types /\ run[p] = IdleRun
  BY DEF IInv, Types, JobSafe, KnownMessages, ReconcilesReply, Reconciling, Reconcile, ReconcileStart,
    ReadAndClassify, RecordReconciliation, ReconcileFails
<1>2. /\ UNCHANGED <<ignored, mine>> /\ run' = run /\ pc'[p] \in {"idle", "reading", "recording"}
  BY <1>1 DEF Types, Reconcile, ReconcileStart, ReadAndClassify, RecordReconciliation, ReconcileFails,
    EndReconcile, Goto
<1>3. ListedIsNew(p)'
  BY <1>1, <1>2 DEF ListedIsNew, IdleRun
<1>4. TriedIsIgnored(p)'
  <2>1. CASE UNCHANGED record
    BY <1>2, <2>1 DEF TriedIsIgnored
  <2>2. CASE RecordReconciliation(p)
    <3>1. \A b \in Attempts :
            /\ record'[b].trigger = record[b].trigger /\ record'[b].action = record[b].action
            /\ IsBlocking(record[b].state) => IsBlocking(record'[b].state)
      BY <1>1, <2>2, ReconciliationWrites, AfterObservation DEF IsBlocking, Blocking
    <3>. QED BY <1>1, <1>2, <3>1 DEF TriedIsIgnored, Types
  <2>. QED BY <2>1, <2>2 DEF Reconcile, ReconcileStart, ReadAndClassify, ReconcileFails
<1>. QED BY <1>3, <1>4

LEMMA CrashedIsNew ==
  ASSUME IInv, NEW p \in Processes, Crash(p)
  PROVE  TriedIsIgnored(p)' /\ ListedIsNew(p)'
BY EmptyIsNew DEF Crash, Goto, IInv, Types, TriedIsIgnored

(* A reply is reserved only for a message this process has not replied to. *)
LEMMA ReserveIsNew ==
  ASSUME IInv, NEW p \in Processes, TriedIsIgnored(p), ListedIsNew(p), NEW a \in Attempts,
         Reserve(p, a), NEW b \in mine[p], record[b].action = "REPLY"
  PROVE  record[b].trigger # job[p].trigger
<1>1. /\ BlockingFor(job[p].trigger) = {} /\ b \in Attempts
      /\ job[p].trigger \notin run[p].handled /\ Older(job[p].trigger, NotYet(p))
  BY DEF Reserve, Reservable, ListedIsNew, IInv, Types
<1>2. SUFFICES ASSUME record[b].trigger = job[p].trigger PROVE FALSE
  OBVIOUS
<1>3. ~IsBlocking(record[b].state)
  BY <1>1, <1>2 DEF BlockingFor
<1>4. job[p].trigger \in NotYet(p)
  BY <1>1, <1>2, <1>3 DEF TriedIsIgnored, NotYet
<1>5. job[p].trigger < job[p].trigger /\ job[p].trigger \in Nat
  BY <1>1, <1>4 DEF Older, IInv, Types, Jobs
<1>. QED BY <1>5

LEMMA TriesStayOne ==
  ASSUME IInv, TriesInv, Next
  PROVE  OneTryPerLife'
<1>1. Types /\ StoreKept /\ OwnedIsUsed
  BY StoreIsKept DEF IInv
<1>2. \A p \in Processes : \A b \in mine[p] :
        record'[b].action = record[b].action /\ record'[b].trigger = record[b].trigger
  BY <1>1 DEF OwnedIsUsed, StoreKept, Types
<1>3. CASE \A p \in Processes : mine'[p] \subseteq mine[p]
  BY <1>2, <1>3 DEF TriesInv, OneTryPerLife
<1>4. ASSUME NEW p \in Processes, NEW a \in Attempts, Reserve(p, a)
      PROVE  OneTryPerLife'
  <2>1. \A q \in Processes : mine'[q] = IF q = p THEN mine[q] \cup {a} ELSE mine[q]
    BY <1>1, <1>4 DEF Reserve, Types
  <2>2. record'[a].trigger = job[p].trigger
    BY <1>1, <1>4, ReserveWrites, AfterReserve
  <2>3. \A b \in mine[p] : record[b].action = "REPLY" => record[b].trigger # job[p].trigger
    BY <1>4, ReserveIsNew DEF TriesInv
  <2>4. SUFFICES ASSUME NEW q \in Processes, NEW b \in mine'[q], NEW c \in mine'[q],
                        record'[b].action = "REPLY", record'[c].action = "REPLY",
                        record'[b].trigger = record'[c].trigger
                 PROVE  b = c
    BY DEF OneTryPerLife
  <2>5. CASE b \in mine[q] /\ c \in mine[q]
    BY <1>2, <2>4, <2>5 DEF TriesInv, OneTryPerLife
  <2>6. CASE b \in mine[p] /\ c = a /\ q = p
    BY <1>2, <2>2, <2>3, <2>4, <2>6
  <2>7. CASE c \in mine[p] /\ b = a /\ q = p
    BY <1>2, <2>2, <2>3, <2>4, <2>7
  <2>8. /\ b \in mine[q] \/ (q = p /\ b = a)
        /\ c \in mine[q] \/ (q = p /\ c = a)
    BY <2>1, <2>4
  <2>. QED BY <2>5, <2>6, <2>7, <2>8
<1>5. ASSUME NEW p \in Processes, StepOf(p), ~\E a \in Attempts : Reserve(p, a)
      PROVE  \A q \in Processes : mine'[q] \subseteq mine[q]
  <2>1. CASE Crash(p)
    BY <1>1, <2>1 DEF Crash, Types
  <2>2. CASE ~Crash(p)
    BY <1>5, <2>2 DEF StepOf, Iterate, ListChat, PassOver, ClearToLeave, ReadHistory, ClearToReply,
      Write, Dispatch, DispatchNotSent, Answer, RecordOutcome, RecordOutcomeFails, Reconcile,
      ReconcileStart, ReadAndClassify, RecordReconciliation, ReconcileFails, EndReconcile
  <2>. QED BY <2>1, <2>2
<1>6. Provider => \A q \in Processes : mine'[q] \subseteq mine[q]
  BY DEF Provider, Speak, Deliver, Refuse
<1>. QED BY <1>3, <1>4, <1>5, <1>6, Steppers

LEMMA TriesKept == IInv /\ TriesInv /\ [Next]_vars => TriesInv'
<1>. SUFFICES ASSUME IInv, TriesInv, [Next]_vars PROVE TriesInv'
  OBVIOUS
<1>1. CASE UNCHANGED vars
  BY <1>1 DEF vars, TriesInv, OneTryPerLife, TriedIsIgnored, ListedIsNew, NotYet, Older
<1>2. CASE Next
  <2>1. ASSUME NEW q \in Processes
        PROVE  TriedIsIgnored(q)' /\ ListedIsNew(q)'
    <3>1. NotOf(q) \/ StepOf(q)
      BY <1>2, Steppers DEF NotOf
    <3>2. TriedIsIgnored(q) /\ ListedIsNew(q)
      BY DEF TriesInv
    <3>. QED BY <3>1, <3>2, OthersStayNew, IteratorStaysNew, WriterStaysNew, ReconcilerStaysNew,
                CrashedIsNew DEF StepOf
  <2>. QED BY <1>2, <2>1, TriesStayOne DEF TriesInv
<1>. QED BY <1>1, <1>2

LEMMA InitTries == Init => TriesInv
BY DEF Init, TriesInv, OneTryPerLife, TriedIsIgnored, ListedIsNew, IdleRun

(* As long as it runs, a process replies to one message once, although a   *)
(* failed reply releases it and a chat may be listed twice.                *)
THEOREM OneTryPerLifeAlways == Spec => []OneTryPerLife
<1>1. TriesInv => OneTryPerLife
  BY DEF TriesInv
<1>. QED BY <1>1, InitTries, TriesKept, Safety, PTL DEF Spec
=============================================================================
