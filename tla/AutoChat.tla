-------------------------------- MODULE AutoChat -------------------------------
(***************************************************************************)
(* Automatic chat replies and leaves in one employer conversation: the     *)
(* iteration that lists chats, reads a history and writes                  *)
(* (usecase/autochatorchestration), its durable attempts, and the          *)
(* operator's reconciliation of a reply (usecase/autochatreconciliation).  *)
(* Every attempt answers one employer message, its trigger; other          *)
(* conversations share no state with this one.                             *)
(***************************************************************************)
EXTENDS Naturals, Sequences, FiniteSets

CONSTANTS
  Processes,             \* responder processes and operators' commands
  Attempts,              \* the attempt ids newAttemptID may return
  None,                  \* no attempt
  AllowAutomaticReplies, \* off in production: only leaves are executed there
  Gaps,                  \* time from one message to the next; 0 lets times tie
  MaxMessages,           \* bound on the conversation, for model checking
  MaxListed,             \* bound on entries of one listing: pages may overlap
  MaxCrashes             \* bound on process crashes, for model checking

ASSUME ConversationBoundAssumption == MaxMessages \in Nat
ASSUME GapsAssumption == Gaps \subseteq Nat
ASSUME NoneAssumption == None \notin Attempts

VARIABLES
  record,   \* durable: attempt id -> its record, NoRecord when there is none
  flight,   \* provider: what became of the POST of an attempt
  history,  \* provider: the messages of the conversation, oldest first
  ignored,  \* process -> triggers its memory suppresses
  mine,     \* process -> attempts it reserved since it started; for a property
  pc,       \* process -> what it does next
  run,      \* process -> the listing it works through and the handled triggers
  job,      \* process -> the chat, or the attempt, it works on
  crashes

provider == <<flight, history>>
vars == <<record, flight, history, ignored, mine, pc, run, job, crashes>>

-----------------------------------------------------------------------------
(* The conversation.  A message is known by its place in the history, but  *)
(* the code orders messages by their times alone, and times may tie.       *)

EmployerKinds == {"employer", "discard"}

Message(who, t, a) == [who |-> who, time |-> t, by |-> a]
Times == IF history = <<>> THEN {1} ELSE {history[Len(history)].time + d : d \in Gaps}

Triggers == 1..MaxMessages
FromEmployer(i) == history[i].who \in EmployerKinds
LastIsEmployers == history # <<>> /\ FromEmployer(Len(history))

(* Mutant: equal times count as later.                                     *)
NotBefore(i, j) == history[i].time >= history[j].time

StrictlyAfter(i, j) == history[i].time > history[j].time

(* The candidate messages that answer trigger t: later than it, and        *)
(* earlier than every later employer message.                              *)
AnswersOf(t) ==
  {i \in DOMAIN history \ {t} :
     /\ ~FromEmployer(i)
     /\ StrictlyAfter(i, t)
     /\ \A j \in DOMAIN history \ {t} :
          FromEmployer(j) /\ StrictlyAfter(j, t) => StrictlyAfter(j, i)}

-----------------------------------------------------------------------------
(* The attempt state machine (autochatattempt/model.go).                   *)
(* TARGET_LEAVE_CONFIRMED exists in the code, and no path produces it.     *)

States == {"SENDING", "ACCEPTED", "REJECTED", "NOT_SENT",
           "DELIVERY_UNCERTAIN", "TARGET_REPLY_CONFIRMED"}
Outcomes == {"ACCEPTED", "REJECTED", "NOT_SENT", "DELIVERY_UNCERTAIN"}
Blocking == {"SENDING", "ACCEPTED", "DELIVERY_UNCERTAIN", "TARGET_REPLY_CONFIRMED"}
IsBlocking(s) == s \in Blocking

(* Mutant: the outcome of the POST has the last word.                      *)
OutcomeWins(from, to) == from \in {"SENDING", "TARGET_REPLY_CONFIRMED"} /\ to \in Outcomes

ValidOutcome(from, to) == from = "SENDING" /\ to \in Outcomes

(* States in which a reply may be reconciled and, as it happens, those     *)
(* from which it may be, or stay, confirmed.                               *)
Reconcilable(s) == IsBlocking(s)

(* EXACT: the persisted outgoing id was found; RESPONSE: some candidate    *)
(* message answers the trigger; WEAK: insufficient or conflicting.         *)
EvidenceKinds == {"EXACT", "RESPONSE", "WEAK"}
Positive(e) == e.kind \in {"EXACT", "RESPONSE"}
Evidence == [kind : EvidenceKinds, message : 0..MaxMessages]
NoEvidence == [kind |-> "WEAK", message |-> 0]

Records == [state : States \cup {"FREE"}, trigger : 0..MaxMessages, action : {"REPLY", "LEAVE"},
            outgoing : 0..MaxMessages, evidence : Evidence]
NoRecord == [state |-> "FREE", trigger |-> 0, action |-> "REPLY", outgoing |-> 0,
             evidence |-> NoEvidence]

(* WithReconciliation on a record it accepts the evidence for.             *)
WithReconciliation(r, e) ==
  IF Positive(e) THEN [r EXCEPT !.state = "TARGET_REPLY_CONFIRMED", !.evidence = e]
  ELSE IF r.state = "TARGET_REPLY_CONFIRMED" THEN r ELSE [r EXCEPT !.evidence = e]

ReconciliationAllowed(r, e) ==
  /\ e.kind = "EXACT" => e.message = r.outgoing
  /\ Positive(e) => Reconcilable(r.state)

(* What classify makes of the history, for a reply whose outgoing id was   *)
(* `outgoing` when the reconciliation began.                               *)
Classification(t, outgoing) ==
  LET kind == IF outgoing = 0 THEN "RESPONSE" ELSE "EXACT"
      found == IF outgoing = 0 THEN AnswersOf(t) ELSE AnswersOf(t) \cap {outgoing}
  IN IF found = {} THEN {NoEvidence} ELSE {[kind |-> kind, message |-> i] : i \in found}

-----------------------------------------------------------------------------
(* Processes.                                                              *)

Steps == {"idle", "listing", "chat", "read", "reserve", "reserved", "waiting", "answered",
          "reading", "recording"}
Entries == [trigger : Triggers, discard : BOOLEAN]
IdleRun == [chats |-> <<>>, handled |-> {}]
NoJob == [trigger |-> 0, action |-> "REPLY", attempt |-> None, outcome |-> "none",
          outgoing |-> 0, evidence |-> NoEvidence]

BlockingFor(t) == {a \in Attempts : record[a].trigger = t /\ IsBlocking(record[a].state)}
Goto(p, step) == pc' = [pc EXCEPT ![p] = step]

AtChat(p) == pc[p] \in {"listing", "chat"}

(* On to the next of the listed chats, or to the end of the run.           *)
Continue(p, chats) ==
  /\ job' = [job EXCEPT ![p] = NoJob]
  /\ IF chats = <<>>
     THEN run' = [run EXCEPT ![p] = IdleRun] /\ Goto(p, "idle")
     ELSE run' = [run EXCEPT ![p].chats = chats] /\ Goto(p, "chat")

Init ==
  /\ record = [a \in Attempts |-> NoRecord]
  /\ flight = [a \in Attempts |-> "none"]
  /\ history = <<>>
  /\ ignored = [p \in Processes |-> {}]
  /\ mine = [p \in Processes |-> {}]
  /\ pc = [p \in Processes |-> "idle"]
  /\ run = [p \in Processes |-> IdleRun]
  /\ job = [p \in Processes |-> NoJob]
  /\ crashes = 0

(* The chat is on the page being read, and its last message is somebody    *)
(* else's and not suppressed.  A chat that moves up while the pages are    *)
(* read is on two of them.  A run that lists no chat does nothing.         *)
ListChat(p) ==
  /\ pc[p] \in {"idle", "listing"}
  /\ Len(run[p].chats) < MaxListed
  /\ LastIsEmployers
  /\ Len(history) \notin ignored[p]
  /\ run' = [run EXCEPT ![p].chats =
               Append(@, [trigger |-> Len(history),
                          discard |-> history[Len(history)].who = "discard"])]
  /\ Goto(p, "listing")
  /\ UNCHANGED <<record, provider, ignored, mine, job, crashes>>

TakeChat(p) == run' = [run EXCEPT ![p].chats = Tail(@)]

(* The chat is passed over: its history cannot be read, is too long or may *)
(* not be written to, the attempt store is unavailable, there is no        *)
(* executor, or the AI has no reply or one that needs a review.            *)
PassOver(p) ==
  /\ \/ AtChat(p) /\ Continue(p, Tail(run[p].chats))
     \/ pc[p] \in {"read", "reserve"} /\ Continue(p, run[p].chats)
  /\ UNCHANGED <<record, provider, ignored, mine, crashes>>

(* No blocking attempt for the trigger, and this run did not handle it.    *)
Clear(p, t) == BlockingFor(t) = {} /\ t \notin run[p].handled

ClearToLeave(p) ==
  /\ AtChat(p)
  /\ Head(run[p].chats).discard
  /\ Clear(p, Head(run[p].chats).trigger)
  /\ job' = [job EXCEPT ![p].trigger = Head(run[p].chats).trigger, ![p].action = "LEAVE"]
  /\ TakeChat(p)
  /\ Goto(p, "reserve")
  /\ UNCHANGED <<record, provider, ignored, mine, crashes>>

(* The history names the trigger when its last message is the employer's;  *)
(* else the listing's trigger stands.                                      *)
ReadHistory(p) ==
  /\ AtChat(p)
  /\ ~Head(run[p].chats).discard
  /\ job' = [job EXCEPT ![p].trigger =
               IF LastIsEmployers THEN Len(history) ELSE Head(run[p].chats).trigger]
  /\ TakeChat(p)
  /\ Goto(p, "read")
  /\ UNCHANGED <<record, provider, ignored, mine, crashes>>

(* The gate before the AI; the reply it prepares takes its time.           *)
ClearToReply(p) ==
  /\ pc[p] = "read"
  /\ AllowAutomaticReplies
  /\ Clear(p, job[p].trigger)
  /\ Goto(p, "reserve")
  /\ UNCHANGED <<record, provider, ignored, mine, run, job, crashes>>

-----------------------------------------------------------------------------
(* Reserve, write, record.                                                 *)

Reservable(t, a) == record[a].state = "FREE" /\ BlockingFor(t) = {}

Reserve(p, a) ==
  /\ pc[p] = "reserve"
  /\ Reservable(job[p].trigger, a)
  /\ record' = [record EXCEPT ![a] =
       [NoRecord EXCEPT !.state = "SENDING", !.trigger = job[p].trigger, !.action = job[p].action]]
  /\ mine' = [mine EXCEPT ![p] = @ \cup {a}]
  /\ run' = [run EXCEPT ![p].handled = @ \cup {job[p].trigger}]
  /\ job' = [job EXCEPT ![p].attempt = a]
  /\ Goto(p, "reserved")
  /\ UNCHANGED <<provider, ignored, crashes>>

Dispatch(p) ==
  /\ pc[p] = "reserved"
  /\ flight' = [flight EXCEPT ![job[p].attempt] = "inflight"]
  /\ Goto(p, "waiting")
  /\ UNCHANGED <<record, history, ignored, mine, run, job, crashes>>

(* Writing was switched off, the request is invalid or the policy stops it.*)
DispatchNotSent(p) ==
  /\ pc[p] = "reserved"
  /\ job' = [job EXCEPT ![p].outcome = "NOT_SENT"]
  /\ Goto(p, "answered")
  /\ UNCHANGED <<record, provider, ignored, mine, run, crashes>>

(* Mutant: a time-out counts as not sent.                                  *)
TimeoutIsNotSent(a) ==
  IF flight[a] = "inflight" THEN {"NOT_SENT"}
  ELSE IF flight[a] = "delivered" THEN {"ACCEPTED"} ELSE {"REJECTED"}

(* A time-out, a server error or an acceptance without a message id may    *)
(* come whatever became of the POST.                                       *)
AnswersTo(a) ==
  {"DELIVERY_UNCERTAIN"}
  \cup (IF flight[a] = "delivered" THEN {"ACCEPTED"} ELSE {})
  \cup (IF flight[a] = "refused" THEN {"REJECTED"} ELSE {})

MessageOf(a) ==
  IF \E i \in DOMAIN history : history[i].by = a
  THEN CHOOSE i \in DOMAIN history : history[i].by = a ELSE 0

Answer(p) ==
  /\ pc[p] = "waiting"
  /\ \E o \in AnswersTo(job[p].attempt) :
       job' = [job EXCEPT ![p].outcome = o,
                          ![p].outgoing = IF o = "ACCEPTED" THEN MessageOf(job[p].attempt) ELSE 0]
  /\ Goto(p, "answered")
  /\ UNCHANGED <<record, provider, ignored, mine, run, crashes>>

(* Mutant: only a rejected reply is suppressed.                            *)
IgnoreRejected(p) == IF job[p].outcome = "REJECTED" THEN {job[p].trigger} ELSE {}

(* A reply that was not accepted is not tried again by this process.       *)
ToIgnore(p) ==
  IF job[p].action = "REPLY" /\ job[p].outcome # "ACCEPTED" THEN {job[p].trigger} ELSE {}

Ignore(p) == ignored' = [ignored EXCEPT ![p] = @ \cup ToIgnore(p)]

RecordOutcome(p) ==
  /\ pc[p] = "answered"
  /\ ValidOutcome(record[job[p].attempt].state, job[p].outcome)
  /\ record' = [record EXCEPT ![job[p].attempt].state = job[p].outcome,
                              ![job[p].attempt].outgoing = job[p].outgoing]
  /\ Ignore(p)
  /\ Continue(p, run[p].chats)
  /\ UNCHANGED <<provider, mine, crashes>>

(* A busy lock, a failed write, or an attempt an operator confirmed while  *)
(* the POST was under way: the record stays as it is.                      *)
RecordOutcomeFails(p) ==
  /\ pc[p] = "answered"
  /\ Ignore(p)
  /\ Continue(p, run[p].chats)
  /\ UNCHANGED <<record, provider, mine, crashes>>

-----------------------------------------------------------------------------
(* The operator's reconciliation of one reply: the record is read, then    *)
(* the history, and what the two say is recorded on what is stored by then.*)

ReconcileStart(p, a) ==
  /\ pc[p] = "idle"
  /\ record[a].action = "REPLY"
  /\ Reconcilable(record[a].state)
  /\ job' = [job EXCEPT ![p].attempt = a, ![p].trigger = record[a].trigger,
                        ![p].outgoing = record[a].outgoing]
  /\ Goto(p, "reading")
  /\ UNCHANGED <<record, provider, ignored, mine, run, crashes>>

ReadAndClassify(p) ==
  /\ pc[p] = "reading"
  /\ \E e \in Classification(job[p].trigger, job[p].outgoing) :
       job' = [job EXCEPT ![p].evidence = e]
  /\ Goto(p, "recording")
  /\ UNCHANGED <<record, provider, ignored, mine, run, crashes>>

(* Mutant: the process keeps what the last reconciliation worked on.       *)
KeepJob(p) ==
  /\ job' = [job EXCEPT ![p].evidence = NoEvidence]
  /\ Goto(p, "idle")
  /\ UNCHANGED <<provider, ignored, mine, run, crashes>>

EndReconcile(p) ==
  /\ job' = [job EXCEPT ![p] = NoJob]
  /\ Goto(p, "idle")
  /\ UNCHANGED <<provider, ignored, mine, run, crashes>>

RecordReconciliation(p) ==
  /\ pc[p] = "recording"
  /\ ReconciliationAllowed(record[job[p].attempt], job[p].evidence)
  /\ record' = [record EXCEPT ![job[p].attempt] = WithReconciliation(@, job[p].evidence)]
  /\ EndReconcile(p)

(* The read failed, the evidence is refused or cannot be saved.            *)
ReconcileFails(p) ==
  /\ pc[p] \in {"reading", "recording"}
  /\ UNCHANGED record
  /\ EndReconcile(p)

-----------------------------------------------------------------------------
(* The world.                                                              *)

Say(who, a) ==
  /\ Len(history) < MaxMessages
  /\ \E t \in Times : history' = Append(history, Message(who, t, a))

Speak ==
  /\ \E who \in EmployerKinds \cup {"candidate"} : Say(who, None)
  /\ UNCHANGED <<record, flight, ignored, mine, pc, run, job, crashes>>

(* HH acts on a POST: a reply becomes a message of the candidate.          *)
Deliver(a) ==
  /\ flight[a] = "inflight"
  /\ flight' = [flight EXCEPT ![a] = "delivered"]
  /\ IF record[a].action = "REPLY" THEN Say("candidate", a) ELSE UNCHANGED history
  /\ UNCHANGED <<record, ignored, mine, pc, run, job, crashes>>

Refuse(a) ==
  /\ flight[a] = "inflight"
  /\ flight' = [flight EXCEPT ![a] = "refused"]
  /\ UNCHANGED <<record, history, ignored, mine, pc, run, job, crashes>>

Crash(p) ==
  /\ pc[p] # "idle"
  /\ crashes < MaxCrashes
  /\ crashes' = crashes + 1
  /\ ignored' = [ignored EXCEPT ![p] = {}]
  /\ mine' = [mine EXCEPT ![p] = {}]
  /\ run' = [run EXCEPT ![p] = IdleRun]
  /\ job' = [job EXCEPT ![p] = NoJob]
  /\ Goto(p, "idle")
  /\ UNCHANGED <<record, provider>>

Iterate(p) ==
  \/ ListChat(p) \/ PassOver(p) \/ ClearToLeave(p) \/ ReadHistory(p) \/ ClearToReply(p)
Write(p) ==
  \/ \E a \in Attempts : Reserve(p, a)
  \/ Dispatch(p) \/ DispatchNotSent(p) \/ Answer(p) \/ RecordOutcome(p) \/ RecordOutcomeFails(p)
Reconcile(p) ==
  \/ \E a \in Attempts : ReconcileStart(p, a)
  \/ ReadAndClassify(p) \/ RecordReconciliation(p) \/ ReconcileFails(p)
World ==
  \/ Speak
  \/ \E a \in Attempts : Deliver(a) \/ Refuse(a)
  \/ \E p \in Processes : Crash(p)

Next == (\E p \in Processes : Iterate(p) \/ Write(p) \/ Reconcile(p)) \/ World
Spec == Init /\ [][Next]_vars

-----------------------------------------------------------------------------
(* Properties.                                                             *)

(* Types, and what the steps mean: an idle process holds nothing, and one  *)
(* that may write holds a reserved attempt of its own.                     *)
TypeOK ==
  /\ record \in [Attempts -> Records]
  /\ flight \in [Attempts -> {"none", "inflight", "delivered", "refused"}]
  /\ history \in Seq([who : EmployerKinds \cup {"candidate"}, time : Nat, by : Attempts \cup {None}])
  /\ ignored \in [Processes -> SUBSET Triggers]
  /\ mine \in [Processes -> SUBSET Attempts]
  /\ pc \in [Processes -> Steps]
  /\ \A p \in Processes :
       /\ run[p].chats \in Seq(Entries) /\ run[p].handled \subseteq Triggers
       /\ pc[p] = "idle" => run[p] = IdleRun /\ job[p] = NoJob
       /\ pc[p] \in {"reserved", "waiting", "answered"} => job[p].attempt \in mine[p]
  /\ crashes \in Nat

(* One employer message is answered at most once, by a reply or by a       *)
(* leave, over all processes, operators and restarts; and what HH holds is *)
(* never released for another try (Reserve, RecordOutcome, IsBlocking).    *)
OneWritePerTrigger ==
  INSTANCE AtMostOnce WITH
    Vacancies <- Triggers,
    claims <- [t \in Triggers |-> BlockingFor(t)],
    used <- {a \in Attempts : record[a].state # "FREE"},
    effects <- {a \in Attempts : flight[a] = "delivered"}
ImplementsAtMostOnce == OneWritePerTrigger!Spec

(* A confirmed reply names a message of the candidate that really follows  *)
(* the trigger, before the employer wrote again at a later time, although  *)
(* classify only compares times and worked on an older history.            *)
ConfirmedIsAnswered ==
  \A a \in Attempts : record[a].state = "TARGET_REPLY_CONFIRMED" =>
    LET t == record[a].trigger
        m == record[a].evidence.message
    IN /\ Positive(record[a].evidence)
       /\ m \in DOMAIN history
       /\ t < m
       /\ ~FromEmployer(m)
       /\ \A j \in (t + 1)..(m - 1) : FromEmployer(j) => history[j].time = history[t].time

(* A confirmed or released attempt keeps its state, and a known outgoing   *)
(* message is never replaced, by whichever of the writer and the operator  *)
(* comes last (WithOutcome, WithReconciliation).                           *)
SettledIsFinal ==
  [][\A a \in Attempts :
       /\ record[a].state \in {"TARGET_REPLY_CONFIRMED", "REJECTED", "NOT_SENT"}
            => record'[a].state = record[a].state
       /\ record[a].outgoing # 0 => record'[a].outgoing = record[a].outgoing]_vars

(* As long as it runs, a process replies to one message once, although a   *)
(* failed reply releases it, the chat may be listed twice and the history  *)
(* may name another trigger than the listing (handledTriggers, ignoreChat).*)
OneTryPerLife ==
  \A p \in Processes : \A a, b \in mine[p] :
    /\ record[a].action = "REPLY" /\ record[b].action = "REPLY"
    /\ record[a].trigger = record[b].trigger
    => a = b

(* "A different candidate ID is CONFLICTING; it does not fall back to      *)
(* weaker evidence" (docs/architecture/REFACTOR_R14_5B): an attempt whose  *)
(* outgoing message is known is not confirmed by another message.          *)
NoWeakerFallback ==
  \A a \in Attempts :
    record[a].outgoing # 0 /\ Positive(record[a].evidence)
      => record[a].evidence.message = record[a].outgoing
=============================================================================
