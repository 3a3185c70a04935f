------------------------------ MODULE WriteActions ------------------------------
(***************************************************************************)
(* Approved HH chat actions: an operator approves the text of a draft, the *)
(* dashboard's write gateway sends it to hh.ru once, and the durable       *)
(* action keeps what became of it.                                         *)
(*                                                                         *)
(* A process holds all actions in memory and saves the whole file.  The    *)
(* dashboard serialises its own requests under one mutex, remote calls     *)
(* included, and reloads the files another writer changed when a request   *)
(* begins.  Nothing serialises it with another process: the CLI command    *)
(* `hh action preflight`, or a second dashboard.  The drafts all answer    *)
(* the same employer message of one conversation, with one purpose.        *)
(***************************************************************************)
EXTENDS Naturals, FiniteSets

CONSTANTS
  Gateways,         \* dashboard processes: they approve, edit, cancel and send
  Clis,             \* processes of the CLI command `hh action preflight`
  Drafts,
  Actions,          \* the action ids the id generator may return
  None,
  MaxTexts,         \* bound on the edits of a draft, for model checking
  MaxWritesPerRun,  \* HH_MAX_WRITES_PER_RUN, 0 is unlimited
  MaxWritesPerDay,  \* HH_MAX_WRITES_PER_DAY, 0 is unlimited (one UTC day)
  MaxCrashes        \* bound on process crashes, for model checking

ASSUME WriteLimitsAssumption == MaxWritesPerRun \in Nat /\ MaxWritesPerDay \in Nat
ASSUME WriteBoundsAssumption == MaxTexts \in Nat /\ MaxCrashes \in Nat
ASSUME WriteNoneAssumption == None \notin Drafts \cup Actions
ASSUME WriteProcessAssumption == Gateways \cap Clis = {}

VARIABLES
  disk,      \* the action file and the draft file
  mem,       \* process -> what it holds of the two files in memory
  changed,   \* process -> files written since its last refresh
  audit,     \* durable: action -> its send_started events
  attempts,  \* process -> transports tried since it started
  wire,      \* hh.ru: action -> its POSTs sent, under way and delivered
  pc,        \* process -> what its gateway does next
  job,       \* process -> the action at hand and the answer of hh.ru
  crashes

vars == <<disk, mem, changed, audit, attempts, wire, pc, job, crashes>>
store == <<disk, mem, changed>>

Procs == Gateways \cup Clis
Files == {"actions", "drafts"}

-----------------------------------------------------------------------------
(* Actions and drafts.                                                     *)

Transported == {"SENT", "SENT_UNCONFIRMED", "DELIVERY_CONFIRMED", "DELIVERY_UNCERTAIN",
                "MANUAL_REVIEW", "FAILED"}
Statuses == {"ABSENT", "APPROVED", "SENDING", "CANCELLED", "STALE"} \cup Transported

ActionRecords == [status : Statuses, used : BOOLEAN, draft : Drafts \cup {None},
                  text : 0..MaxTexts, id : BOOLEAN]
DraftRecords == [status : {"GENERATED", "APPROVED", "SENT"}, text : 0..MaxTexts]
Views == {v \in [Files -> [Actions -> ActionRecords] \cup [Drafts -> DraftRecords]] :
            v.actions \in [Actions -> ActionRecords] /\ v.drafts \in [Drafts -> DraftRecords]}

Absent == [status |-> "ABSENT", used |-> FALSE, draft |-> None, text |-> 0, id |-> FALSE]
Approved(d, text) ==
  [status |-> "APPROVED", used |-> FALSE, draft |-> d, text |-> text, id |-> FALSE]

Active(r) == r.status \in {"APPROVED", "SENDING"}

(* Mutant: a withdrawn action may be sent after all.                       *)
SendableUnlessSent(r) == r.status \in {"APPROVED", "STALE", "CANCELLED"} /\ ~r.used

(* Approved, with a nonce that was never used.                             *)
Sendable(r) == r.status = "APPROVED" /\ ~r.used

(* Mutant: the reservation is only made once HH has answered.              *)
ReservedLater(r) == r

Reserved(r) == [r EXCEPT !.status = "SENDING", !.used = TRUE]

Reconcilable(r) ==
  r.status \in {"SENDING", "SENT", "SENT_UNCONFIRMED", "DELIVERY_UNCERTAIN", "MANUAL_REVIEW"}

Outcomes == {"ACCEPTED", "AMBIGUOUS", "REJECTED", "NOT_SENT"}

(* Mutant: the outcome is stored as the status.                            *)
OutcomeIsStatus(o) == IF o = "ACCEPTED" THEN "SENT" ELSE o

StatusFor(o) ==
  CASE o = "ACCEPTED"  -> "SENT"
    [] o = "AMBIGUOUS" -> "DELIVERY_UNCERTAIN"
    [] OTHER           -> "FAILED"

(* Mutant: an accepted message counts as delivered.                        *)
AcceptedIsDelivered(r, found) ==
  IF found \/ r.status = "SENT" THEN "DELIVERY_CONFIRMED" ELSE r.status

(* The transition after a delivery read: only the exact provider message   *)
(* confirms, absence is no proof of anything.                              *)
AfterRead(r, found) ==
  CASE found                -> "DELIVERY_CONFIRMED"
    [] r.status = "SENDING" -> "MANUAL_REVIEW"
    [] r.status = "SENT"    -> "SENT_UNCONFIRMED"
    [] OTHER                -> r.status

-----------------------------------------------------------------------------
(* Files and memory.                                                       *)

(* What a request sees: refreshLocalFiles loads the files that changed.    *)
Refreshed(p) == [f \in Files |-> IF f \in changed[p] THEN disk[f] ELSE mem[p][f]]

(* The process goes on with this view and has managed to save some of it.  *)
Keep(p, view, saved, stale) ==
  /\ mem' = [mem EXCEPT ![p] = view]
  /\ disk' = [f \in Files |-> IF f \in saved THEN view[f] ELSE disk[f]]
  /\ changed' = [q \in Procs |-> (IF q = p THEN stale ELSE changed[q]) \cup saved]

(* A request that is over in one step.                                     *)
Request(p, view, saved) ==
  /\ Keep(p, view, saved, {})
  /\ UNCHANGED <<audit, attempts, wire, pc, job, crashes>>

(* A step in the middle of a request puts one action and saves them all.   *)
PutAction(p, r, saved) ==
  Keep(p, [mem[p] EXCEPT !.actions[job[p].action] = r], saved, changed[p])

MaySave == SUBSET {"actions"}
Current(p) == mem[p].actions[job[p].action]
NoJob == [action |-> None, counted |-> 0, outcome |-> "none", id |-> FALSE]

Goto(p, step) == pc' = [pc EXCEPT ![p] = step]
Done(p) == Goto(p, "idle") /\ job' = [job EXCEPT ![p] = NoJob]

(* What an action has n of is numbered from 1 to n.                        *)
Numbered(counts) == UNION {{a} \X (1..counts[a]) : a \in Actions}
Total(counts) == Cardinality(Numbered(counts))

Init ==
  /\ disk = [f \in Files |-> IF f = "actions" THEN [a \in Actions |-> Absent]
                             ELSE [d \in Drafts |-> [status |-> "GENERATED", text |-> 0]]]
  /\ mem = [p \in Procs |-> disk]
  /\ changed = [p \in Procs |-> {}]
  /\ audit = [a \in Actions |-> 0]
  /\ attempts = [p \in Procs |-> 0]
  /\ wire = [a \in Actions |-> [posts |-> 0, inflight |-> 0, delivered |-> 0]]
  /\ pc = [p \in Procs |-> "idle"]
  /\ job = [p \in Procs |-> NoJob]
  /\ crashes = 0

-----------------------------------------------------------------------------
(* The operator's requests.                                                *)

(* Ids are random: one that is or was in use never comes back.             *)
Unused(a) ==
  /\ audit[a] = 0
  /\ disk.actions[a] = Absent
  /\ \A q \in Procs : mem[q].actions[a] = Absent

(* Mutant: only an approval that waits is in the way of another one.       *)
OnlyApprovedBlocks(known, d) ==
  \A b \in Actions : known[b].status = "APPROVED" => known[b].draft = d

(* No other draft has an active approval, and this draft is not being sent. *)
MayApprove(known, d) ==
  \A b \in Actions :
    Active(known[b]) => known[b].draft = d /\ known[b].status = "APPROVED"

(* The draft's own approval, if there is one, rests on candidate knowledge *)
(* that changed: it is withdrawn (otherwise the request is refused).       *)
ApproveDraft(p, d, a) ==
  LET view == Refreshed(p)
      known == view.actions
      withdrawn == [b \in Actions |->
                      IF known[b].draft = d /\ known[b].status = "APPROVED"
                      THEN [known[b] EXCEPT !.status = "STALE"] ELSE known[b]]
  IN  /\ pc[p] = "idle"
      /\ Unused(a)
      /\ view.drafts[d].status \in {"GENERATED", "APPROVED"}
      /\ MayApprove(known, d)
      /\ \E saved \in {{}, {"actions"}, {"actions", "drafts"}} :
           Request(p, [view EXCEPT !.actions = [withdrawn EXCEPT ![a] = Approved(d, view.drafts[d].text)],
                                   !.drafts[d].status = "APPROVED"], saved)

(* What an edit of the draft makes stale: all but SENT and CANCELLED.      *)
Invalidated(r) == r.status \notin {"ABSENT", "SENT", "CANCELLED"}

EditDraft(p, d) ==
  LET view == Refreshed(p)
  IN  /\ pc[p] = "idle"
      /\ view.drafts[d].text < MaxTexts
      /\ \E saved \in {{}, {"drafts"}, {"actions", "drafts"}} :
           Request(p, [view EXCEPT
             !.actions = [b \in Actions |-> IF view.actions[b].draft = d /\ Invalidated(view.actions[b])
                                            THEN [view.actions[b] EXCEPT !.status = "STALE"]
                                            ELSE view.actions[b]],
             !.drafts[d] = [status |-> "GENERATED", text |-> view.drafts[d].text + 1]], saved)

(* A regenerated draft withdraws the conversation's waiting approvals.     *)
InvalidateConversationApprovals(p) ==
  LET view == Refreshed(p)
  IN  /\ pc[p] = "idle"
      /\ \E saved \in MaySave :
           Request(p, [view EXCEPT
             !.actions = [b \in Actions |-> IF view.actions[b].status = "APPROVED"
                                            THEN [view.actions[b] EXCEPT !.status = "STALE"]
                                            ELSE view.actions[b]]], saved)

Cancel(p, a) ==
  LET view == Refreshed(p)
  IN  /\ pc[p] = "idle"
      /\ view.actions[a].status \in {"APPROVED", "STALE"}
      /\ \E saved \in MaySave :
           Request(p, [view EXCEPT !.actions[a].status = "CANCELLED"], saved)

-----------------------------------------------------------------------------
(* PreflightAction, of the dashboard and of the CLI.                       *)

(* Mutant: the text of the draft is not compared.                          *)
AnyText(p, r) == TRUE

TextIsCurrent(p, r) == mem[p].drafts[r.draft].text = r.text

(* Actions.Reload, then a read from hh.ru that takes its time.             *)
PreflightStart(p, a) ==
  /\ pc[p] = "idle"
  /\ disk.actions[a].status # "ABSENT"
  /\ Keep(p, [Refreshed(p) EXCEPT !.actions = disk.actions], {}, {})
  /\ job' = [job EXCEPT ![p].action = a]
  /\ Goto(p, "checking")
  /\ UNCHANGED <<audit, attempts, wire, crashes>>

(* Whatever the result, all actions are saved as they were reloaded.  A    *)
(* preflight may fail for many reasons: a closed conversation, a newer     *)
(* message, an unresolved question.                                        *)
PreflightEnd(p) ==
  /\ pc[p] = "checking"
  /\ \E saved \in MaySave :
       \/ /\ Current(p).status = "APPROVED"
          /\ PutAction(p, [Current(p) EXCEPT !.status = "STALE"], saved)
       \/ /\ Current(p).status = "APPROVED" => TextIsCurrent(p, Current(p))
          /\ PutAction(p, Current(p), saved)
  /\ Done(p)
  /\ UNCHANGED <<audit, attempts, wire, crashes>>

-----------------------------------------------------------------------------
(* Send, and the gateway core (usecase/hhwritegateway).                    *)

(* Actions and audit as they are on disk now; the fresh read takes time.   *)
SendStart(p, a) ==
  /\ pc[p] = "idle"
  /\ Sendable(disk.actions[a])
  /\ Keep(p, [Refreshed(p) EXCEPT !.actions = disk.actions], {}, {})
  /\ job' = [job EXCEPT ![p] = [NoJob EXCEPT !.action = a, !.counted = Total(audit)]]
  /\ Goto(p, "preflight")
  /\ UNCHANGED <<audit, attempts, wire, crashes>>

(* The preflight refuses, or the request to be built is not valid.         *)
SendBlocked(p) ==
  /\ pc[p] = "preflight"
  /\ \E saved \in MaySave :
       \/ PutAction(p, [Current(p) EXCEPT !.status = "STALE"], saved)
       \/ /\ TextIsCurrent(p, Current(p))
          /\ PutAction(p, [Current(p) EXCEPT !.status = "MANUAL_REVIEW"], saved)
  /\ Done(p)
  /\ UNCHANGED <<audit, attempts, wire, crashes>>

(* Mutant: the limit is checked for having been passed.                    *)
OneTooMany(p) ==
  /\ MaxWritesPerRun = 0 \/ attempts[p] < MaxWritesPerRun
  /\ MaxWritesPerDay = 0 \/ job[p].counted <= MaxWritesPerDay

LimitsLeft(p) ==
  /\ MaxWritesPerRun = 0 \/ attempts[p] < MaxWritesPerRun
  /\ MaxWritesPerDay = 0 \/ job[p].counted < MaxWritesPerDay

SendRefused(p) ==
  /\ pc[p] = "preflight"
  /\ TextIsCurrent(p, Current(p))
  /\ ~LimitsLeft(p)
  /\ Done(p)
  /\ UNCHANGED <<store, audit, attempts, wire, crashes>>

(* approvedHHActionGatewayStore.Reserve: from memory, not from the file.   *)
Reserve(p) ==
  /\ pc[p] = "preflight"
  /\ TextIsCurrent(p, Current(p))
  /\ LimitsLeft(p)
  /\ Sendable(Current(p))
  /\ \/ PutAction(p, Reserved(Current(p)), {"actions"}) /\ Goto(p, "reserved") /\ UNCHANGED job
     \/ PutAction(p, Reserved(Current(p)), {}) /\ Done(p)
  /\ UNCHANGED <<audit, attempts, wire, crashes>>

(* Mutant: the event is only kept in memory.                               *)
NotDurable(p) == UNCHANGED audit

(* The audit file is reloaded and appended to under its lock.              *)
AppendSendStarted(p) == audit' = [audit EXCEPT ![job[p].action] = @ + 1]

AuditSend(p) ==
  /\ pc[p] = "reserved"
  /\ AppendSendStarted(p)
  /\ attempts' = [attempts EXCEPT ![p] = @ + 1]
  /\ Goto(p, "dispatch")
  /\ UNCHANGED <<store, wire, job, crashes>>

(* Without the audit event nothing is sent.                                *)
AuditFails(p) ==
  /\ pc[p] = "reserved"
  /\ \E saved \in MaySave :
       PutAction(p, [Current(p) EXCEPT !.status = "MANUAL_REVIEW"], saved)
  /\ Done(p)
  /\ UNCHANGED <<audit, attempts, wire, crashes>>

Dispatch(p) ==
  /\ pc[p] = "dispatch"
  /\ wire' = [wire EXCEPT ![job[p].action].posts = @ + 1, ![job[p].action].inflight = @ + 1]
  /\ Goto(p, "waiting")
  /\ UNCHANGED <<store, audit, attempts, job, crashes>>

(* The writer fails before the POST leaves.                                *)
DispatchNotSent(p) ==
  /\ pc[p] = "dispatch"
  /\ job' = [job EXCEPT ![p].outcome = "NOT_SENT"]
  /\ Goto(p, "answered")
  /\ UNCHANGED <<store, audit, attempts, wire, crashes>>

(* A 2xx may come before the message is stored; a refusal never after it.  *)
AnswersFor(a) ==
  {"AMBIGUOUS"} \cup (IF wire[a].inflight + wire[a].delivered > 0 THEN {"ACCEPTED"} ELSE {"REJECTED"})

Answer(p) ==
  /\ pc[p] = "waiting"
  /\ \E o \in AnswersFor(job[p].action), id \in BOOLEAN :
       /\ id => o = "ACCEPTED"
       /\ job' = [job EXCEPT ![p].outcome = o, ![p].id = id]
  /\ Goto(p, "answered")
  /\ UNCHANGED <<store, audit, attempts, wire, crashes>>

(* Record.  Only an accepted answer that was recorded and audited is       *)
(* followed up; every failure leaves what was last saved.                  *)
RecordAnswer(p) ==
  /\ pc[p] = "answered"
  /\ \E saved \in MaySave :
       /\ PutAction(p, [Current(p) EXCEPT !.status = StatusFor(job[p].outcome), !.id = job[p].id], saved)
       /\ \/ /\ saved # {}
             /\ job[p].outcome = "ACCEPTED"
             /\ Goto(p, "project")
             /\ UNCHANGED job
          \/ Done(p)
  /\ UNCHANGED <<audit, attempts, wire, crashes>>

(* The message joins the local conversation, or it cannot.                 *)
Project(p) ==
  /\ pc[p] = "project"
  /\ \/ /\ \E saved \in SUBSET Files :
             Keep(p, [mem[p] EXCEPT !.actions[job[p].action].status = "SENT",
                                    !.drafts[Current(p).draft].status = "SENT"], saved, changed[p])
        /\ Goto(p, "confirm")
        /\ UNCHANGED job
     \/ /\ \E saved \in MaySave :
             PutAction(p, [Current(p) EXCEPT !.status = "MANUAL_REVIEW"], saved)
        /\ Done(p)
  /\ UNCHANGED <<audit, attempts, wire, crashes>>

(* A delivery read: listings lag behind, and without the provider's id of  *)
(* the message nothing is read.                                            *)
MayFind(p) == {FALSE} \cup {wire[job[p].action].delivered > 0 /\ Current(p).id}

(* Send's own confirmation, and an operator's reconciliation, which saves  *)
(* a transition only.                                                      *)
Confirm(p) ==
  /\ pc[p] \in {"confirm", "reconcile"}
  /\ \E found \in MayFind(p), saved \in MaySave :
       LET status == AfterRead(Current(p), found)
       IN  /\ saved # {} => pc[p] = "confirm" \/ status # Current(p).status
           /\ PutAction(p, [Current(p) EXCEPT !.status = status], saved)
  /\ Done(p)
  /\ UNCHANGED <<audit, attempts, wire, crashes>>

ReconcileDelivery(p, a) ==
  /\ pc[p] = "idle"
  /\ Reconcilable(Refreshed(p).actions[a])
  /\ Keep(p, Refreshed(p), {}, {})
  /\ job' = [job EXCEPT ![p].action = a]
  /\ Goto(p, "reconcile")
  /\ UNCHANGED <<audit, attempts, wire, crashes>>

-----------------------------------------------------------------------------
(* The world outside a process.                                            *)

Deliver(a) ==
  /\ wire[a].inflight > 0
  /\ wire' = [wire EXCEPT ![a].inflight = @ - 1, ![a].delivered = @ + 1]
  /\ UNCHANGED <<store, audit, attempts, pc, job, crashes>>

(* Refused, or lost on the way.                                            *)
Lose(a) ==
  /\ wire[a].inflight > 0
  /\ wire' = [wire EXCEPT ![a].inflight = @ - 1]
  /\ UNCHANGED <<store, audit, attempts, pc, job, crashes>>

(* A new process starts from the files.                                    *)
Restart(p) ==
  /\ crashes < MaxCrashes
  /\ crashes' = crashes + 1
  /\ Keep(p, disk, {}, {})
  /\ attempts' = [attempts EXCEPT ![p] = 0]
  /\ Done(p)
  /\ UNCHANGED <<audit, wire>>

Send(p) ==
  \/ \E a \in Actions : SendStart(p, a)
  \/ SendBlocked(p) \/ SendRefused(p) \/ Reserve(p) \/ AuditSend(p) \/ AuditFails(p)
  \/ Dispatch(p) \/ DispatchNotSent(p) \/ Answer(p) \/ RecordAnswer(p) \/ Project(p)

Operate(p) ==
  \/ \E d \in Drafts : EditDraft(p, d) \/ \E a \in Actions : ApproveDraft(p, d, a)
  \/ InvalidateConversationApprovals(p)
  \/ \E a \in Actions : Cancel(p, a) \/ ReconcileDelivery(p, a)

Next ==
  \/ \E p \in Gateways : Operate(p) \/ Send(p) \/ Confirm(p)
  \/ \E p \in Procs : Restart(p) \/ PreflightEnd(p) \/ \E a \in Actions : PreflightStart(p, a)
  \/ \E a \in Actions : Deliver(a) \/ Lose(a)

Spec == Init /\ [][Next]_vars

-----------------------------------------------------------------------------
(* Properties.                                                             *)

Steps == {"idle", "checking", "preflight", "reserved", "dispatch", "waiting", "answered",
          "project", "confirm", "reconcile"}

(* Every variable holds what the code can store in it: the loader accepts  *)
(* every file that was saved, whatever outcome a status was made from.     *)
TypeOK ==
  /\ disk \in Views
  /\ mem \in [Procs -> Views]
  /\ changed \in [Procs -> SUBSET Files]
  /\ audit \in [Actions -> Nat]
  /\ attempts \in [Procs -> Nat]
  /\ wire \in [Actions -> [posts : Nat, inflight : Nat, delivered : Nat]]
  /\ pc \in [Procs -> Steps]
  /\ job \in [Procs -> [action : Actions \cup {None}, counted : Nat,
                        outcome : Outcomes \cup {"none"}, id : BOOLEAN]]
  /\ crashes \in Nat

(* An approval is good for one POST, over failed saves, crashes, restarts, *)
(* retries and uncertain answers: "the one-at-most-once dispatch"          *)
(* (hh_write_gateway.go:1173), with the store's Reserve as its guard.      *)
OneDispatch == \A a \in Actions : wire[a].posts <= 1

(* Nothing leaves without its durable send_started event, so the audit     *)
(* never counts fewer writes than were made (service.go: SendChatMessage). *)
EveryPostAudited == \A a \in Actions : wire[a].posts <= audit[a]

(* HH_MAX_WRITES_PER_DAY bounds the POSTs of a day, over restarts.         *)
DailyLimit ==
  MaxWritesPerDay > 0 => Total([a \in Actions |-> wire[a].posts]) <= MaxWritesPerDay

(* The file never holds two approvals that wait or are being sent, so two  *)
(* different texts never compete for the same employer message             *)
(* (writeapproval: ErrActiveApproval, ErrApprovalExists).                  *)
OneActiveApproval ==
  \A a, b \in Actions : Active(disk.actions[a]) /\ Active(disk.actions[b]) => a = b

(* A delivery is only called confirmed when hh.ru holds the message.       *)
ConfirmedIsDelivered ==
  \A a \in Actions :
    disk.actions[a].status = "DELIVERY_CONFIRMED" => wire[a].delivered > 0

(* A message is posted with the text its draft has in the dashboard at     *)
(* that moment: no edit whose saves partly failed, and no restart, lets an *)
(* older text through (EditDraft saves two files, one after the other).    *)
SendsCurrentText ==
  [][\A p \in Gateways : Dispatch(p)
       => LET r == disk.actions[job[p].action] IN mem[p].drafts[r.draft].text = r.text]_vars

(* What the operator withdrew is not sent: once the file says CANCELLED or *)
(* STALE, it never says APPROVED or SENDING again and no POST begins.      *)
WithdrawnIsNotSent ==
  [][\A a \in Actions : disk.actions[a].status \in {"CANCELLED", "STALE"}
       => ~Active(disk'.actions[a]) /\ wire'[a].posts = wire[a].posts]_vars

(* "Terminal transport states retain their history."                       *)
(* (writeapproval/service.go:170): an action whose transport was tried is  *)
(* never turned back into one whose was not.                               *)
TransportHistoryKept ==
  [][\A a \in Actions : disk.actions[a].status \in Transported
       => disk'.actions[a].status \in Transported]_vars
=============================================================================
