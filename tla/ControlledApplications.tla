------------------------- MODULE ControlledApplications -------------------------
(***************************************************************************)
(* Applications an operator approved one by one: a pilot artifact becomes  *)
(* an approval file with a one-time nonce (hh-api approval export), and    *)
(* `hh-api apply` or `apply-batch` sends the approvals it is given, each   *)
(* after a fresh preflight, through the durable attempt store.             *)
(*                                                                         *)
(* A batch goes on after an application that was stopped before its POST   *)
(* or is confirmed, and stops after any other.  The attempt store is one   *)
(* atomic record per vacancy, the newest one (see ApplicationAttempts).    *)
(***************************************************************************)
EXTENDS Naturals, Sequences, FiniteSets, SequencesExt

CONSTANTS
  Commands,    \* processes of `hh-api apply` and `hh-api apply-batch`
  Files,       \* paths of approval files
  Nonces,      \* pilot artifacts, each with the nonce it was given
  VacancyOf,   \* the vacancy of each artifact
  None,
  MaxItems,    \* batchMaxApplications, three in the code
  MaxExports,  \* bound on the exports of one artifact, for model checking
  MaxRuns,     \* bound on commands started, for model checking
  MaxCrashes   \* bound on process crashes, for model checking

ASSUME ItemsAssumption == MaxItems \in Nat \ {0}
ASSUME BoundsAssumption == MaxExports \in Nat /\ MaxRuns \in Nat /\ MaxCrashes \in Nat
ASSUME ControlledNoneAssumption == None \notin Commands \cup Nonces
ASSUME FiniteAssumption == IsFiniteSet(Commands) /\ IsFiniteSet(Files)

Vacancies == {VacancyOf[n] : n \in Nonces}

VARIABLES
  file,     \* durable: path -> the approval in it
  lock,     \* durable: path -> the command that created its .lock file
  attempt,  \* durable: vacancy -> state of its newest attempt
  post,     \* hh.ru: nonce -> what became of its newest POST
  posts,    \* nonce -> its POSTs
  exports,  \* nonce -> approval files written with it
  pc,       \* command -> what it does next
  batch,    \* command -> the paths it still has to go through
  item,     \* command -> the approval it holds and what happened to it
  sent,     \* command -> vacancies it sent a POST to
  runs, crashes

durable == <<file, lock, attempt>>
provider == <<post, posts>>
vars == <<durable, provider, exports, pc, batch, item, sent, runs, crashes>>

-----------------------------------------------------------------------------
(* Approval files, attempts and answers.                                   *)

NoApproval == [nonce |-> None, used |-> FALSE]
Approvals == [nonce : Nonces \cup {None}, used : BOOLEAN]

Executable(approval) == approval.nonce # None /\ ~approval.used

(* Class of the answer: what the writer makes of it.                       *)
Classes == {"SUCCESS", "ALREADY_APPLIED", "UNKNOWN", "REJECTED", "NOT_SENT"}
States == {"none", "SENDING", "ACCEPTED", "REJECTED", "NOT_SENT", "DELIVERY_UNCERTAIN",
           "TARGET_RESPONSE_CONFIRMED"}
IsBlocking(s) == s \notin {"none", "REJECTED", "NOT_SENT"}

StateFor(class) ==
  CASE class = "SUCCESS"                        -> "ACCEPTED"
    [] class \in {"UNKNOWN", "ALREADY_APPLIED"} -> "DELIVERY_UNCERTAIN"
    [] OTHER                                    -> class

Reconciled == {"SUCCESS", "ALREADY_APPLIED", "UNKNOWN"}

NoItem == [path |-> None, approval |-> NoApproval, class |-> "none", tried |-> FALSE, failed |-> FALSE,
           confirmed |-> FALSE]
Items == [path : Files \cup {None}, approval : Approvals, class : Classes \cup {"none"},
          tried : BOOLEAN, failed : BOOLEAN, confirmed : BOOLEAN]

Exposed(n) == post[n] \in {"inflight", "delivered", "duplicate"}
Responded(v) == \E n \in Nonces : VacancyOf[n] = v /\ post[n] = "delivered"

Steps == {"idle", "load", "lock", "check", "write", "unlock", "reserve", "send", "wait", "record",
          "reconcile", "next"}

Goto(p, step) == pc' = [pc EXCEPT ![p] = step]
Nonce(p) == item[p].approval.nonce
Vacancy(p) == VacancyOf[Nonce(p)]

Init ==
  /\ file = [f \in Files |-> NoApproval]
  /\ lock = [f \in Files |-> None]
  /\ attempt = [v \in Vacancies |-> "none"]
  /\ post = [n \in Nonces |-> "none"]
  /\ posts = [n \in Nonces |-> 0]
  /\ exports = [n \in Nonces |-> 0]
  /\ pc = [p \in Commands |-> "idle"]
  /\ batch = [p \in Commands |-> <<>>]
  /\ item = [p \in Commands |-> NoItem]
  /\ sent = [p \in Commands |-> {}]
  /\ runs = 0 /\ crashes = 0

-----------------------------------------------------------------------------
(* The operator.                                                           *)

(* An artifact is exported to any path, whatever is there.  The artifact   *)
(* itself is never marked as used.                                         *)
Export(f, n) ==
  /\ exports[n] < MaxExports
  /\ file' = [file EXCEPT ![f] = [nonce |-> n, used |-> FALSE]]
  /\ exports' = [exports EXCEPT ![n] = @ + 1]
  /\ UNCHANGED <<lock, attempt, provider, pc, batch, item, sent, runs, crashes>>

(* Every approval is validated, and the vacancies differ, before the first *)
(* one is executed.  A single apply is a batch of one.                     *)
Start(p) ==
  /\ pc[p] = "idle" /\ runs < MaxRuns
  /\ \E paths \in UNION {[1..k -> Files] : k \in 1..MaxItems} :
       /\ \A i \in DOMAIN paths : Executable(file[paths[i]])
       /\ \A i, j \in DOMAIN paths :
            i # j => VacancyOf[file[paths[i]].nonce] # VacancyOf[file[paths[j]].nonce]
       /\ batch' = [batch EXCEPT ![p] = paths]
  /\ Goto(p, "next")
  /\ runs' = runs + 1
  /\ UNCHANGED <<durable, provider, exports, item, sent, crashes>>

-----------------------------------------------------------------------------
(* One application (controlledApplicationService.Execute).                 *)

(* Execute returns; nothing was sent.                                      *)
Block(p) ==
  /\ Goto(p, "next")
  /\ item' = [item EXCEPT ![p].failed = TRUE]

(* Load and validate the file once more, then the preflight, the last read *)
(* before the POST: it stops for a response HH already shows, or for       *)
(* anything else.                                                          *)
Prepare(p) ==
  /\ pc[p] = "load"
  /\ LET approval == file[item[p].path]
     IN \/ /\ Executable(approval) /\ ~Responded(VacancyOf[approval.nonce])
           /\ item' = [item EXCEPT ![p].approval = approval]
           /\ Goto(p, "lock")
        \/ Block(p)
  /\ UNCHANGED <<durable, provider, exports, batch, sent, runs, crashes>>

(* Mutant: an existing lock file is no obstacle.                           *)
LockIgnored(p) == TRUE

(* The lock file is created only if there is none.                         *)
LockFree(p) == lock[item[p].path] = None

(* consumeAPIApplicationApprovalNonce; the file may not be creatable.      *)
LockNonce(p) ==
  /\ pc[p] = "lock"
  /\ \/ /\ LockFree(p)
        /\ lock' = [lock EXCEPT ![item[p].path] = p]
        /\ Goto(p, "check") /\ UNCHANGED item
     \/ Block(p) /\ UNCHANGED lock
  /\ UNCHANGED <<file, attempt, provider, exports, batch, sent, runs, crashes>>

(* Mutant: the approval that was loaded is trusted.                        *)
LoadedApproval(p) == TRUE

(* The file still holds the approval that was loaded, unused.              *)
SameApproval(p) ==
  Executable(file[item[p].path]) /\ file[item[p].path].nonce = Nonce(p)

(* It is read once more under the lock.                                    *)
CheckNonce(p) ==
  /\ pc[p] = "check"
  /\ IF SameApproval(p)
       THEN Goto(p, "write") /\ UNCHANGED item
       ELSE Goto(p, "unlock") /\ item' = [item EXCEPT ![p].failed = TRUE]
  /\ UNCHANGED <<durable, provider, exports, batch, sent, runs, crashes>>

(* It is written as used, over whatever is there; the write may fail.      *)
WriteNonce(p) ==
  /\ pc[p] = "write"
  /\ \/ /\ file' = [file EXCEPT ![item[p].path] = [item[p].approval EXCEPT !.used = TRUE]]
        /\ UNCHANGED item
     \/ /\ item' = [item EXCEPT ![p].failed = TRUE]
        /\ UNCHANGED file
  /\ Goto(p, "unlock")
  /\ UNCHANGED <<lock, attempt, provider, exports, batch, sent, runs, crashes>>

UnlockNonce(p) ==
  /\ pc[p] = "unlock"
  /\ lock' = [lock EXCEPT ![item[p].path] = None]
  /\ Goto(p, IF item[p].failed THEN "next" ELSE "reserve")
  /\ UNCHANGED <<file, attempt, provider, exports, batch, item, sent, runs, crashes>>

(* Mutant: an uncertain attempt does not block the vacancy.                *)
ReservableUnlessSending(v) == attempt[v] \notin {"SENDING", "ACCEPTED", "TARGET_RESPONSE_CONFIRMED"}

(* The vacancy has no blocking attempt.                                    *)
Reservable(v) == ~IsBlocking(attempt[v])

(* The durable attempt, before the POST.                                   *)
Reserve(p) ==
  /\ pc[p] = "reserve"
  /\ \/ /\ Reservable(Vacancy(p))
        /\ attempt' = [attempt EXCEPT ![Vacancy(p)] = "SENDING"]
        /\ Goto(p, "send") /\ UNCHANGED item
     \/ Block(p) /\ UNCHANGED attempt
  /\ UNCHANGED <<file, lock, provider, exports, batch, sent, runs, crashes>>

(* A limit is reached or the audit cannot be written: the gateway sends    *)
(* nothing, and so the record says, if it can be written.                  *)
Refuse(p) ==
  /\ pc[p] = "send"
  /\ \/ attempt' = [attempt EXCEPT ![Vacancy(p)] = "NOT_SENT"]
     \/ UNCHANGED attempt
  /\ Block(p)
  /\ UNCHANGED <<file, lock, provider, exports, batch, sent, runs, crashes>>

Post(p) ==
  /\ pc[p] = "send"
  /\ post' = [post EXCEPT ![Nonce(p)] = "inflight"]
  /\ posts' = [posts EXCEPT ![Nonce(p)] = @ + 1]
  /\ item' = [item EXCEPT ![p].tried = TRUE]
  /\ sent' = [sent EXCEPT ![p] = @ \cup {Vacancy(p)}]
  /\ Goto(p, "wait")
  /\ UNCHANGED <<durable, exports, batch, runs, crashes>>

(* What HH makes of a POST, which may be after its client gave up.         *)
Deliver(n) ==
  /\ post[n] = "inflight"
  /\ post' = [post EXCEPT ![n] = IF Responded(VacancyOf[n]) THEN "duplicate" ELSE "delivered"]
  /\ UNCHANGED <<durable, posts, exports, pc, batch, item, sent, runs, crashes>>

Turndown(n) ==
  /\ post[n] = "inflight"
  /\ post' = [post EXCEPT ![n] = "refused"]
  /\ UNCHANGED <<durable, posts, exports, pc, batch, item, sent, runs, crashes>>

ClassesFor(p) ==
  {"UNKNOWN"} \cup
  CASE post[Nonce(p)] = "delivered" -> {"SUCCESS"}
    [] post[Nonce(p)] = "duplicate" -> {"ALREADY_APPLIED"}
    [] post[Nonce(p)] = "refused"   -> {"REJECTED", "NOT_SENT"}
    [] OTHER                        -> {}

(* The answer.  Every one but success comes with an error.                 *)
Answer(p) ==
  /\ pc[p] = "wait"
  /\ \E class \in ClassesFor(p) :
       item' = [item EXCEPT ![p].class = class, ![p].failed = class # "SUCCESS"]
  /\ Goto(p, "record")
  /\ UNCHANGED <<durable, provider, exports, batch, sent, runs, crashes>>

RecordOutcome(p) ==
  /\ pc[p] = "record"
  /\ \/ /\ attempt' = [attempt EXCEPT ![Vacancy(p)] = StateFor(item[p].class)]
        /\ UNCHANGED item
     \/ /\ item' = [item EXCEPT ![p].failed = TRUE]
        /\ UNCHANGED attempt
  /\ Goto(p, IF item[p].class \in Reconciled THEN "reconcile" ELSE "next")
  /\ UNCHANGED <<file, lock, provider, exports, batch, sent, runs, crashes>>

(* After an answer that leaves the response possible HH is read: the       *)
(* evidence is positive only if the response is there.  What it finds is   *)
(* what the result says, even when the record of it fails or the session   *)
(* cannot be saved.                                                        *)
Confirms(p) ==
  /\ Responded(Vacancy(p))
  /\ \/ /\ attempt' = [attempt EXCEPT ![Vacancy(p)] = "TARGET_RESPONSE_CONFIRMED"]
        /\ \E failed \in BOOLEAN :
             item' = [item EXCEPT ![p].confirmed = TRUE, ![p].failed = @ \/ failed]
     \/ /\ item' = [item EXCEPT ![p].confirmed = TRUE, ![p].failed = TRUE]
        /\ UNCHANGED attempt

(* The read fails, or it does not show the response, yet or at all.        *)
Unconfirmed(p) ==
  /\ \E failed \in BOOLEAN : item' = [item EXCEPT ![p].failed = @ \/ failed]
  /\ UNCHANGED attempt

Reconcile(p) ==
  /\ pc[p] = "reconcile"
  /\ Confirms(p) \/ Unconfirmed(p)
  /\ Goto(p, "next")
  /\ UNCHANGED <<file, lock, provider, exports, batch, sent, runs, crashes>>

-----------------------------------------------------------------------------
(* The batch (executeControlledApplicationBatch).                          *)

(* Mutant: a final outcome that is confirmed outweighs an error.           *)
OutcomeConfirmed(p) == item[p].tried => item[p].confirmed

(* What lets the batch go on: nothing was tried, or all went well and the  *)
(* outcome is confirmed.                                                   *)
Settled(p) == item[p].tried => ~item[p].failed /\ item[p].confirmed

NextItem(p) ==
  /\ pc[p] = "next" /\ Settled(p) /\ batch[p] # <<>>
  /\ item' = [item EXCEPT ![p] = [NoItem EXCEPT !.path = Head(batch[p])]]
  /\ batch' = [batch EXCEPT ![p] = Tail(@)]
  /\ Goto(p, "load")
  /\ UNCHANGED <<durable, provider, exports, sent, runs, crashes>>

(* The memory of the process is gone.                                      *)
Leave(p) ==
  /\ Goto(p, "idle")
  /\ item' = [item EXCEPT ![p] = NoItem]
  /\ batch' = [batch EXCEPT ![p] = <<>>]
  /\ sent' = [sent EXCEPT ![p] = {}]
  /\ UNCHANGED <<durable, provider, exports, runs>>

EndBatch(p) ==
  /\ pc[p] = "next" /\ (batch[p] = <<>> \/ ~Settled(p))
  /\ Leave(p) /\ UNCHANGED crashes

(* A lock file outlives its process, and nothing removes it.               *)
Crash(p) ==
  /\ pc[p] # "idle" /\ crashes < MaxCrashes
  /\ Leave(p) /\ crashes' = crashes + 1

Command(p) ==
  \/ Start(p) \/ NextItem(p) \/ EndBatch(p) \/ Crash(p)
  \/ Prepare(p) \/ LockNonce(p) \/ CheckNonce(p) \/ WriteNonce(p) \/ UnlockNonce(p)
  \/ Reserve(p) \/ Refuse(p) \/ Post(p) \/ Answer(p) \/ RecordOutcome(p) \/ Reconcile(p)

Provider == \E n \in Nonces : Deliver(n) \/ Turndown(n)

Next ==
  \/ \E f \in Files, n \in Nonces : Export(f, n)
  \/ \E p \in Commands : Command(p)
  \/ Provider

Spec == Init /\ [][Next]_vars

-----------------------------------------------------------------------------
(* Properties.                                                             *)

(* The state of files, attempts, POSTs and commands is well formed.        *)
TypeOK ==
  /\ file \in [Files -> Approvals]
  /\ lock \in [Files -> Commands \cup {None}]
  /\ attempt \in [Vacancies -> States]
  /\ post \in [Nonces -> {"none", "inflight", "delivered", "duplicate", "refused"}]
  /\ posts \in [Nonces -> Nat] /\ exports \in [Nonces -> 0..MaxExports]
  /\ pc \in [Commands -> Steps]
  /\ \A p \in Commands : batch[p] \in Seq(Files) /\ Len(batch[p]) <= MaxItems
  /\ item \in [Commands -> Items]
  /\ sent \in [Commands -> SUBSET Vacancies]
  /\ runs \in 0..MaxRuns /\ crashes \in 0..MaxCrashes

(* The nonce: one written approval file sends at most one POST, whatever   *)
(* commands are given it at the same time and wherever one of them dies.   *)
OnePostPerExport == \A n \in Nonces : posts[n] <= exports[n]

(* A vacancy is never exposed to two responses.  Whoever sends to it, HH   *)
(* has no other POST of the vacancy that it took or may still take: none   *)
(* of another artifact, and no earlier one of this artifact, which the     *)
(* operator exported again (post keeps the newest of each artifact only).  *)
OneExposure ==
  [][\A n \in Nonces : posts'[n] # posts[n] =>
       \A m \in Nonces : VacancyOf[m] = VacancyOf[n] => ~Exposed(m)]_vars

(* A batch that sends again knows what became of all it has sent: the      *)
(* attempts on record confirm it (the record of a confirmation failing     *)
(* must not release the batch, says executeControlledApplicationBatch).    *)
SettledBeforeNext ==
  \A p \in Commands :
    pc[p] = "send" => \A v \in sent[p] : attempt[v] = "TARGET_RESPONSE_CONFIRMED" /\ Responded(v)

=============================================================================
