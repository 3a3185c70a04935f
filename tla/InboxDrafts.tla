------------------------------ MODULE InboxDrafts ------------------------------
(***************************************************************************)
(* Reply drafts of the dashboard, beside the reads of InboxSync: showing   *)
(* the inbox starts a worker for a conversation that needs a reply; it     *)
(* takes a copy of its input, asks the model without holding the lock of   *)
(* the dashboard, and commits the decision if the input is still the same  *)
(* and nobody else has drafted for it.  A request for a draft does all of  *)
(* it under the lock.                                                      *)
(***************************************************************************)
EXTENDS InboxSync

CONSTANT MaxKnowledge  \* bound on the answers of the candidate, for model checking

ASSUME KnowledgeAssumption == MaxKnowledge \in Nat

VARIABLES
  knowledge,  \* version of the candidate's knowledge
  drafted,    \* stores in memory and on disk: input -> its GENERATED drafts
  asking,     \* ... and whether a clarification is pending
  worker      \* the inbox draft worker of the conversation

draftvars == <<knowledge, drafted, asking, worker>>
vars == <<syncvars, draftvars>>

(* The latest employer message and the knowledge a draft was made for: its *)
(* input fingerprint.                                                      *)
Inputs == (1..MaxMessages) \X (0..MaxKnowledge)
Copies == {"mem", "disk"}

NoWorker == [step |-> "none", messages |-> 0, reads |-> 0, knowledge |-> 0]
Workers == [step : {"none", "deferred", "prepare", "model", "draft", "ask"},
            messages : 0..MaxMessages, reads : Nat, knowledge : 0..MaxKnowledge]

-----------------------------------------------------------------------------
(* What the dashboard sees under its lock.                                 *)

Unlocked == ~Committing("dashboard")

(* refreshLocalFiles: files another process or a commit has changed are    *)
(* loaded.  The draft files change by the dashboard's own saves.           *)
Refreshed == [mem EXCEPT !["dashboard"] = disk]
Seen == mem'["dashboard"]

NeedsReply(stored) == stored.messages > 0 /\ ~asking["mem"]
InputOf(w) == <<w.messages, w.knowledge>>

(* Mutants: one half of StillCurrent.                                      *)
SameInput(w) ==
  w.reads = Seen.reads /\ w.messages = Seen.messages /\ w.knowledge = knowledge
NotDrafted(w) == drafted["mem"][InputOf(w)] = 0

(* The conversation and the knowledge are those the worker has copied, and *)
(* no draft has been made for them since.                                  *)
StillCurrent(w) ==
  /\ w.reads = Seen.reads /\ w.messages = Seen.messages
  /\ w.knowledge = knowledge
  /\ drafted["mem"][InputOf(w)] = 0

(* Saving writes the whole file; it may fail with memory changed already.  *)
Saved(store, value) == {[store EXCEPT !["mem"] = value, !["disk"] = v] : v \in {value, store["disk"]}}

AddDraft(input) == [drafted["mem"] EXCEPT ![input] = @ + 1]

(* The draft file is saved before the clarifications.                      *)
PersistDraft(input) ==
  /\ drafted' \in Saved(drafted, AddDraft(input))
  /\ UNCHANGED asking
PersistQuestion ==
  /\ asking' \in Saved(asking, TRUE)
  /\ UNCHANGED drafted

-----------------------------------------------------------------------------
(* Showing the inbox.                                                      *)

Copy(step) == [step |-> step, messages |-> Seen.messages, reads |-> Seen.reads,
               knowledge |-> knowledge]

(* One worker for the conversation at a time (draftTargets).               *)
ShowInbox ==
  /\ Unlocked
  /\ mem' = Refreshed
  /\ worker' = IF NeedsReply(Seen) /\ worker.step = "none" THEN Copy("prepare") ELSE worker
  /\ UNCHANGED <<hh, disk, calls, lease, caller, crashes, knowledge, drafted, asking>>

(* The overview reserves the worker and leaves the copy for later.         *)
ShowOverview ==
  /\ Unlocked
  /\ mem' = Refreshed
  /\ worker' = IF NeedsReply(Seen) /\ worker.step = "none"
               THEN [NoWorker EXCEPT !.step = "deferred"] ELSE worker
  /\ UNCHANGED <<hh, disk, calls, lease, caller, crashes, knowledge, drafted, asking>>

Snapshot ==
  /\ worker.step = "deferred" /\ Unlocked
  /\ UNCHANGED <<syncvars, knowledge, drafted, asking>>
  /\ worker' = Copy("prepare")

-----------------------------------------------------------------------------
(* The worker.  Whatever it comes to, the conversation is free for another. *)

(* Mutant: overtaken, the worker ends without freeing the conversation.    *)
PrepareKeepsTarget ==
  /\ worker.step = "prepare" /\ Unlocked
  /\ mem' = Refreshed
  /\ worker' = [worker EXCEPT !.step = IF StillCurrent(worker) THEN "model" ELSE "lost"]
  /\ UNCHANGED <<hh, disk, calls, lease, caller, crashes, knowledge, drafted, asking>>

Prepare ==
  /\ worker.step = "prepare" /\ Unlocked
  /\ mem' = Refreshed
  /\ worker' = IF StillCurrent(worker) THEN [worker EXCEPT !.step = "model"] ELSE NoWorker
  /\ UNCHANGED <<hh, disk, calls, lease, caller, crashes, knowledge, drafted, asking>>

Decide(decision) ==
  /\ worker.step = "model"
  /\ worker' = [worker EXCEPT !.step = decision]
  /\ UNCHANGED <<syncvars, knowledge, drafted, asking>>

(* An error, or a decision that leaves nothing behind.                     *)
DecideNothing ==
  /\ worker.step = "model"
  /\ worker' = NoWorker
  /\ UNCHANGED <<syncvars, knowledge, drafted, asking>>

CommitDecision ==
  /\ worker.step \in {"draft", "ask"} /\ Unlocked
  /\ mem' = Refreshed
  /\ worker' = NoWorker
  /\ IF ~StillCurrent(worker) THEN UNCHANGED <<drafted, asking>>
     ELSE IF worker.step = "draft" THEN PersistDraft(InputOf(worker))
     ELSE PersistQuestion
  /\ UNCHANGED <<hh, disk, calls, lease, caller, crashes, knowledge>>

Work == Snapshot \/ Prepare \/ Decide("draft") \/ Decide("ask") \/ DecideNothing \/ CommitDecision

-----------------------------------------------------------------------------
(* The candidate.                                                          *)

(* POST of a draft: a draft for the same input is used again; the model is *)
(* asked with the lock held.                                               *)
RequestDraft ==
  LET input == <<Seen.messages, knowledge>> IN
  /\ Unlocked
  /\ mem' = Refreshed
  /\ Seen.messages > 0
  /\ drafted["mem"][input] = 0
  /\ PersistDraft(input) \/ PersistQuestion
  /\ UNCHANGED <<hh, disk, calls, lease, caller, crashes, knowledge, worker>>

(* Rejected or approved: the draft is GENERATED no more.                   *)
ReviewDraft(input) ==
  /\ Unlocked
  /\ mem' = Refreshed
  /\ drafted["mem"][input] > 0
  /\ drafted' \in Saved(drafted, [drafted["mem"] EXCEPT ![input] = @ - 1])
  /\ UNCHANGED <<hh, disk, calls, lease, caller, crashes, knowledge, asking, worker>>

(* The answer to the clarification becomes knowledge.                      *)
Answer ==
  /\ Unlocked
  /\ mem' = Refreshed
  /\ asking["mem"] /\ knowledge < MaxKnowledge
  /\ knowledge' = knowledge + 1
  /\ asking' \in Saved(asking, FALSE)
  /\ UNCHANGED <<hh, disk, calls, lease, caller, crashes, drafted, worker>>

Crash(p) ==
  /\ CrashSync(p)
  /\ IF p # "dashboard" THEN UNCHANGED draftvars
     ELSE /\ worker' = NoWorker
          /\ drafted' = [drafted EXCEPT !["mem"] = drafted["disk"]]
          /\ asking' = [asking EXCEPT !["mem"] = asking["disk"]]
          /\ UNCHANGED knowledge

-----------------------------------------------------------------------------

Init ==
  /\ SyncInit
  /\ knowledge = 0
  /\ drafted = [x \in Copies |-> [i \in Inputs |-> 0]]
  /\ asking = [x \in Copies |-> FALSE]
  /\ worker = NoWorker

Next ==
  \/ SyncNext /\ UNCHANGED draftvars
  \/ ShowInbox \/ ShowOverview
  \/ Work
  \/ RequestDraft \/ Answer
  \/ \E i \in Inputs : ReviewDraft(i)
  \/ \E p \in Procs : Crash(p)

(* The inbox is shown again and again (its background refresh), the worker *)
(* goes on, and a model asked again and again drafts at last.              *)
DraftFairness == WF_vars(ShowInbox) /\ WF_vars(Work) /\ SF_vars(Decide("draft"))

Fairness == SyncFairness /\ DraftFairness
Spec == Init /\ [][Next]_vars /\ Fairness

-----------------------------------------------------------------------------

TypeOK ==
  /\ SyncTypeOK
  /\ knowledge \in 0..MaxKnowledge
  /\ drafted \in [Copies -> [Inputs -> 0..2]]
  /\ asking \in [Copies -> BOOLEAN]
  /\ worker \in Workers

(* One draft at most waits for review for one employer message and one     *)
(* state of the knowledge, though a request may draft for it while the     *)
(* worker waits for the model (latestDraftForFingerprint).                 *)
OneDraftPerInput == \A x \in Copies, i \in Inputs : drafted[x][i] <= 1

(* No draft is kept for an input that has changed while the model wrote    *)
(* it, by a read of the dashboard, of another process, or by an answer     *)
(* (inboxDraftCommitStillCurrent, commitInboxDraft).                       *)
StaleIsDiscarded ==
  [][\A i \in Inputs :
       drafted'["mem"][i] > drafted["mem"][i] /\ crashes' = crashes =>
         i = <<disk.messages, knowledge>>]_vars

Undrafted ==
  LET stored == mem["dashboard"] IN
  NeedsReply(stored) /\ drafted["mem"][<<stored.messages, knowledge>>] = 0

(* The latest message the dashboard has loaded gets a draft or a question  *)
(* to the candidate: no worker that failed or was overtaken keeps the      *)
(* conversation reserved (draftTargets), and no later message or answer is *)
(* taken for drafted.                                                      *)
LatestIsDrafted == Undrafted ~> ~Undrafted
===============================================================================
