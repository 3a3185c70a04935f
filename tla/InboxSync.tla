------------------------------- MODULE InboxSync -------------------------------
(***************************************************************************)
(* Reading hh.ru into the local stores (HHReadSyncService, JSON stores):   *)
(* requests of one process for the same target share one read, processes   *)
(* take a lease per target, the network is read without any lock, and the  *)
(* result is merged into the files under the commit mutex of the process   *)
(* and the locks of the files.  Reads of different targets, and of         *)
(* processes, end in any order.                                            *)
(*                                                                         *)
(* One conversation is followed, and the application it belongs to.  The   *)
(* history of a conversation only grows at hh.ru, so a history, and the    *)
(* fingerprint of its entry in the listing, is the number of messages it   *)
(* holds.                                                                  *)
(***************************************************************************)
EXTENDS Naturals, FiniteSets, FiniteSetsExt

CONSTANTS
  Dashboard,    \* requests inside the dashboard process
  Cli,          \* requests of commands, each command a process of its own
  Targets,      \* among "inbox", "conversations" and "conversation"
  None,
  MaxMessages,  \* bound on the employer's messages, for model checking
  MaxCrashes    \* bound on process crashes, for model checking

Callers == Dashboard \cup Cli
Procs == {"dashboard"} \cup Cli
ProcOf(c) == IF c \in Dashboard THEN "dashboard" ELSE c

ASSUME CallersAssumption ==
  Dashboard \cap Cli = {} /\ None \notin Callers \cup {"dead"} /\ "dashboard" \notin Cli /\ "dead" \notin Callers
ASSUME TargetsAssumption == Targets \subseteq {"inbox", "conversations", "conversation"}
ASSUME SyncBoundsAssumption == MaxMessages \in Nat /\ MaxCrashes \in Nat

VARIABLES
  hh,      \* hh.ru: messages of the conversation
  disk,    \* durable: the conversation and its application, two files
  mem,     \* process -> what it last loaded of them
  calls,   \* process -> target -> the request that reads it
  lease,   \* durable: target -> who made the lock directory
  caller,  \* request -> what it is doing
  crashes

syncvars == <<hh, disk, mem, calls, lease, caller, crashes>>

-----------------------------------------------------------------------------
(* Stored conversations and reads.                                         *)

(* listing is the listing a detail was read for, 0 when it was read alone; *)
(* reads counts the imports, as sync_detail_at tells them apart; linked    *)
(* says that the application points to the conversation.                   *)
NotStored == [messages |-> 0, listing |-> 0, reads |-> 0, linked |-> FALSE]
Stored == [messages : 0..MaxMessages, listing : 0..MaxMessages, reads : Nat, linked : BOOLEAN]

NoRead == [kind |-> "nothing", listing |-> 0, messages |-> 0]
Reads == [kind : {"nothing", "listed", "unchanged", "detail"},
          listing : 0..MaxMessages, messages : 0..MaxMessages]

(* Mutant: a detail read lately is not read again.                         *)
UnchangedByAge(known, listing) == listing > 0 /\ known.reads > 0

(* Listed again as it was, with the last message among the known ones.     *)
Unchanged(known, listing) ==
  listing > 0 /\ known.listing = listing /\ known.messages >= listing

(* Messages are united; a read without a listing keeps the older mark.     *)
Merged(old, read) ==
  [old EXCEPT !.messages = Max({old.messages, read.messages}),
              !.listing = IF read.listing = 0 THEN old.listing ELSE read.listing,
              !.reads = @ + 1]

(* Mutant: the process goes on from what it holds.                         *)
Held(p) == mem[p]

(* The files win over what a process holds of them.                        *)
Base(p) == disk

Steps == {"idle", "joined", "lease", "steal", "remake", "begin", "list", "detail",
          "commit", "link", "release", "finish"}

Idle == [step |-> "idle", target |-> None, leader |-> None, known |-> NotStored,
         read |-> NoRead, outcome |-> None, asked |-> 0]

(* A request between taking up a target and giving back its lease.         *)
Reading(c) == caller[c].step \in {"begin", "list", "detail", "commit", "link", "release"}

(* Held from the first file saved until the last: the commit mutex of the  *)
(* process, in the dashboard the lock of every handler, and the file locks. *)
Committing(p) == \E c \in Callers : ProcOf(c) = p /\ caller[c].step = "link"

To(c, step) == caller' = [caller EXCEPT ![c].step = step]
Ends(c, outcome) ==
  caller' = [caller EXCEPT ![c].step = "release", ![c].outcome = outcome,
                           ![c].known = NotStored, ![c].read = NoRead,
                           ![c].asked = IF outcome = "ok" THEN @ ELSE 0]

-----------------------------------------------------------------------------
(* One read per process and target.                                        *)

(* A command loads its stores when it starts, a dashboard has them.        *)
Loaded(c) == IF c \in Cli THEN [mem EXCEPT ![c] = disk] ELSE mem

Lead(c, t) ==
  /\ caller[c].step = "idle"
  /\ calls[ProcOf(c)][t] = None
  /\ calls' = [calls EXCEPT ![ProcOf(c)][t] = c]
  /\ caller' = [caller EXCEPT ![c] = [Idle EXCEPT !.step = "lease", !.target = t, !.asked = hh]]
  /\ mem' = Loaded(c)
  /\ UNCHANGED <<hh, disk, lease, crashes>>

(* A request with another bound on conversations is refused instead, and   *)
(* changes nothing.                                                        *)
Join(c, t) ==
  /\ caller[c].step = "idle"
  /\ calls[ProcOf(c)][t] # None
  /\ caller' = [caller EXCEPT ![c] =
       [Idle EXCEPT !.step = "joined", !.target = t, !.leader = calls[ProcOf(c)][t]]]
  /\ UNCHANGED <<hh, disk, mem, calls, lease, crashes>>

(* The joined request is cancelled; the read goes on.                      *)
Abandon(c) ==
  /\ caller[c].step = "joined"
  /\ caller' = [caller EXCEPT ![c] = Idle]
  /\ UNCHANGED <<hh, disk, mem, calls, lease, crashes>>

(* Mutant: the call stays registered when the lease was busy.              *)
FinishUnlessBusy(c) ==
  LET busy == caller[c].outcome = "busy" IN
  /\ caller[c].step = "finish"
  /\ calls' = [calls EXCEPT ![ProcOf(c)][caller[c].target] = IF busy THEN @ ELSE None]
  /\ caller' = [d \in Callers |->
       IF d = c \/ (caller[d].leader = c /\ ~busy) THEN Idle ELSE caller[d]]
  /\ mem' = IF c \in Cli THEN [mem EXCEPT ![c] = NotStored] ELSE mem
  /\ UNCHANGED <<hh, disk, lease, crashes>>

(* The answer of the read goes to the request that led it and to those     *)
(* that joined it; a command ends with its request.                        *)
Finish(c) ==
  /\ caller[c].step = "finish"
  /\ calls' = [calls EXCEPT ![ProcOf(c)][caller[c].target] = None]
  /\ caller' = [d \in Callers |-> IF d = c \/ caller[d].leader = c THEN Idle ELSE caller[d]]
  /\ mem' = IF c \in Cli THEN [mem EXCEPT ![c] = NotStored] ELSE mem
  /\ UNCHANGED <<hh, disk, lease, crashes>>

-----------------------------------------------------------------------------
(* The lease of a target: a lock directory, taken over once it is old.     *)

(* Mutant: a directory that exists is taken for one's own.                 *)
AcquireAnyway(c) ==
  /\ caller[c].step = "lease"
  /\ lease' = [lease EXCEPT ![caller[c].target] = c]
  /\ To(c, "begin")
  /\ UNCHANGED <<hh, disk, mem, calls, crashes>>

(* Refused while somebody holds it: an error of the result, not of the call. *)
AcquireLease(c) ==
  LET t == caller[c].target IN
  /\ caller[c].step = "lease"
  /\ \/ /\ lease[t] = None
        /\ lease' = [lease EXCEPT ![t] = c]
        /\ To(c, "begin")
     \/ /\ lease[t] # None
        /\ caller' = [caller EXCEPT ![c].step = "finish", ![c].outcome = "busy"]
        /\ UNCHANGED lease
  /\ UNCHANGED <<hh, disk, mem, calls, crashes>>

(* Only a dead process leaves a directory to grow that old: a read ends    *)
(* within the half hour.                                                   *)
SeeStale(c) ==
  /\ caller[c].step = "lease"
  /\ lease[caller[c].target] = "dead"
  /\ To(c, "steal")
  /\ UNCHANGED <<hh, disk, mem, calls, lease, crashes>>

(* Removed without looking again at whose it is by now.                    *)
RemoveStale(c) ==
  /\ caller[c].step = "steal"
  /\ lease' = [lease EXCEPT ![caller[c].target] = None]
  /\ To(c, "remake")
  /\ UNCHANGED <<hh, disk, mem, calls, crashes>>

RemakeLease(c) ==
  LET t == caller[c].target IN
  /\ caller[c].step = "remake"
  /\ IF lease[t] = None
     THEN lease' = [lease EXCEPT ![t] = c] /\ To(c, "begin")
     ELSE /\ caller' = [caller EXCEPT ![c].step = "finish", ![c].outcome = "busy"]
          /\ UNCHANGED lease
  /\ UNCHANGED <<hh, disk, mem, calls, crashes>>

(* Removes the directory, whoever made it.                                 *)
ReleaseLease(c) ==
  /\ caller[c].step = "release"
  /\ lease' = [lease EXCEPT ![caller[c].target] = None]
  /\ To(c, "finish")
  /\ UNCHANGED <<hh, disk, mem, calls, crashes>>

-----------------------------------------------------------------------------
(* The network read, without locks.                                        *)

(* Only an inbox read may skip what it knows.                              *)
Begin(c) ==
  LET t == caller[c].target IN
  /\ caller[c].step = "begin"
  /\ ~Committing(ProcOf(c))
  /\ caller' = [caller EXCEPT
       ![c].step = IF t = "conversation" THEN "detail" ELSE "list",
       ![c].known = IF t = "inbox" THEN mem[ProcOf(c)] ELSE NotStored]
  /\ UNCHANGED <<hh, disk, mem, calls, lease, crashes>>

(* A detail read long ago is read again, listed as it was or not.          *)
List(c) ==
  /\ caller[c].step = "list"
  /\ \/ caller' = [caller EXCEPT ![c].step = "detail", ![c].known = NotStored,
                                 ![c].read = [NoRead EXCEPT !.kind = "listed", !.listing = hh]]
     \/ /\ Unchanged(caller[c].known, hh)
        /\ caller' = [caller EXCEPT ![c].step = "commit", ![c].known = NotStored,
                                    ![c].read = [NoRead EXCEPT !.kind = "unchanged"]]
  /\ UNCHANGED <<hh, disk, mem, calls, lease, crashes>>

ReadDetail(c) ==
  /\ caller[c].step = "detail"
  /\ caller' = [caller EXCEPT ![c].step = "commit",
       ![c].read = [@ EXCEPT !.kind = "detail", !.messages = hh]]
  /\ UNCHANGED <<hh, disk, mem, calls, lease, crashes>>

(* A page fails as a whole; what was read before it, here nothing, is      *)
(* still committed.                                                        *)
FailRead(c) ==
  /\ caller[c].step \in {"list", "detail"}
  /\ caller' = [caller EXCEPT ![c].step = "commit", ![c].known = NotStored,
                              ![c].read = NoRead, ![c].outcome = "failed"]
  /\ UNCHANGED <<hh, disk, mem, calls, lease, crashes>>

(* The context of the read is cancelled: nothing is committed.             *)
Cancel(c) ==
  /\ caller[c].step \in {"list", "detail", "commit"}
  /\ Ends(c, "failed")
  /\ UNCHANGED <<hh, disk, mem, calls, lease, crashes>>

-----------------------------------------------------------------------------
(* The commit.                                                             *)

(* With nothing to import, the files are loaded all the same.              *)
CommitNothing(c) ==
  /\ caller[c].step = "commit" /\ caller[c].read.kind # "detail"
  /\ \A p \in Procs : ~Committing(p)
  /\ mem' = [mem EXCEPT ![ProcOf(c)] = disk]
  /\ Ends(c, IF caller[c].outcome = "failed" THEN "failed" ELSE "ok")
  /\ UNCHANGED <<hh, disk, calls, lease, crashes>>

(* The files of another process that is saving are busy; any other error   *)
(* before the first save leaves everything as it was, too.                 *)
FailCommit(c) ==
  /\ caller[c].step = "commit"
  /\ ~Committing(ProcOf(c))
  /\ Ends(c, "failed")
  /\ UNCHANGED <<hh, disk, mem, calls, lease, crashes>>

(* Mutant: the staged stores are shown before they are saved.              *)
ShowThenSave(c) ==
  LET staged == Merged(Base(ProcOf(c)), caller[c].read) IN
  /\ caller[c].step = "commit" /\ caller[c].read.kind = "detail"
  /\ \A p \in Procs : ~Committing(p)
  /\ disk' = staged
  /\ mem' = [mem EXCEPT ![ProcOf(c)] = [staged EXCEPT !.linked = TRUE]]
  /\ To(c, "link")
  /\ UNCHANGED <<hh, calls, lease, crashes>>

SaveConversation(c) ==
  /\ caller[c].step = "commit" /\ caller[c].read.kind = "detail"
  /\ \A p \in Procs : ~Committing(p)
  /\ disk' = Merged(Base(ProcOf(c)), caller[c].read)
  /\ To(c, "link")
  /\ UNCHANGED <<hh, mem, calls, lease, crashes>>

(* The application of the conversation points to it from now on.           *)
SaveApplication(c) ==
  /\ caller[c].step = "link"
  /\ disk' = [disk EXCEPT !.linked = TRUE]
  /\ mem' = [mem EXCEPT ![ProcOf(c)] = disk']
  /\ Ends(c, "ok")
  /\ UNCHANGED <<hh, calls, lease, crashes>>

(* The conversation is saved, the application is not, memory is as before. *)
FailApplication(c) ==
  /\ caller[c].step = "link"
  /\ ~disk.linked
  /\ Ends(c, "failed")
  /\ UNCHANGED <<hh, disk, mem, calls, lease, crashes>>

-----------------------------------------------------------------------------
(* Around it.                                                              *)

EmployerWrites ==
  /\ hh < MaxMessages
  /\ hh' = hh + 1
  /\ UNCHANGED <<disk, mem, calls, lease, caller, crashes>>

(* The requests of the process end, its leases stay behind; the dashboard  *)
(* is started again.                                                       *)
CrashSync(p) ==
  /\ p = "dashboard" \/ \E c \in Callers : ProcOf(c) = p /\ caller[c].step # "idle"
  /\ crashes < MaxCrashes
  /\ crashes' = crashes + 1
  /\ caller' = [c \in Callers |-> IF ProcOf(c) = p THEN Idle ELSE caller[c]]
  /\ calls' = [calls EXCEPT ![p] = [t \in Targets |-> None]]
  /\ lease' = [t \in Targets |->
       IF lease[t] \in Callers /\ ProcOf(lease[t]) = p THEN "dead" ELSE lease[t]]
  /\ mem' = [mem EXCEPT ![p] = IF p = "dashboard" THEN disk ELSE NotStored]
  /\ UNCHANGED <<hh, disk>>

SyncInit ==
  /\ hh = 0
  /\ disk = NotStored
  /\ mem = [p \in Procs |-> NotStored]
  /\ calls = [p \in Procs |-> [t \in Targets |-> None]]
  /\ lease = [t \in Targets |-> None]
  /\ caller = [c \in Callers |-> Idle]
  /\ crashes = 0

Proceed(c) ==
  \/ AcquireLease(c) \/ SeeStale(c) \/ RemoveStale(c) \/ RemakeLease(c) \/ ReleaseLease(c)
  \/ Begin(c) \/ List(c) \/ ReadDetail(c) \/ FailRead(c)
  \/ CommitNothing(c) \/ FailCommit(c)
  \/ SaveConversation(c) \/ SaveApplication(c) \/ FailApplication(c)
  \/ Finish(c)

SyncNext ==
  \/ \E c \in Callers : \/ \E t \in Targets : Lead(c, t) \/ Join(c, t)
                        \/ Abandon(c) \/ Cancel(c) \/ Proceed(c)
  \/ EmployerWrites

(* The goroutines of the dashboard go on, and their reads have a timeout.  *)
(* A command may be stopped anywhere.                                      *)
SyncFairness == \A c \in Dashboard : WF_syncvars(Proceed(c))

-----------------------------------------------------------------------------
(* Properties.                                                             *)

SyncTypeOK ==
  /\ hh \in 0..MaxMessages
  /\ disk \in Stored
  /\ mem \in [Procs -> Stored]
  /\ calls \in [Procs -> [Targets -> Callers \cup {None}]]
  /\ lease \in [Targets -> Callers \cup {None, "dead"}]
  /\ caller \in [Callers -> [step : Steps, target : Targets \cup {None}, leader : Callers \cup {None},
                             known : Stored, read : Reads, outcome : {None, "ok", "busy", "failed"},
                             asked : 0..MaxMessages]]
  /\ crashes \in 0..MaxCrashes

(* As long as no process has died, a target is read by one request of all  *)
(* processes: the operation lease of lockedSyncRead.                       *)
OneReader ==
  crashes = 0 =>
    \A c, d \in Callers : Reading(c) /\ Reading(d) /\ caller[c].target = caller[d].target => c = d

(* A message once stored stays stored, in whatever order reads of other    *)
(* targets and of other processes end and commit what they have read: the  *)
(* merge of importConversation and the reload of commitReadBatch.          *)
MirrorOnlyGrows == [][disk'.messages >= disk.messages]_syncvars

(* Whoever leads a read that ends without errors finds in the store every  *)
(* message there was when it asked, whether the history was read or        *)
(* skipped as unchanged (hhMetadataUnchanged).                             *)
ReadIsFresh ==
  \A c \in Callers :
    caller[c].step \in {"release", "finish"} /\ caller[c].outcome = "ok" =>
      disk.messages >= caller[c].asked

(* What a process shows is in the files: the stores of a commit are shown  *)
(* once every one of them is saved, in whatever step it fails (the staged  *)
(* copies of commitReadBatch).                                             *)
ShowsDurable ==
  \A p \in Procs : mem[p].messages <= disk.messages /\ (mem[p].linked => disk.linked)

(* Every request of the dashboard comes to an end, the one that reads and  *)
(* the ones that wait for it, whatever the lease, the network and the      *)
(* stores do, and when a command stops while it holds them.                *)
CallerReturns == \A c \in Dashboard : (caller[c].step # "idle") ~> (caller[c].step = "idle")
===============================================================================
