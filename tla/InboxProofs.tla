------------------------------ MODULE InboxProofs ------------------------------
(***************************************************************************)
(* Proofs for InboxSync and InboxDrafts, for any requests, targets and     *)
(* bounds.                                                                 *)
(***************************************************************************)
EXTENDS InboxDrafts, TLAPS

-----------------------------------------------------------------------------
(* Merging a read.                                                         *)

LEMMA MaxOfTwo ==
  ASSUME NEW a \in Nat, NEW b \in Nat
  PROVE  Max({a, b}) \in {a, b} /\ Max({a, b}) >= a /\ Max({a, b}) >= b
<1>1. \E x \in {a, b} : \A y \in {a, b} : x >= y
  OBVIOUS
<1>. QED BY <1>1 DEF Max

LEMMA MergedType ==
  ASSUME NEW old \in Stored, NEW read \in Reads
  PROVE  /\ Merged(old, read) \in Stored
         /\ Merged(old, read).messages >= old.messages
         /\ Merged(old, read).messages >= read.messages
         /\ Merged(old, read).linked = old.linked
         /\ Merged(old, read).reads = old.reads + 1
<1>. DEFINE m == Max({old.messages, read.messages})
            l == IF read.listing = 0 THEN old.listing ELSE read.listing
<1>1. /\ old.messages \in 0..MaxMessages /\ read.messages \in 0..MaxMessages
      /\ old.listing \in 0..MaxMessages /\ read.listing \in 0..MaxMessages
      /\ old.reads \in Nat /\ MaxMessages \in Nat
  BY SyncBoundsAssumption DEF Stored, Reads
<1>2. m \in 0..MaxMessages /\ m >= old.messages /\ m >= read.messages /\ l \in 0..MaxMessages
  BY <1>1, MaxOfTwo
<1>3. Merged(old, read) = [old EXCEPT !.messages = m, !.listing = l, !.reads = @ + 1]
  BY DEF Merged
<1>. HIDE DEF m, l
<1>4. Merged(old, read) = [messages |-> m, listing |-> l, reads |-> old.reads + 1, linked |-> old.linked]
  BY <1>3 DEF Stored
<1>. QED BY <1>1, <1>2, <1>4 DEF Stored

-----------------------------------------------------------------------------
(* Requests.                                                               *)

Requests == [step : Steps, target : Targets \cup {None}, leader : Callers \cup {None},
             known : Stored, read : Reads, outcome : {None, "ok", "busy", "failed"},
             asked : 0..MaxMessages]

(* A request past its start has a target, and asked for what hh.ru had;    *)
(* what it knows of the store is in the store; what it is about to commit, *)
(* or has committed, is no older than its question.                        *)
RequestOK(c) ==
  LET r == caller[c] IN
  /\ r.step # "idle" => r.target \in Targets
  /\ r.asked <= hh
  /\ r.known.messages <= disk.messages
  /\ r.step = "commit" =>
       /\ r.outcome # "failed" => r.read.kind \in {"detail", "unchanged"}
       /\ r.read.kind = "detail" => r.read.messages >= r.asked
       /\ r.read.kind = "unchanged" => disk.messages >= r.asked
  /\ r.step = "link" => disk.messages >= r.asked
  /\ r.step \in {"release", "finish"} /\ r.outcome = "ok" => disk.messages >= r.asked

RequestsOK == \A c \in Callers : RequestOK(c)

(* What the steps of the reads keep.                                       *)
SyncInv == SyncTypeOK /\ ShowsDurable /\ RequestsOK

(* What requests start from.                                               *)
LEMMA Constants == NotStored \in Stored /\ NoRead \in Reads /\ Idle \in Requests
BY SyncBoundsAssumption DEF NotStored, Stored, NoRead, Reads, Idle, Requests, Steps

(* The invariant of the reads.                                             *)
LEMMA InitSync == SyncInit => SyncInv
<1>. SUFFICES ASSUME SyncInit
              PROVE  SyncInv
  OBVIOUS
<1>1. SyncTypeOK
  BY Constants, SyncBoundsAssumption DEF SyncInit, SyncTypeOK, Requests
<1>2. ShowsDurable
  BY DEF SyncInit, ShowsDurable, NotStored
<1>3. RequestsOK
  BY DEF SyncInit, RequestsOK, RequestOK, Idle, NotStored
<1>. QED BY <1>1, <1>2, <1>3 DEF SyncInv

(* hh.ru and the store only grow.                                          *)
Grows ==
  /\ hh' \in 0..MaxMessages /\ hh' >= hh
  /\ disk' \in Stored /\ disk'.messages >= disk.messages /\ (disk.linked => disk'.linked)

(* A step that leaves hh.ru and the store alone.                           *)
LEMMA NothingGrows == ASSUME SyncTypeOK, UNCHANGED <<hh, disk>> PROVE Grows
BY SyncBoundsAssumption DEF Grows, SyncTypeOK, Stored

(* A request that rests or ends while the world grows.                     *)
LEMMA RestsOK ==
  ASSUME SyncInv, Grows, NEW c \in Callers, caller'[c] \in {caller[c], Idle}
  PROVE  RequestOK(c)'
<1>1. /\ hh \in Nat /\ hh' \in Nat /\ disk.messages \in Nat /\ disk'.messages \in Nat
      /\ hh' >= hh /\ disk'.messages >= disk.messages
      /\ caller[c].asked \in Nat /\ caller[c].known.messages \in Nat
  BY SyncBoundsAssumption DEF SyncInv, SyncTypeOK, Grows, Stored
<1>2. CASE caller'[c] = caller[c]
  BY <1>1, <1>2 DEF SyncInv, RequestsOK, RequestOK
<1>3. CASE caller'[c] = Idle
  BY <1>1, <1>3 DEF RequestOK, Idle, NotStored
<1>. QED BY <1>2, <1>3

(* What is shown stays durable while the store grows.                      *)
LEMMA ShownOK ==
  ASSUME SyncInv, Grows,
         \A p \in Procs : mem'[p] \in {mem[p], disk, disk', NotStored}
  PROVE  ShowsDurable'
<1>1. disk.messages \in Nat /\ disk'.messages \in Nat /\ \A p \in Procs : mem[p].messages \in Nat
  BY SyncBoundsAssumption DEF SyncInv, SyncTypeOK, Grows, Stored
<1>. QED BY <1>1 DEF SyncInv, ShowsDurable, Grows, NotStored

(* One request moves to r, the world grows, processes load what is saved.  *)
LEMMA RequestMoves ==
  ASSUME SyncInv, Grows, NEW c \in Callers, NEW r \in Requests,
         caller' = [caller EXCEPT ![c] = r], RequestOK(c)',
         mem' \in [Procs -> Stored], \A p \in Procs : mem'[p] \in {mem[p], disk, disk', NotStored},
         calls' \in [Procs -> [Targets -> Callers \cup {None}]],
         lease' \in [Targets -> Callers \cup {None, "dead"}],
         crashes' \in 0..MaxCrashes
  PROVE  SyncInv'
<1>1. caller' \in [Callers -> Requests]
  BY DEF SyncInv, SyncTypeOK, Requests
<1>2. SyncTypeOK'
  BY <1>1 DEF SyncTypeOK, Grows, Requests
<1>3. \A d \in Callers \ {c} : RequestOK(d)'
  BY RestsOK DEF SyncInv, SyncTypeOK
<1>. QED BY <1>2, <1>3, ShownOK DEF SyncInv, RequestsOK

(* The fields of a request, one changed at a time.                         *)
LEMMA NextStep ==
  ASSUME NEW r \in Requests, NEW s \in Steps
  PROVE  LET q == [r EXCEPT !.step = s] IN
         /\ q \in Requests /\ q.step = s /\ q.target = r.target /\ q.leader = r.leader
         /\ q.known = r.known /\ q.read = r.read /\ q.outcome = r.outcome /\ q.asked = r.asked
BY DEF Requests

(* The invariant, for one request.                                         *)
LEMMA RequestTyped ==
  ASSUME SyncInv, NEW c \in Callers
  PROVE  /\ caller \in [Callers -> Requests] /\ caller[c] \in Requests
         /\ disk \in Stored /\ hh \in 0..MaxMessages
         /\ disk.messages \in Nat /\ hh \in Nat /\ caller[c].asked \in Nat
         /\ RequestOK(c)
BY SyncBoundsAssumption DEF SyncInv, SyncTypeOK, Requests, Stored, RequestsOK

(* A request that only moves on, keeps what it knows or forgets it.        *)
LEMMA StepOK ==
  ASSUME SyncInv, NEW c \in Callers, NEW s \in Steps \ {"commit", "link"},
         UNCHANGED <<hh, disk>>, caller[c].step # "idle",
         s \in {"release", "finish"} /\ caller[c].outcome = "ok" => disk.messages >= caller[c].asked,
         caller' = [caller EXCEPT ![c].step = s],
         mem' \in [Procs -> Stored], \A p \in Procs : mem'[p] \in {mem[p], disk, NotStored},
         calls' \in [Procs -> [Targets -> Callers \cup {None}]],
         lease' \in [Targets -> Callers \cup {None, "dead"}],
         crashes' \in 0..MaxCrashes
  PROVE  SyncInv'
<1>. DEFINE r == [caller[c] EXCEPT !.step = s]
<1>1. caller' = [caller EXCEPT ![c] = r] /\ caller'[c] = r /\ Grows
  BY RequestTyped, NothingGrows DEF SyncInv
<1>2. /\ r \in Requests /\ r.step = s /\ r.target = caller[c].target
      /\ r.known = caller[c].known /\ r.outcome = caller[c].outcome /\ r.asked = caller[c].asked
  BY NextStep, RequestTyped
<1>. HIDE DEF r
<1>3. RequestOK(c)'
  BY <1>1, <1>2, RequestTyped DEF RequestOK
<1>. QED BY <1>1, <1>2, <1>3, RequestMoves

(* A request that ends, with its error or all it asked for.                *)
LEMMA EndsOK ==
  ASSUME SyncInv, NEW c \in Callers, NEW outcome \in {"ok", "failed"}, Grows, Ends(c, outcome),
         caller[c].step # "idle", outcome = "ok" => disk'.messages >= caller[c].asked,
         mem' \in [Procs -> Stored], \A p \in Procs : mem'[p] \in {mem[p], disk, disk', NotStored},
         UNCHANGED <<calls, lease, crashes>>
  PROVE  SyncInv'
<1>. DEFINE a == IF outcome = "ok" THEN caller[c].asked ELSE 0
            r == [caller[c] EXCEPT !.step = "release", !.outcome = outcome,
                                   !.known = NotStored, !.read = NoRead, !.asked = a]
<1>1. caller' = [caller EXCEPT ![c] = r] /\ caller'[c] = r
  BY RequestTyped DEF Ends
<1>2. a \in 0..MaxMessages /\ a \in Nat /\ a <= caller[c].asked
  BY RequestTyped, SyncBoundsAssumption DEF Requests
<1>. HIDE DEF a
<1>3. /\ r \in Requests /\ r.step = "release" /\ r.target = caller[c].target
      /\ r.known = NotStored /\ r.outcome = outcome /\ r.asked = a
  BY <1>2, RequestTyped, Constants DEF Requests, Steps
<1>. HIDE DEF r
<1>4. hh' \in Nat /\ hh' >= hh /\ disk'.messages \in Nat
  BY SyncBoundsAssumption DEF Grows, Stored
<1>5. RequestOK(c)'
  BY <1>1, <1>2, <1>3, <1>4, RequestTyped DEF RequestOK, NotStored, a
<1>6. /\ calls' \in [Procs -> [Targets -> Callers \cup {None}]]
      /\ lease' \in [Targets -> Callers \cup {None, "dead"}]
      /\ crashes' \in 0..MaxCrashes
  BY DEF SyncInv, SyncTypeOK
<1>. QED BY <1>1, <1>3, <1>5, <1>6, RequestMoves

(* Requests rest or end, the world grows, processes load what is saved.    *)
LEMMA ManyRest ==
  ASSUME SyncInv, Grows,
         caller' \in [Callers -> Requests], \A c \in Callers : caller'[c] \in {caller[c], Idle},
         mem' \in [Procs -> Stored], \A p \in Procs : mem'[p] \in {mem[p], disk, disk', NotStored},
         calls' \in [Procs -> [Targets -> Callers \cup {None}]],
         lease' \in [Targets -> Callers \cup {None, "dead"}],
         crashes' \in 0..MaxCrashes
  PROVE  SyncInv'
<1>1. SyncTypeOK'
  BY DEF SyncTypeOK, Grows, Requests
<1>. QED BY <1>1, RestsOK, ShownOK DEF SyncInv, RequestsOK

(* Requests that ask, wait or end.                                         *)
LEMMA LeadType ==
  ASSUME NEW t \in Targets, NEW n \in 0..MaxMessages
  PROVE  LET q == [Idle EXCEPT !.step = "lease", !.target = t, !.asked = n] IN
         q \in Requests /\ q.step = "lease" /\ q.target = t /\ q.known = NotStored /\ q.asked = n
BY Constants DEF Idle, Requests, Steps

LEMMA AskingOK ==
  ASSUME SyncInv, NEW c \in Callers, NEW t \in Targets, Lead(c, t) \/ Join(c, t)
  PROVE  SyncInv'
<1>. DEFINE leads == [Idle EXCEPT !.step = "lease", !.target = t, !.asked = hh]
            leader == calls[ProcOf(c)][t]
            joins == [Idle EXCEPT !.step = "joined", !.target = t, !.leader = leader]
<1>1. /\ Grows /\ lease' = lease /\ crashes' = crashes
      /\ lease \in [Targets -> Callers \cup {None, "dead"}] /\ crashes \in 0..MaxCrashes
      /\ calls \in [Procs -> [Targets -> Callers \cup {None}]] /\ mem \in [Procs -> Stored]
      /\ ProcOf(c) \in Procs /\ caller \in [Callers -> Requests]
      /\ hh' = hh /\ disk' = disk /\ disk \in Stored
  BY RequestTyped, NothingGrows DEF Lead, Join, SyncInv, SyncTypeOK, ProcOf, Procs, Callers
<1>2. CASE Lead(c, t)
  <2>1. leads \in Requests /\ leads.step = "lease" /\ leads.target = t /\ leads.known = NotStored /\ leads.asked = hh
    <3>1. hh \in 0..MaxMessages
      BY DEF SyncInv, SyncTypeOK
    <3>2. PICK n \in 0..MaxMessages : n = hh
      BY <3>1
    <3>. QED BY LeadType, <3>2
  <2>2. caller' = [caller EXCEPT ![c] = leads] /\ caller'[c] = leads
    BY <1>1, <1>2 DEF Lead
  <2>. HIDE DEF leads
  <2>3. RequestOK(c)'
    BY <1>1, <2>1, <2>2, RequestTyped DEF RequestOK, NotStored
  <2>4. mem' \in [Procs -> Stored] /\ \A p \in Procs : mem'[p] \in {mem[p], disk, disk', NotStored}
    BY <1>1, <1>2 DEF Lead, Loaded
  <2>5. calls' \in [Procs -> [Targets -> Callers \cup {None}]]
    BY <1>1, <1>2 DEF Lead
  <2>. QED BY <1>1, <2>1, <2>2, <2>3, <2>4, <2>5, RequestMoves
<1>3. CASE Join(c, t)
  <2>0. leader \in Callers
    BY <1>1, <1>3 DEF Join
  <2>1. joins \in Requests /\ joins.step = "joined" /\ joins.target = t /\ joins.known = NotStored /\ joins.asked = 0
    <3>. HIDE DEF leader
    <3>. QED BY <2>0, RequestTyped, Constants DEF Idle, Requests, Steps
  <2>2. caller' = [caller EXCEPT ![c] = joins] /\ caller'[c] = joins
    BY <1>1, <1>3 DEF Join
  <2>. HIDE DEF joins
  <2>3. RequestOK(c)'
    BY <1>1, <2>1, <2>2, RequestTyped DEF RequestOK, NotStored
  <2>4. mem' \in [Procs -> Stored] /\ (\A p \in Procs : mem'[p] = mem[p])
        /\ calls' \in [Procs -> [Targets -> Callers \cup {None}]]
    BY <1>1, <1>3 DEF Join
  <2>. QED BY <1>1, <2>1, <2>2, <2>3, <2>4, RequestMoves
<1>. QED BY <1>2, <1>3

LEMMA EndingOK ==
  ASSUME SyncInv, NEW c \in Callers, Abandon(c) \/ Finish(c)
  PROVE  SyncInv'
<1>1. /\ Grows /\ lease' = lease /\ crashes' = crashes
      /\ lease \in [Targets -> Callers \cup {None, "dead"}] /\ crashes \in 0..MaxCrashes
      /\ calls \in [Procs -> [Targets -> Callers \cup {None}]] /\ mem \in [Procs -> Stored]
      /\ caller \in [Callers -> Requests]
  BY RequestTyped, NothingGrows DEF Abandon, Finish, SyncInv, SyncTypeOK
<1>2. caller' \in [Callers -> Requests] /\ \A d \in Callers : caller'[d] \in {caller[d], Idle}
  BY <1>1, Constants DEF Abandon, Finish
<1>3. mem' \in [Procs -> Stored] /\ \A p \in Procs : mem'[p] \in {mem[p], disk, disk', NotStored}
  BY <1>1, Constants DEF Abandon, Finish
<1>4. calls' \in [Procs -> [Targets -> Callers \cup {None}]]
  BY <1>1 DEF Abandon, Finish
<1>. QED BY <1>1, <1>2, <1>3, <1>4, ManyRest

(* The steps of the lease move a request on, or end it.                    *)
LEMMA LeaseOK ==
  ASSUME SyncInv, NEW c \in Callers,
         AcquireLease(c) \/ SeeStale(c) \/ RemoveStale(c) \/ RemakeLease(c) \/ ReleaseLease(c)
  PROVE  SyncInv'
<1>. DEFINE t == caller[c].target
<1>1. /\ UNCHANGED <<hh, disk, mem, calls, crashes>> /\ caller[c].step # "idle" /\ Grows
      /\ lease \in [Targets -> Callers \cup {None, "dead"}] /\ crashes \in 0..MaxCrashes
      /\ calls \in [Procs -> [Targets -> Callers \cup {None}]] /\ mem \in [Procs -> Stored]
  BY NothingGrows DEF AcquireLease, SeeStale, RemoveStale, RemakeLease, ReleaseLease, SyncInv, SyncTypeOK
<1>2. lease' \in [Targets -> Callers \cup {None, "dead"}]
  BY <1>1 DEF AcquireLease, SeeStale, RemoveStale, RemakeLease, ReleaseLease
<1>3. CASE \E s \in {"begin", "steal", "remake"} : To(c, s)
  BY <1>1, <1>2, <1>3, StepOK DEF To, Steps
<1>4. CASE ReleaseLease(c)
  BY <1>1, <1>2, <1>4, StepOK, RequestTyped DEF ReleaseLease, To, Steps, RequestOK
<1>5. CASE caller' = [caller EXCEPT ![c].step = "finish", ![c].outcome = "busy"]
  <2>. DEFINE r == [caller[c] EXCEPT !.step = "finish", !.outcome = "busy"]
  <2>1. /\ r \in Requests /\ r.step = "finish" /\ r.target = caller[c].target /\ r.outcome = "busy"
        /\ r.known = caller[c].known /\ r.asked = caller[c].asked
    BY RequestTyped DEF Requests, Steps
  <2>2. caller' = [caller EXCEPT ![c] = r] /\ caller'[c] = r
    BY <1>5, RequestTyped
  <2>. HIDE DEF r
  <2>3. RequestOK(c)'
    BY <1>1, <2>1, <2>2, RequestTyped DEF RequestOK
  <2>. QED BY <1>1, <1>2, <2>1, <2>2, <2>3, RequestMoves
<1>. QED BY <1>3, <1>4, <1>5 DEF AcquireLease, SeeStale, RemoveStale, RemakeLease

(* What a listing leaves a request with.                                   *)
LEMMA ListingType ==
  ASSUME NEW x \in Reads, NEW n \in 0..MaxMessages
  PROVE  /\ [x EXCEPT !.kind = "listed", !.listing = n] \in Reads
         /\ [x EXCEPT !.kind = "unchanged"] \in Reads
         /\ [x EXCEPT !.kind = "unchanged"].kind = "unchanged"
BY DEF Reads

(* The read: known, listing and history.                                   *)
LEMMA ReadOK ==
  ASSUME SyncInv, NEW c \in Callers, Begin(c) \/ List(c) \/ ReadDetail(c) \/ FailRead(c)
  PROVE  SyncInv'
<1>1. /\ UNCHANGED <<hh, disk, mem, calls, lease, crashes>> /\ caller[c].step # "idle" /\ Grows
      /\ lease \in [Targets -> Callers \cup {None, "dead"}] /\ crashes \in 0..MaxCrashes
      /\ calls \in [Procs -> [Targets -> Callers \cup {None}]] /\ mem \in [Procs -> Stored]
      /\ ProcOf(c) \in Procs
  BY NothingGrows DEF Begin, List, ReadDetail, FailRead, SyncInv, SyncTypeOK, ProcOf, Procs, Callers
<1>2. ASSUME NEW r \in Requests, caller' = [caller EXCEPT ![c] = r], RequestOK(c)'
      PROVE  SyncInv'
  BY <1>1, <1>2, RequestMoves
<1>. DEFINE q == caller[c]
<1>3. q \in Requests /\ caller \in [Callers -> Requests] /\ disk.messages \in Nat /\ hh \in Nat /\ q.asked \in Nat
  BY RequestTyped
<1>4. q.target \in Targets /\ q.asked <= hh /\ q.known.messages <= disk.messages
  BY <1>1 DEF SyncInv, RequestsOK, RequestOK
<1>5. hh \in 0..MaxMessages
  BY DEF SyncInv, SyncTypeOK
<1>6. CASE Begin(c)
  <2>. DEFINE s == IF q.target = "conversation" THEN "detail" ELSE "list"
              k == IF q.target = "inbox" THEN mem[ProcOf(c)] ELSE NotStored
              r == [q EXCEPT !.step = s, !.known = k]
  <2>1. k \in Stored /\ k.messages <= disk.messages
    BY <1>1, <1>3, Constants DEF SyncInv, ShowsDurable, NotStored
  <2>2. s \in {"detail", "list"}
    OBVIOUS
  <2>3. caller' = [caller EXCEPT ![c] = r] /\ caller'[c] = r
    BY <1>3, <1>6 DEF Begin
  <2>. HIDE DEF s, k
  <2>4. r \in Requests /\ r.step = s /\ r.known = k /\ r.target = q.target /\ r.asked = q.asked
    BY <1>3, <2>1, <2>2 DEF Requests, Steps
  <2>. HIDE DEF r
  <2>5. RequestOK(c)'
    BY <1>1, <1>4, <2>1, <2>2, <2>3, <2>4 DEF RequestOK
  <2>. QED BY <1>2, <2>3, <2>4, <2>5
<1>7. CASE List(c)
  <2>. DEFINE listed == [NoRead EXCEPT !.kind = "listed", !.listing = hh]
              unchanged == [NoRead EXCEPT !.kind = "unchanged"]
              a == [q EXCEPT !.step = "detail", !.known = NotStored, !.read = listed]
              b == [q EXCEPT !.step = "commit", !.known = NotStored, !.read = unchanged]
  <2>1. NotStored \in Stored /\ NotStored.messages = 0
    BY Constants DEF NotStored
  <2>2. listed \in Reads /\ unchanged \in Reads /\ unchanged.kind = "unchanged"
    <3>1. PICK n \in 0..MaxMessages : n = hh
      BY <1>5
    <3>. QED BY <3>1, Constants, ListingType
  <2>3. CASE caller' = [caller EXCEPT ![c].step = "detail", ![c].known = NotStored, ![c].read = listed]
    <3>1. caller' = [caller EXCEPT ![c] = a] /\ caller'[c] = a
      BY <1>3, <2>3
    <3>. HIDE DEF listed
    <3>2. a \in Requests /\ a.step = "detail" /\ a.known = NotStored /\ a.target = q.target /\ a.asked = q.asked
      BY <1>3, <2>1, <2>2 DEF Requests, Steps
    <3>. HIDE DEF a
    <3>3. RequestOK(c)'
      BY <1>1, <1>3, <1>4, <2>1, <3>1, <3>2 DEF RequestOK
    <3>. QED BY <1>2, <3>1, <3>2, <3>3
  <2>4. CASE /\ Unchanged(q.known, hh)
             /\ caller' = [caller EXCEPT ![c].step = "commit", ![c].known = NotStored, ![c].read = unchanged]
    <3>1. caller' = [caller EXCEPT ![c] = b] /\ caller'[c] = b
      BY <1>3, <2>4
    <3>2. disk.messages >= q.asked
      <4>1. q.known.messages \in Nat
        BY <1>3, SyncBoundsAssumption DEF Requests, Stored
      <4>. QED BY <1>3, <1>4, <2>4, <4>1 DEF Unchanged
    <3>. HIDE DEF unchanged
    <3>3. /\ b \in Requests /\ b.step = "commit" /\ b.known = NotStored /\ b.target = q.target
          /\ b.asked = q.asked /\ b.read = unchanged
      BY <1>3, <2>1, <2>2 DEF Requests, Steps
    <3>. HIDE DEF b
    <3>4. RequestOK(c)'
      BY <1>1, <1>3, <1>4, <2>1, <2>2, <3>1, <3>2, <3>3 DEF RequestOK
    <3>. QED BY <1>2, <3>1, <3>3, <3>4
  <2>. QED BY <1>7, <2>3, <2>4 DEF List
<1>8. CASE ReadDetail(c)
  <2>. DEFINE d == [q.read EXCEPT !.kind = "detail", !.messages = hh]
              r == [q EXCEPT !.step = "commit", !.read = d]
  <2>1. d \in Reads /\ d.kind = "detail" /\ d.messages = hh
    BY <1>3, <1>5 DEF Requests, Reads
  <2>2. caller' = [caller EXCEPT ![c] = r] /\ caller'[c] = r
    BY <1>3, <1>8 DEF ReadDetail
  <2>. HIDE DEF d
  <2>3. /\ r \in Requests /\ r.step = "commit" /\ r.known = q.known /\ r.target = q.target
        /\ r.asked = q.asked /\ r.read = d
    BY <1>3, <2>1 DEF Requests, Steps
  <2>. HIDE DEF r
  <2>4. RequestOK(c)'
    BY <1>1, <1>3, <1>4, <2>1, <2>2, <2>3 DEF RequestOK
  <2>. QED BY <1>2, <2>2, <2>3, <2>4
<1>9. CASE FailRead(c)
  <2>. DEFINE r == [q EXCEPT !.step = "commit", !.known = NotStored, !.read = NoRead, !.outcome = "failed"]
  <2>1. NotStored \in Stored /\ NotStored.messages = 0 /\ NoRead \in Reads /\ NoRead.kind = "nothing"
    BY Constants DEF NotStored, NoRead
  <2>2. caller' = [caller EXCEPT ![c] = r] /\ caller'[c] = r
    <3>1. caller' = [caller EXCEPT ![c].step = "commit", ![c].known = NotStored,
                                   ![c].read = NoRead, ![c].outcome = "failed"]
      BY <1>9 DEF FailRead
    <3>. QED BY <1>3, <3>1
  <2>3. /\ r \in Requests /\ r.step = "commit" /\ r.known = NotStored /\ r.target = q.target
        /\ r.asked = q.asked /\ r.read = NoRead /\ r.outcome = "failed"
    BY <1>3, <2>1 DEF Requests, Steps
  <2>. HIDE DEF r
  <2>4. RequestOK(c)'
    BY <1>1, <1>3, <1>4, <2>1, <2>2, <2>3 DEF RequestOK
  <2>. QED BY <1>2, <2>2, <2>3, <2>4
<1>. QED BY <1>6, <1>7, <1>8, <1>9

(* The commit: the store grows by what was read, and then is shown.        *)
LEMMA CommitOK ==
  ASSUME SyncInv, NEW c \in Callers,
         \/ Cancel(c) \/ CommitNothing(c) \/ FailCommit(c)
         \/ SaveConversation(c) \/ SaveApplication(c) \/ FailApplication(c)
  PROVE  SyncInv'
<1>. DEFINE q == caller[c]
<1>1. /\ UNCHANGED <<hh, calls, lease, crashes>> /\ q.step # "idle" /\ mem \in [Procs -> Stored] /\ disk \in Stored
      /\ lease \in [Targets -> Callers \cup {None, "dead"}] /\ crashes \in 0..MaxCrashes
      /\ calls \in [Procs -> [Targets -> Callers \cup {None}]] /\ hh \in 0..MaxMessages /\ hh \in Nat
  BY SyncBoundsAssumption DEF Cancel, CommitNothing, FailCommit, SaveConversation, SaveApplication, FailApplication,
                              SyncInv, SyncTypeOK
<1>2. q \in Requests /\ caller \in [Callers -> Requests] /\ disk.messages \in Nat /\ q.asked \in Nat /\ RequestOK(c)
  BY RequestTyped
<1>3. CASE Cancel(c) \/ FailCommit(c) \/ FailApplication(c)
  <2>1. UNCHANGED <<disk, mem>> /\ Ends(c, "failed")
    BY <1>3 DEF Cancel, FailCommit, FailApplication
  <2>2. Grows
    BY <1>1, <2>1, NothingGrows DEF SyncInv
  <2>. QED BY <1>1, <2>1, <2>2, EndsOK
<1>4. CASE CommitNothing(c)
  <2>1. Grows /\ disk' = disk
    BY <1>1, <1>4, NothingGrows DEF CommitNothing, SyncInv
  <2>2. mem' \in [Procs -> Stored] /\ \A p \in Procs : mem'[p] \in {mem[p], disk}
    BY <1>1, <1>4 DEF CommitNothing
  <2>3. CASE q.outcome = "failed"
    BY <1>1, <1>4, <2>1, <2>2, <2>3, EndsOK DEF CommitNothing
  <2>4. CASE q.outcome # "failed"
    <3>1. disk.messages >= q.asked
      BY <1>2, <1>4, <2>4 DEF CommitNothing, RequestOK
    <3>2. Ends(c, "ok")
      BY <1>4, <2>4 DEF CommitNothing
    <3>. QED BY <1>1, <2>1, <2>2, <3>1, <3>2, EndsOK
  <2>. QED BY <2>3, <2>4
<1>5. CASE SaveConversation(c)
  <2>. DEFINE new == Merged(disk, q.read)
  <2>1. q.read \in Reads /\ q.read.messages \in Nat /\ q.read.messages >= q.asked /\ q.step = "commit"
    BY <1>2, <1>5, SyncBoundsAssumption DEF SaveConversation, RequestOK, Requests, Reads
  <2>2. /\ new \in Stored /\ new.messages >= disk.messages /\ new.messages >= q.read.messages
        /\ new.linked = disk.linked /\ new.messages \in Nat
    BY <1>1, <2>1, MergedType, SyncBoundsAssumption DEF Stored
  <2>3. disk' = new /\ mem' = mem /\ caller' = [caller EXCEPT ![c].step = "link"]
    BY <1>5 DEF SaveConversation, Base, To
  <2>. HIDE DEF new
  <2>4. Grows
    BY <1>1, <2>2, <2>3 DEF Grows
  <2>. DEFINE r == [q EXCEPT !.step = "link"]
  <2>5. /\ r \in Requests /\ r.step = "link" /\ r.target = q.target /\ r.known = q.known /\ r.asked = q.asked
    BY <1>2, NextStep DEF Steps
  <2>6. caller' = [caller EXCEPT ![c] = r] /\ caller'[c] = r
    BY <1>2, <2>3
  <2>7. q.known.messages \in Nat
    BY <1>2, SyncBoundsAssumption DEF Requests, Stored
  <2>. HIDE DEF r
  <2>8. RequestOK(c)'
    BY <1>1, <1>2, <2>1, <2>2, <2>3, <2>5, <2>6, <2>7 DEF RequestOK
  <2>. QED BY <1>1, <2>3, <2>4, <2>5, <2>6, <2>8, RequestMoves
<1>6. CASE SaveApplication(c)
  <2>1. disk' \in Stored /\ disk'.messages = disk.messages /\ disk'.linked
    BY <1>1, <1>6 DEF SaveApplication, Stored
  <2>2. Grows
    BY <1>1, <1>2, <2>1 DEF Grows
  <2>3. mem' \in [Procs -> Stored] /\ \A p \in Procs : mem'[p] \in {mem[p], disk'}
    BY <1>1, <1>6, <2>1 DEF SaveApplication
  <2>4. disk'.messages >= q.asked /\ Ends(c, "ok")
    BY <1>2, <1>6, <2>1 DEF SaveApplication, RequestOK
  <2>. QED BY <1>1, <2>2, <2>3, <2>4, EndsOK
<1>. QED BY <1>3, <1>4, <1>5, <1>6

(* Around the reads.                                                       *)
LEMMA CrashOK ==
  ASSUME SyncInv, NEW p \in Procs, CrashSync(p)
  PROVE  SyncInv'
<1>1. /\ UNCHANGED <<hh, disk>> /\ Grows /\ disk \in Stored /\ mem \in [Procs -> Stored]
      /\ lease \in [Targets -> Callers \cup {None, "dead"}] /\ crashes \in 0..MaxCrashes
      /\ calls \in [Procs -> [Targets -> Callers \cup {None}]] /\ caller \in [Callers -> Requests]
  BY NothingGrows DEF CrashSync, SyncInv, SyncTypeOK, Requests
<1>2. caller' \in [Callers -> Requests] /\ \A d \in Callers : caller'[d] \in {caller[d], Idle}
  BY <1>1, Constants DEF CrashSync
<1>3. mem' \in [Procs -> Stored] /\ \A x \in Procs : mem'[x] \in {mem[x], disk, NotStored}
  BY <1>1, Constants DEF CrashSync
<1>4. calls' \in [Procs -> [Targets -> Callers \cup {None}]] /\ lease' \in [Targets -> Callers \cup {None, "dead"}]
  BY <1>1 DEF CrashSync
<1>5. crashes' \in 0..MaxCrashes
  BY <1>1, SyncBoundsAssumption DEF CrashSync
<1>. QED BY <1>1, <1>2, <1>3, <1>4, <1>5, ManyRest

(* The dashboard refreshes its stores, or nothing happens to them.         *)
LEMMA RefreshOK ==
  ASSUME SyncInv, UNCHANGED <<hh, disk, calls, lease, caller, crashes>>, mem' \in {mem, Refreshed}
  PROVE  SyncInv'
<1>1. /\ Grows /\ disk \in Stored /\ mem \in [Procs -> Stored]
      /\ lease \in [Targets -> Callers \cup {None, "dead"}] /\ crashes \in 0..MaxCrashes
      /\ calls \in [Procs -> [Targets -> Callers \cup {None}]] /\ caller \in [Callers -> Requests]
  BY NothingGrows DEF SyncInv, SyncTypeOK, Requests
<1>2. mem' \in [Procs -> Stored] /\ \A x \in Procs : mem'[x] \in {mem[x], disk}
  BY <1>1 DEF Refreshed
<1>. QED BY <1>1, <1>2, ManyRest

LEMMA EmployerOK ==
  ASSUME SyncInv, EmployerWrites
  PROVE  SyncInv'
<1>1. /\ UNCHANGED <<disk, mem, calls, lease, caller, crashes>> /\ Grows
  BY SyncBoundsAssumption DEF EmployerWrites, SyncInv, SyncTypeOK, Grows, Stored
<1>2. /\ mem \in [Procs -> Stored] /\ lease \in [Targets -> Callers \cup {None, "dead"}]
      /\ crashes \in 0..MaxCrashes /\ caller \in [Callers -> Requests]
      /\ calls \in [Procs -> [Targets -> Callers \cup {None}]]
  BY DEF SyncInv, SyncTypeOK, Requests
<1>. QED BY <1>1, <1>2, ManyRest

(* The steps of the drafts, as the reads see them.                         *)
DraftStep ==
  \/ ShowInbox \/ ShowOverview \/ Work \/ RequestDraft \/ Answer
  \/ \E i \in Inputs : ReviewDraft(i)

(* They refresh the stores of the dashboard at most.                       *)
LEMMA DraftsRefresh ==
  ASSUME DraftStep
  PROVE  UNCHANGED <<hh, disk, calls, lease, caller, crashes>> /\ mem' \in {mem, Refreshed}
<1>1. CASE ShowInbox \/ ShowOverview \/ RequestDraft \/ Answer \/ \E i \in Inputs : ReviewDraft(i)
  BY <1>1 DEF ShowInbox, ShowOverview, RequestDraft, Answer, ReviewDraft
<1>2. CASE Work
  BY <1>2 DEF Work, Snapshot, Prepare, Decide, DecideNothing, CommitDecision, syncvars
<1>. QED BY <1>1, <1>2 DEF DraftStep

(* Every step keeps the invariant.                                         *)
LEMMA NextSync == SyncInv /\ [Next]_vars => SyncInv'
<1>. SUFFICES ASSUME SyncInv, [Next]_vars
              PROVE  SyncInv'
  OBVIOUS
<1>1. CASE UNCHANGED vars
  BY <1>1, RefreshOK DEF vars, syncvars
<1>2. CASE SyncNext
  <2>1. ASSUME NEW c \in Callers, Proceed(c)
        PROVE  SyncInv'
    BY <2>1, LeaseOK, ReadOK, CommitOK, EndingOK DEF Proceed
  <2>. QED BY <1>2, <2>1, AskingOK, EndingOK, CommitOK, EmployerOK DEF SyncNext
<1>3. CASE \E p \in Procs : Crash(p)
  BY <1>3, CrashOK DEF Crash
<1>4. CASE DraftStep
  BY <1>4, DraftsRefresh, RefreshOK
<1>. QED BY <1>1, <1>2, <1>3, <1>4 DEF Next, DraftStep

LEMMA SyncAlways == Spec => []SyncInv
<1>1. Init => SyncInv
  BY InitSync DEF Init
<1>. QED BY <1>1, NextSync, PTL DEF Spec

(* Whoever leads a read that ends without errors finds all it asked for in *)
(* the store (ReadIsFresh).                                                *)
THEOREM ReadsAreFresh == Spec => []ReadIsFresh
<1>1. SyncInv => ReadIsFresh
  BY DEF SyncInv, RequestsOK, RequestOK, ReadIsFresh
<1>. QED BY <1>1, SyncAlways, PTL

(* What a process shows is saved (ShowsDurable).                           *)
THEOREM ShownIsDurable == Spec => []ShowsDurable
<1>1. SyncInv => ShowsDurable
  BY DEF SyncInv
<1>. QED BY <1>1, SyncAlways, PTL

(* The store changes by commits only.                                      *)
LEMMA StoreGrows == SyncInv /\ [Next]_vars => disk' = disk \/ disk'.messages >= disk.messages
<1>. SUFFICES ASSUME SyncInv, [Next]_vars, disk' # disk
              PROVE  disk'.messages >= disk.messages
  OBVIOUS
<1>1. PICK c \in Callers : SaveConversation(c) \/ SaveApplication(c)
  <2>1. DraftStep => UNCHANGED disk
    BY DraftsRefresh
  <2>2. \A p \in Procs : CrashSync(p) => UNCHANGED disk
    BY DEF CrashSync
  <2>3. \A c \in Callers : Proceed(c) => UNCHANGED disk \/ SaveConversation(c) \/ SaveApplication(c)
    BY DEF Proceed, AcquireLease, SeeStale, RemoveStale, RemakeLease, ReleaseLease, Begin, List,
           ReadDetail, FailRead, CommitNothing, FailCommit, FailApplication, Finish
  <2>4. SyncNext => \E c \in Callers : SaveConversation(c) \/ SaveApplication(c)
    BY <2>3 DEF SyncNext, Lead, Join, Abandon, Cancel, EmployerWrites
  <2>. QED BY <2>1, <2>2, <2>4 DEF Next, DraftStep, Crash, vars, syncvars
<1>2. disk \in Stored /\ caller[c].read \in Reads /\ disk.messages \in Nat
  BY SyncBoundsAssumption DEF SyncInv, SyncTypeOK, Stored
<1>3. CASE SaveConversation(c)
  BY <1>2, <1>3, MergedType DEF SaveConversation, Base
<1>4. CASE SaveApplication(c)
  BY <1>2, <1>4 DEF SaveApplication, Stored
<1>. QED BY <1>1, <1>3, <1>4

(* A message once stored stays stored (MirrorOnlyGrows).                   *)
THEOREM MirrorGrows == Spec => MirrorOnlyGrows
<1>1. SyncInv /\ [Next]_vars => [disk'.messages >= disk.messages]_syncvars
  <2>. SUFFICES ASSUME SyncInv, [Next]_vars
                PROVE  disk'.messages >= disk.messages
    OBVIOUS
  <2>1. disk.messages \in Nat
    BY SyncBoundsAssumption DEF SyncInv, SyncTypeOK, Stored
  <2>. QED BY <2>1, StoreGrows
<1>. QED BY <1>1, SyncAlways, PTL DEF Spec, MirrorOnlyGrows

-----------------------------------------------------------------------------
(* One reader of a target, as long as no process has died.                 *)

LeaseIsOwn ==
  crashes = 0 =>
    /\ \A t \in Targets : lease[t] # "dead"
    /\ \A c \in Callers : /\ caller[c].step \notin {"steal", "remake"}
                          /\ Reading(c) => lease[caller[c].target] = c

(* The lease of a target is its reader, as long as nobody dies.            *)
LEMMA NextLease == SyncInv /\ LeaseIsOwn /\ [Next]_vars => LeaseIsOwn'
<1>. SUFFICES ASSUME SyncInv, LeaseIsOwn, [Next]_vars, crashes' = 0
              PROVE  LeaseIsOwn'
  BY DEF LeaseIsOwn
<1>1. /\ caller \in [Callers -> Requests] /\ lease \in [Targets -> Callers \cup {None, "dead"}]
      /\ crashes \in Nat /\ None \notin Callers \cup {"dead"} /\ "dead" \notin Callers
      /\ \A c \in Callers : caller[c].step # "idle" => caller[c].target \in Targets
  BY SyncBoundsAssumption, CallersAssumption DEF SyncInv, SyncTypeOK, Requests, RequestsOK, RequestOK
<1>2. ASSUME UNCHANGED <<lease, caller, crashes>>
      PROVE  LeaseIsOwn'
  BY <1>2 DEF LeaseIsOwn, Reading
<1>3. ASSUME NEW c \in Callers, UNCHANGED <<lease, crashes>>,
             \A d \in Callers \ {c} : caller'[d] \in {caller[d], Idle},
             caller'[c].step \notin {"steal", "remake"},
             Reading(c)' => caller'[c].target = caller[c].target /\ Reading(c)
      PROVE  LeaseIsOwn'
  BY <1>3 DEF LeaseIsOwn, Reading, Idle
<1>4. ASSUME NEW c \in Callers, Proceed(c)
      PROVE  LeaseIsOwn'
  <2>. DEFINE t == caller[c].target
  <2>1. crashes' = crashes /\ crashes = 0
    BY <1>4 DEF Proceed, AcquireLease, SeeStale, RemoveStale, RemakeLease, ReleaseLease, Begin, List, ReadDetail,
                FailRead, CommitNothing, FailCommit, SaveConversation, SaveApplication, FailApplication, Finish
  <2>2. /\ \A x \in Targets : lease[x] # "dead"
        /\ caller[c].step \notin {"steal", "remake"} /\ (Reading(c) => lease[t] = c)
        /\ (caller[c].step # "idle" => t \in Targets)
    BY <1>1, <2>1 DEF LeaseIsOwn
  <2>3. CASE AcquireLease(c)
    <3>1. t \in Targets /\ ~Reading(c)
      BY <2>2, <2>3 DEF AcquireLease, Reading
    <3>2. CASE lease[t] = None /\ lease' = [lease EXCEPT ![t] = c] /\ To(c, "begin")
      <4>1. caller'[c].step = "begin" /\ caller'[c].target = t /\ \A d \in Callers \ {c} : caller'[d] = caller[d]
        BY <1>1, <3>2 DEF To, Requests
      <4>2. lease'[t] = c /\ \A x \in Targets \ {t} : lease'[x] = lease[x]
        BY <1>1, <3>1, <3>2
      <4>3. \A d \in Callers \ {c} : Reading(d) => caller[d].target \in Targets \ {t}
        BY <1>1, <2>1, <3>2 DEF LeaseIsOwn, Reading
      <4>. QED BY <1>1, <2>1, <4>1, <4>2, <4>3 DEF LeaseIsOwn, Reading
    <3>3. CASE UNCHANGED lease /\ caller' = [caller EXCEPT ![c].step = "finish", ![c].outcome = "busy"]
      <4>1. caller'[c].step = "finish" /\ \A d \in Callers \ {c} : caller'[d] = caller[d]
        BY <1>1, <3>3 DEF Requests
      <4>. QED BY <1>3, <2>1, <3>3, <4>1 DEF Reading
    <3>. QED BY <2>3, <3>2, <3>3 DEF AcquireLease
  <2>4. ~SeeStale(c) /\ ~RemoveStale(c) /\ ~RemakeLease(c)
    BY <2>2 DEF SeeStale, RemoveStale, RemakeLease
  <2>5. CASE ReleaseLease(c)
    <3>1. /\ lease[t] = c /\ t \in Targets /\ lease' = [lease EXCEPT ![t] = None]
          /\ caller' = [caller EXCEPT ![c].step = "finish"]
      BY <2>2, <2>5 DEF ReleaseLease, Reading, To
    <3>2. caller'[c].step = "finish" /\ \A d \in Callers \ {c} : caller'[d] = caller[d]
      BY <1>1, <3>1 DEF Requests
    <3>3. \A d \in Callers \ {c} : Reading(d) => caller[d].target \in Targets \ {t}
      BY <1>1, <2>1, <3>1 DEF LeaseIsOwn, Reading
    <3>. QED BY <1>1, <2>1, <3>1, <3>2, <3>3 DEF LeaseIsOwn, Reading
  <2>6. CASE \/ Begin(c) \/ List(c) \/ ReadDetail(c) \/ FailRead(c)
             \/ CommitNothing(c) \/ FailCommit(c)
             \/ SaveConversation(c) \/ SaveApplication(c) \/ FailApplication(c)
    <3>1. UNCHANGED lease /\ Reading(c) /\ \A d \in Callers \ {c} : caller'[d] = caller[d]
      BY <1>1, <2>6 DEF Begin, List, ReadDetail, FailRead, CommitNothing, FailCommit, SaveConversation,
                        SaveApplication, FailApplication, Ends, To, Reading
    <3>2. caller'[c].target = t /\ caller'[c].step \notin {"steal", "remake"}
      <4>1. CASE Begin(c) \/ List(c)
        BY <1>1, <4>1 DEF Begin, List, Requests
      <4>2. CASE ReadDetail(c) \/ FailRead(c)
        BY <1>1, <4>2 DEF ReadDetail, FailRead, Requests
      <4>3. CASE SaveConversation(c)
        BY <1>1, <4>3 DEF SaveConversation, To, Requests
      <4>4. CASE CommitNothing(c) \/ FailCommit(c) \/ SaveApplication(c) \/ FailApplication(c)
        <5>1. \E o \in {"ok", "failed"} : Ends(c, o)
          BY <4>4 DEF CommitNothing, FailCommit, SaveApplication, FailApplication
        <5>. QED BY <1>1, <5>1 DEF Ends, Requests
      <4>. QED BY <2>6, <4>1, <4>2, <4>3, <4>4
    <3>. QED BY <1>3, <2>1, <3>1, <3>2
  <2>7. CASE Finish(c)
    <3>1. UNCHANGED lease /\ caller'[c] = Idle /\ \A d \in Callers : caller'[d] \in {caller[d], Idle}
      BY <1>1, <2>7 DEF Finish
    <3>. QED BY <1>3, <2>1, <3>1 DEF Idle, Reading
  <2>. QED BY <1>4, <2>3, <2>4, <2>5, <2>6, <2>7 DEF Proceed
<1>5. ASSUME NEW c \in Callers, NEW t \in Targets, Lead(c, t) \/ Join(c, t)
      PROVE  LeaseIsOwn'
  <2>1. /\ UNCHANGED <<lease, crashes>> /\ caller'[c].step \in {"lease", "joined"}
        /\ \A d \in Callers \ {c} : caller'[d] = caller[d]
    BY <1>1, <1>5 DEF Lead, Join, Idle
  <2>. QED BY <1>3, <2>1 DEF Reading
<1>6. ASSUME NEW c \in Callers, Abandon(c)
      PROVE  LeaseIsOwn'
  <2>1. UNCHANGED <<lease, crashes>> /\ caller'[c] = Idle /\ \A d \in Callers \ {c} : caller'[d] = caller[d]
    BY <1>1, <1>6 DEF Abandon
  <2>. QED BY <1>3, <2>1 DEF Idle, Reading
<1>7. ASSUME NEW c \in Callers, Cancel(c)
      PROVE  LeaseIsOwn'
  <2>1. /\ UNCHANGED <<lease, crashes>> /\ Reading(c) /\ caller'[c].step = "release"
        /\ caller'[c].target = caller[c].target /\ \A d \in Callers \ {c} : caller'[d] = caller[d]
    BY <1>1, <1>7 DEF Cancel, Ends, Reading, Requests
  <2>. QED BY <1>3, <2>1
<1>8. EmployerWrites \/ DraftStep => UNCHANGED <<lease, caller, crashes>>
  BY DraftsRefresh DEF EmployerWrites
<1>9. \A p \in Procs : ~Crash(p)
  BY <1>1 DEF Crash, CrashSync
<1>. QED BY <1>2, <1>4, <1>5, <1>6, <1>7, <1>8, <1>9 DEF Next, SyncNext, DraftStep, vars, syncvars

(* As long as no process has died, a target is read by one request of all  *)
(* processes (OneReader).                                                  *)
THEOREM OneReaderAlways == Spec => []OneReader
<1>1. Init => LeaseIsOwn
  BY CallersAssumption DEF Init, SyncInit, LeaseIsOwn, Reading, Idle
<1>2. LeaseIsOwn => OneReader
  BY DEF LeaseIsOwn, OneReader
<1>. QED BY <1>1, <1>2, NextLease, SyncAlways, PTL DEF Spec

-----------------------------------------------------------------------------
(* Drafts.                                                                 *)

DraftsTyped ==
  /\ knowledge \in 0..MaxKnowledge
  /\ drafted \in [Copies -> [Inputs -> 0..1]]
  /\ asking \in [Copies -> BOOLEAN]
  /\ worker \in Workers

(* The values drafts, questions and the worker take.                       *)
LEMMA SavedType ==
  ASSUME NEW S, NEW store \in [Copies -> S], NEW value \in S
  PROVE  /\ Saved(store, value) \subseteq [Copies -> S]
         /\ \A x \in Saved(store, value) : x["mem"] = value
BY DEF Saved, Copies

LEMMA WorkerTypes ==
  /\ NoWorker \in Workers /\ [NoWorker EXCEPT !.step = "deferred"] \in Workers
  /\ \A w \in Workers : \A s \in {"model", "draft", "ask"} : [w EXCEPT !.step = s] \in Workers
BY SyncBoundsAssumption, KnowledgeAssumption DEF NoWorker, Workers

LEMMA CopyType ==
  ASSUME SyncInv', DraftsTyped
  PROVE  Copy("prepare") \in Workers
<1>1. Seen \in Stored
  BY DEF SyncInv, SyncTypeOK, Procs, Seen
<1>2. Seen.messages \in 0..MaxMessages /\ Seen.reads \in Nat
  BY <1>1 DEF Stored
<1>. QED BY <1>2 DEF DraftsTyped, Copy, Workers

(* What one input's drafts become.                                         *)
LEMMA DraftCount ==
  ASSUME DraftsTyped, NEW value \in [Inputs -> 0..1], drafted' \in Saved(drafted, value)
  PROVE  /\ drafted' \in [Copies -> [Inputs -> 0..1]] /\ drafted'["mem"] = value
         /\ drafted["mem"] \in [Inputs -> 0..1]
<1>. DEFINE S == [Inputs -> 0..1]
<1>1. drafted \in [Copies -> S] /\ value \in S
  BY DEF DraftsTyped
<1>2. drafted["mem"] \in S
  BY <1>1 DEF Copies
<1>. HIDE DEF S
<1>3. drafted' \in [Copies -> S] /\ drafted'["mem"] = value
  BY <1>1, SavedType
<1>. QED BY <1>2, <1>3 DEF S

(* A count goes up from zero, or down.                                     *)
LEMMA OneMore ==
  ASSUME NEW f \in [Inputs -> 0..1], NEW x, f[x] = 0
  PROVE  /\ [f EXCEPT ![x] = @ + 1] \in [Inputs -> 0..1]
         /\ \A i \in Inputs \ {x} : [f EXCEPT ![x] = @ + 1][i] = f[i]
<1>1. CASE x \in Inputs
  <2>1. f[x] + 1 \in 0..1
    OBVIOUS
  <2>. QED BY <1>1, <2>1
<1>2. CASE x \notin Inputs
  <2>1. [f EXCEPT ![x] = @ + 1] = f
    BY <1>2
  <2>. QED BY <2>1
<1>. QED BY <1>1, <1>2

LEMMA OneLess ==
  ASSUME NEW f \in [Inputs -> 0..1], NEW x \in Inputs, f[x] > 0
  PROVE  /\ [f EXCEPT ![x] = @ - 1] \in [Inputs -> 0..1]
         /\ \A i \in Inputs : ~([f EXCEPT ![x] = @ - 1][i] > f[i])
OBVIOUS

(* A new draft is the only one for its input.                              *)
LEMMA PersistType ==
  ASSUME DraftsTyped, NEW input, drafted["mem"][input] = 0, PersistDraft(input) \/ PersistQuestion
  PROVE  /\ drafted' \in [Copies -> [Inputs -> 0..1]] /\ asking' \in [Copies -> BOOLEAN]
         /\ \A i \in Inputs : drafted'["mem"][i] > drafted["mem"][i] => i = input
<1>1. CASE PersistDraft(input)
  <2>1. drafted["mem"] \in [Inputs -> 0..1]
    BY DEF DraftsTyped, Copies
  <2>2. AddDraft(input) \in [Inputs -> 0..1] /\ \A i \in Inputs \ {input} : AddDraft(input)[i] = drafted["mem"][i]
    <3>1. PICK f \in [Inputs -> 0..1] : f = drafted["mem"] /\ f[input] = 0
      BY <2>1
    <3>. QED BY <3>1, OneMore DEF AddDraft
  <2>3. drafted' \in [Copies -> [Inputs -> 0..1]] /\ drafted'["mem"] = AddDraft(input)
    BY <1>1, <2>2, DraftCount DEF PersistDraft
  <2>4. \A i \in Inputs \ {input} : drafted["mem"][i] \in Nat /\ drafted'["mem"][i] = drafted["mem"][i]
    BY <2>1, <2>2, <2>3
  <2>. QED BY <1>1, <2>3, <2>4 DEF PersistDraft, DraftsTyped
<1>2. CASE PersistQuestion
  <2>1. asking' \in [Copies -> BOOLEAN]
    BY <1>2, SavedType DEF PersistQuestion, DraftsTyped
  <2>2. \A i \in Inputs : drafted["mem"][i] \in Nat
    BY DEF DraftsTyped, Copies
  <2>. QED BY <1>2, <2>1, <2>2 DEF PersistQuestion, DraftsTyped
<1>. QED BY <1>1, <1>2

(* Every step keeps them.                                                  *)
LEMMA NextDrafts == SyncInv /\ SyncInv' /\ DraftsTyped /\ [Next]_vars => DraftsTyped'
<1>. SUFFICES ASSUME SyncInv, SyncInv', DraftsTyped, [Next]_vars
              PROVE  DraftsTyped'
  OBVIOUS
<1>1. CASE UNCHANGED draftvars
  BY <1>1 DEF draftvars, DraftsTyped
<1>2. CASE ShowInbox \/ ShowOverview \/ Snapshot
  BY <1>2, CopyType, WorkerTypes DEF ShowInbox, ShowOverview, Snapshot, DraftsTyped
<1>3. CASE Prepare \/ Decide("draft") \/ Decide("ask") \/ DecideNothing
  BY <1>3, WorkerTypes DEF Prepare, Decide, DecideNothing, DraftsTyped
<1>4. CASE CommitDecision
  <2>1. worker' \in Workers /\ knowledge' = knowledge
    BY <1>4, WorkerTypes DEF CommitDecision
  <2>2. CASE ~StillCurrent(worker)
    BY <1>4, <2>1, <2>2 DEF CommitDecision, DraftsTyped
  <2>3. CASE StillCurrent(worker)
    <3>1. drafted["mem"][InputOf(worker)] = 0 /\ (PersistDraft(InputOf(worker)) \/ PersistQuestion)
      BY <1>4, <2>3 DEF StillCurrent, CommitDecision
    <3>. QED BY <2>1, <3>1, PersistType DEF DraftsTyped
  <2>. QED BY <2>2, <2>3
<1>5. CASE RequestDraft
  <2>1. PICK input : drafted["mem"][input] = 0 /\ (PersistDraft(input) \/ PersistQuestion)
    BY <1>5 DEF RequestDraft
  <2>. QED BY <1>5, <2>1, PersistType DEF RequestDraft, DraftsTyped
<1>6. ASSUME NEW i \in Inputs, ReviewDraft(i)
      PROVE  DraftsTyped'
  <2>1. drafted["mem"] \in [Inputs -> 0..1] /\ drafted["mem"][i] > 0
    BY <1>6 DEF DraftsTyped, Copies, ReviewDraft
  <2>2. [drafted["mem"] EXCEPT ![i] = @ - 1] \in [Inputs -> 0..1]
    BY <2>1, OneLess
  <2>3. drafted' \in [Copies -> [Inputs -> 0..1]]
    BY <1>6, <2>2, DraftCount DEF ReviewDraft
  <2>. QED BY <1>6, <2>3 DEF ReviewDraft, DraftsTyped
<1>7. CASE Answer
  <2>1. asking' \in [Copies -> BOOLEAN]
    BY <1>7, SavedType DEF Answer, DraftsTyped
  <2>2. knowledge' \in 0..MaxKnowledge
    BY <1>7, KnowledgeAssumption DEF Answer, DraftsTyped
  <2>. QED BY <1>7, <2>1, <2>2 DEF Answer, DraftsTyped
<1>8. ASSUME NEW p \in Procs, Crash(p)
      PROVE  DraftsTyped'
  BY <1>1, <1>8, WorkerTypes DEF Crash, DraftsTyped, Copies
<1>. QED BY <1>1, <1>2, <1>3, <1>4, <1>5, <1>6, <1>7, <1>8 DEF Next, Work, vars

LEMMA DraftsAlways == Spec => [](SyncInv /\ DraftsTyped)
<1>1. Init => SyncInv /\ DraftsTyped
  BY InitSync, WorkerTypes, KnowledgeAssumption DEF Init, DraftsTyped
<1>. QED BY <1>1, NextSync, NextDrafts, PTL DEF Spec

(* Requests, stores, leases, drafts and the worker stay well formed        *)
(* (TypeOK).                                                               *)
THEOREM TypeCorrect == Spec => []TypeOK
<1>1. SyncInv /\ DraftsTyped => TypeOK
  BY DEF SyncInv, DraftsTyped, TypeOK
<1>. QED BY <1>1, DraftsAlways, PTL

(* One draft at most waits for review for one employer message and one     *)
(* state of the knowledge, in memory and on disk (OneDraftPerInput).       *)
THEOREM OneDraftAlways == Spec => []OneDraftPerInput
<1>1. DraftsTyped => OneDraftPerInput
  BY DEF DraftsTyped, OneDraftPerInput
<1>. QED BY <1>1, DraftsAlways, PTL

(* A draft is only kept for what is stored and known when it is committed  *)
(* (StaleIsDiscarded).                                                     *)
THEOREM StaleNeverKept == Spec => StaleIsDiscarded
<1>. DEFINE Kept == \A i \in Inputs :
              drafted'["mem"][i] > drafted["mem"][i] /\ crashes' = crashes => i = <<disk.messages, knowledge>>
<1>1. SyncInv /\ DraftsTyped /\ [Next]_vars => Kept
  <2>. SUFFICES ASSUME SyncInv, DraftsTyped, [Next]_vars
                PROVE  Kept
    OBVIOUS
  <2>0. /\ \A i \in Inputs : drafted["mem"][i] \in Nat
        /\ crashes \in Nat /\ mem \in [Procs -> Stored] /\ "dashboard" \in Procs
    BY SyncBoundsAssumption DEF SyncInv, SyncTypeOK, DraftsTyped, Copies, Procs
  <2>1. CASE UNCHANGED drafted
    BY <2>0, <2>1
  <2>2. CASE CommitDecision
    <3>1. mem' = Refreshed /\ Seen = disk
      BY <2>0, <2>2 DEF CommitDecision, Refreshed, Seen
    <3>2. CASE StillCurrent(worker)
      <4>1. InputOf(worker) = <<disk.messages, knowledge>> /\ drafted["mem"][InputOf(worker)] = 0
        BY <3>1, <3>2 DEF StillCurrent, InputOf
      <4>2. PersistDraft(InputOf(worker)) \/ PersistQuestion
        BY <2>2, <3>2 DEF CommitDecision
      <4>. QED BY <4>1, <4>2, PersistType
    <3>. QED BY <2>1, <2>2, <3>2 DEF CommitDecision
  <2>3. CASE RequestDraft
    <3>1. Seen = disk
      BY <2>0, <2>3 DEF RequestDraft, Refreshed, Seen
    <3>2. drafted["mem"][<<disk.messages, knowledge>>] = 0
          /\ (PersistDraft(<<disk.messages, knowledge>>) \/ PersistQuestion)
      BY <2>3, <3>1 DEF RequestDraft
    <3>. QED BY <3>2, PersistType
  <2>4. ASSUME NEW j \in Inputs, ReviewDraft(j)
        PROVE  Kept
    <3>1. drafted["mem"] \in [Inputs -> 0..1] /\ drafted["mem"][j] > 0
      BY <2>4 DEF DraftsTyped, Copies, ReviewDraft
    <3>2. drafted'["mem"] = [drafted["mem"] EXCEPT ![j] = @ - 1]
      BY <2>4, <3>1, OneLess, DraftCount DEF ReviewDraft
    <3>3. \A i \in Inputs : ~(drafted'["mem"][i] > drafted["mem"][i])
      BY <3>1, <3>2, OneLess
    <3>. QED BY <3>3
  <2>5. ASSUME NEW p \in Procs, Crash(p)
        PROVE  Kept
    <3>1. crashes' # crashes
      BY <2>0, <2>5 DEF Crash, CrashSync
    <3>. QED BY <3>1
  <2>6. ShowInbox \/ ShowOverview \/ Answer \/ Snapshot \/ Prepare \/ DecideNothing
          \/ Decide("draft") \/ Decide("ask") => UNCHANGED drafted
    BY DEF ShowInbox, ShowOverview, Answer, Snapshot, Prepare, DecideNothing, Decide
  <2>. QED BY <2>1, <2>2, <2>3, <2>4, <2>5, <2>6 DEF Next, Work, vars, draftvars
<1>. QED BY <1>1, DraftsAlways, PTL DEF Spec, StaleIsDiscarded
=================================================================================
