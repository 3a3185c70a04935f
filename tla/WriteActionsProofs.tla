--------------------------- MODULE WriteActionsProofs ---------------------------
(***************************************************************************)
(* Proofs for WriteActions.  For any processes, side by side on the same   *)
(* files: types, one active approval, true confirmations, an audit event   *)
(* for every POST, and how far dashboards may overrun the daily limit.     *)
(* For one dashboard: an approval is sent once, with the current text, and *)
(* never after it was withdrawn; what it promises the employer (SingleUse) *)
(* is kept.                                                                *)
(***************************************************************************)
EXTENDS WriteActions, FiniteSetTheorems, TLAPS

-----------------------------------------------------------------------------
(* Views.                                                                  *)

LEMMA ViewParts ==
  ASSUME NEW v \in Views
  PROVE  v.actions \in [Actions -> ActionRecords] /\ v.drafts \in [Drafts -> DraftRecords]
BY DEF Views

(* A view that goes on with other actions, other drafts, or both.          *)
LEMMA OtherActions ==
  ASSUME NEW v \in Views, NEW k \in [Actions -> ActionRecords]
  PROVE  LET w == [v EXCEPT !.actions = k] IN w \in Views /\ w.actions = k /\ w.drafts = v.drafts
BY DEF Views, Files

LEMMA OtherDrafts ==
  ASSUME NEW v \in Views, NEW d \in [Drafts -> DraftRecords]
  PROVE  LET w == [v EXCEPT !.drafts = d] IN w \in Views /\ w.actions = v.actions /\ w.drafts = d
BY DEF Views, Files

(* The types of the store, and what a request begins with.                 *)
StoreTyped == disk \in Views /\ mem \in [Procs -> Views] /\ changed \in [Procs -> SUBSET Files]

LEMMA RefreshedView ==
  ASSUME StoreTyped, NEW p \in Procs
  PROVE  /\ Refreshed(p) \in Views
         /\ Refreshed(p).actions \in {disk.actions, mem[p].actions}
         /\ Refreshed(p).drafts \in {disk.drafts, mem[p].drafts}
BY DEF StoreTyped, Refreshed, Views, Files

LEMMA KeptView ==
  ASSUME StoreTyped, NEW p \in Procs, NEW view \in Views, NEW saved \in SUBSET Files, NEW stale \in SUBSET Files,
         Keep(p, view, saved, stale)
  PROVE  /\ StoreTyped'
         /\ mem'[p] = view /\ \A q \in Procs \ {p} : mem'[q] = mem[q]
         /\ disk'.actions = IF "actions" \in saved THEN view.actions ELSE disk.actions
         /\ disk'.drafts = IF "drafts" \in saved THEN view.drafts ELSE disk.drafts
<1>1. mem' \in [Procs -> Views] /\ mem'[p] = view /\ \A q \in Procs \ {p} : mem'[q] = mem[q]
  BY DEF StoreTyped, Keep
<1>2. /\ disk' \in Views
      /\ disk'.actions = IF "actions" \in saved THEN view.actions ELSE disk.actions
      /\ disk'.drafts = IF "drafts" \in saved THEN view.drafts ELSE disk.drafts
  BY DEF StoreTyped, Keep, Views, Files
<1>3. changed' \in [Procs -> SUBSET Files]
  BY DEF StoreTyped, Keep
<1>. QED BY <1>1, <1>2, <1>3 DEF StoreTyped

-----------------------------------------------------------------------------
(* How actions change.                                                     *)

(* What a request may do to an action that exists: it stays the approval   *)
(* of the same text, its nonce stays used, and it is not approved again.   *)
Moves(r, s) ==
  \/ s = r
  \/ /\ r.status # "ABSENT" /\ s.status # "ABSENT"
     /\ s.draft = r.draft /\ s.text = r.text
     /\ r.used => s.used
     /\ Active(s) => Active(r)

(* Confirmed now, if it was before or hh.ru holds the message.             *)
ConfirmsTruly(a, r, s) ==
  s.status = "DELIVERY_CONFIRMED" => r.status = "DELIVERY_CONFIRMED" \/ wire[a].delivered > 0

Advances(known, now) ==
  \A a \in Actions : Moves(known[a], now[a]) /\ ConfirmsTruly(a, known[a], now[a])

(* A new approval: every other action has been withdrawn or is at rest.    *)
Approves(known, now) ==
  \E a \in Actions, d \in Drafts, t \in 0..MaxTexts :
    /\ Unused(a)
    /\ now[a] = Approved(d, t)
    /\ \A b \in Actions \ {a} :
         Moves(known[b], now[b]) /\ ConfirmsTruly(b, known[b], now[b]) /\ ~Active(now[b])

(* A process goes on with a view that comes from its memory or the file.   *)
Writes(p) ==
  \E view \in Views, saved \in SUBSET Files, stale \in SUBSET Files :
    /\ Keep(p, view, saved, stale)
    /\ \E known \in {disk.actions, mem[p].actions} :
         Advances(known, view.actions) \/ Approves(known, view.actions)

LEMMA MovesOn ==
  ASSUME NEW r, NEW s, NEW t, Moves(r, s), Moves(s, t)
  PROVE  Moves(r, t)
BY DEF Moves

LEMMA WithStatus ==
  ASSUME NEW r \in ActionRecords, NEW status \in Statuses
  PROVE  LET s == [r EXCEPT !.status = status] IN
         s \in ActionRecords /\ s.status = status /\ s.used = r.used /\ s.draft = r.draft /\ s.text = r.text
BY DEF ActionRecords

(* An existing action that gets a status at rest has moved.                *)
LEMMA ComesToRest ==
  ASSUME NEW r \in ActionRecords, NEW status \in Statuses \ {"ABSENT", "APPROVED", "SENDING"}, r.status # "ABSENT"
  PROVE  LET s == [r EXCEPT !.status = status] IN
         s \in ActionRecords /\ s.status = status /\ Moves(r, s) /\ ~Active(s)
BY WithStatus DEF Moves, Active

-----------------------------------------------------------------------------
(* Types.                                                                  *)

(* A process that is at work has an action, and beyond a preflight one     *)
(* that exists.                                                            *)
InHand(p) ==
  /\ pc[p] # "idle" => job[p].action \in Actions
  /\ pc[p] \notin {"idle", "checking"} => Current(p).status # "ABSENT"

Jobs == [action : Actions \cup {None}, counted : Nat, outcome : Outcomes \cup {"none"}, id : BOOLEAN]
OwnTyped == pc \in [Procs -> Steps] /\ job \in [Procs -> Jobs]
CountsTyped ==
  /\ audit \in [Actions -> Nat]
  /\ attempts \in [Procs -> Nat]
  /\ wire \in [Actions -> [posts : Nat, inflight : Nat, delivered : Nat]]
  /\ crashes \in Nat
  /\ IsFiniteSet(Numbered(audit))
Typed == StoreTyped /\ OwnTyped /\ CountsTyped /\ \A p \in Procs : InHand(p)

LEMMA TypedIsTypeOK == Typed => TypeOK
BY DEF Typed, StoreTyped, OwnTyped, CountsTyped, TypeOK, Jobs

(* A step of one process that writes leaves the others as they were.       *)
LEMMA OthersInHand ==
  ASSUME Typed, NEW p \in Procs, NEW view \in Views, NEW saved \in SUBSET Files, NEW stale \in SUBSET Files,
         Keep(p, view, saved, stale),
         pc' \in [Procs -> Steps], job' \in [Procs -> Jobs],
         \A q \in Procs \ {p} : pc'[q] = pc[q] /\ job'[q] = job[q],
         pc'[p] # "idle" => job'[p].action \in Actions,
         pc'[p] \notin {"idle", "checking"} => view.actions[job'[p].action].status # "ABSENT"
  PROVE  StoreTyped' /\ OwnTyped' /\ \A q \in Procs : InHand(q)'
<1>1. /\ StoreTyped'
      /\ mem'[p] = view /\ \A q \in Procs \ {p} : mem'[q] = mem[q]
  BY KeptView DEF Typed
<1>2. ASSUME NEW q \in Procs
      PROVE  InHand(q)'
  BY <1>1 DEF InHand, Current, Typed
<1>. QED BY <1>1, <1>2 DEF OwnTyped

(* A step that advances what it knows.                                     *)
LEMMA AdvanceSteps ==
  ASSUME Typed, NEW p \in Procs, NEW view \in Views, NEW saved \in SUBSET Files, NEW stale \in SUBSET Files,
         Keep(p, view, saved, stale),
         NEW known \in {disk.actions, mem[p].actions},
         Advances(known, view.actions) \/ Approves(known, view.actions),
         pc' \in [Procs -> Steps], job' \in [Procs -> Jobs],
         \A q \in Procs \ {p} : pc'[q] = pc[q] /\ job'[q] = job[q],
         pc'[p] # "idle" => job'[p].action \in Actions,
         pc'[p] \notin {"idle", "checking"} => view.actions[job'[p].action].status # "ABSENT",
         CountsTyped'
  PROVE  Writes(p) /\ Typed'
<1>1. Writes(p)
  BY DEF Writes
<1>2. StoreTyped' /\ OwnTyped' /\ \A q \in Procs : InHand(q)'
  BY OthersInHand
<1>. QED BY <1>1, <1>2 DEF Typed

LEMMA RequestSteps ==
  ASSUME Typed, NEW p \in Procs, pc[p] = "idle", NEW view \in Views, NEW saved \in SUBSET Files,
         Request(p, view, saved),
         Advances(Refreshed(p).actions, view.actions) \/ Approves(Refreshed(p).actions, view.actions)
  PROVE  Writes(p) /\ Typed'
<1>1. StoreTyped
  BY DEF Typed
<1>2. Refreshed(p).actions \in {disk.actions, mem[p].actions}
  BY <1>1, RefreshedView
<1>3. Keep(p, view, saved, {}) /\ UNCHANGED <<audit, attempts, wire, pc, job, crashes>>
  BY DEF Request
<1>4. pc' \in [Procs -> Steps] /\ job' \in [Procs -> Jobs] /\ CountsTyped' /\ pc'[p] = "idle"
  BY <1>3 DEF Typed, OwnTyped, CountsTyped
<1>. QED BY <1>2, <1>3, <1>4, AdvanceSteps

LEMMA NothingMoves == \A known : Advances(known, known)
BY DEF Advances, Moves, ConfirmsTruly

(* A process in the middle of a request changes its action and goes on, or *)
(* ends the request.                                                       *)
LEMMA NoJobTyped == NoJob \in Jobs
BY DEF NoJob, Jobs

LEMMA CurrentTyped ==
  ASSUME Typed, NEW p \in Procs, pc[p] # "idle"
  PROVE  job[p].action \in Actions /\ Current(p) \in ActionRecords
BY ViewParts DEF Typed, StoreTyped, InHand, Current

LEMMA PutSteps ==
  ASSUME Typed, NEW p \in Procs, pc[p] # "idle", NEW r \in ActionRecords,
         Moves(Current(p), r), ConfirmsTruly(job[p].action, Current(p), r),
         NEW saved \in MaySave, PutAction(p, r, saved),
         \/ Done(p)
         \/ \E s \in Steps : Goto(p, s) /\ UNCHANGED job /\ r.status # "ABSENT",
         UNCHANGED <<audit, attempts, wire, crashes>>
  PROVE  Writes(p) /\ Typed'
<1>. DEFINE a == job[p].action
            known == mem[p].actions
            now == [known EXCEPT ![a] = r]
            view == [mem[p] EXCEPT !.actions = now]
<1>1. mem[p] \in Views /\ changed[p] \in SUBSET Files /\ saved \in SUBSET Files
  BY DEF Typed, StoreTyped, MaySave, Files
<1>2. a \in Actions /\ known \in [Actions -> ActionRecords]
  BY <1>1, CurrentTyped, ViewParts
<1>3. now \in [Actions -> ActionRecords] /\ now[a] = r /\ \A b \in Actions \ {a} : now[b] = known[b]
  BY <1>2
<1>4. Keep(p, view, saved, changed[p])
  BY <1>1 DEF PutAction, Views, Files
<1>5. view \in Views /\ view.actions = now
  BY <1>1, <1>3, OtherActions
<1>6. Advances(known, now)
  BY <1>2, <1>3 DEF Advances, Moves, ConfirmsTruly, Current
<1>7. /\ pc' \in [Procs -> Steps] /\ job' \in [Procs -> Jobs] /\ CountsTyped'
      /\ \A q \in Procs \ {p} : pc'[q] = pc[q] /\ job'[q] = job[q]
      /\ pc'[p] # "idle" => job'[p].action = a /\ r.status # "ABSENT"
  BY NoJobTyped DEF Typed, OwnTyped, CountsTyped, Done, Goto, Steps
<1>. HIDE DEF view, now
<1>. QED BY <1>1, <1>2, <1>3, <1>4, <1>5, <1>6, <1>7, AdvanceSteps

(* The operator's requests.                                                *)
LEMMA ApproveSteps ==
  ASSUME Typed, NEW p \in Procs, NEW d \in Drafts, NEW a \in Actions, ApproveDraft(p, d, a)
  PROVE  Writes(p) /\ Typed'
<1>. DEFINE base == Refreshed(p)
            known == base.actions
            withdrawn == [b \in Actions |->
                            IF known[b].draft = d /\ known[b].status = "APPROVED"
                            THEN [known[b] EXCEPT !.status = "STALE"] ELSE known[b]]
            new == Approved(d, base.drafts[d].text)
            now == [withdrawn EXCEPT ![a] = new]
            drafts == [base.drafts EXCEPT ![d].status = "APPROVED"]
            view == [base EXCEPT !.actions = now, !.drafts[d].status = "APPROVED"]
<1>1. /\ base \in Views /\ known \in [Actions -> ActionRecords] /\ base.drafts \in [Drafts -> DraftRecords]
  BY RefreshedView, ViewParts DEF Typed
<1>2. /\ pc[p] = "idle" /\ Unused(a) /\ MayApprove(known, d)
      /\ \E saved \in {{}, {"actions"}, {"actions", "drafts"}} : Request(p, view, saved)
  BY DEF ApproveDraft
<1>3. \A b \in Actions : withdrawn[b] \in ActionRecords /\ Moves(known[b], withdrawn[b]) /\ ~Active(withdrawn[b])
                         /\ ConfirmsTruly(b, known[b], withdrawn[b])
  <2>. SUFFICES ASSUME NEW b \in Actions
                PROVE  withdrawn[b] \in ActionRecords /\ Moves(known[b], withdrawn[b]) /\ ~Active(withdrawn[b])
                       /\ ConfirmsTruly(b, known[b], withdrawn[b])
    OBVIOUS
  <2>1. known[b] \in ActionRecords
    BY <1>1
  <2>2. CASE known[b].draft = d /\ known[b].status = "APPROVED"
    <3>1. withdrawn[b] = [known[b] EXCEPT !.status = "STALE"]
      BY <2>2
    <3>. QED BY <2>1, <2>2, <3>1, ComesToRest DEF Statuses, ConfirmsTruly
  <2>3. CASE ~(known[b].draft = d /\ known[b].status = "APPROVED")
    <3>1. withdrawn[b] = known[b]
      BY <2>3
    <3>. QED BY <1>2, <2>1, <2>3, <3>1 DEF MayApprove, Moves, ConfirmsTruly
  <2>. QED BY <2>2, <2>3
<1>4. base.drafts[d].text \in 0..MaxTexts /\ new \in ActionRecords
  BY <1>1 DEF DraftRecords, Approved, ActionRecords, Statuses
<1>. HIDE DEF new
<1>5. now \in [Actions -> ActionRecords] /\ now[a] = new /\ \A b \in Actions \ {a} : now[b] = withdrawn[b]
  BY <1>3, <1>4
<1>6. Approves(known, now)
  BY <1>2, <1>3, <1>4, <1>5 DEF Approves, new
<1>7. drafts \in [Drafts -> DraftRecords]
  BY <1>1 DEF DraftRecords
<1>8. view \in Views /\ view.actions = now
  BY <1>1, <1>5, <1>7 DEF Views, Files
<1>. HIDE DEF view, now
<1>9. PICK saved \in SUBSET Files : Request(p, view, saved)
  BY <1>2 DEF Files
<1>. QED BY <1>2, <1>6, <1>8, <1>9, RequestSteps

LEMMA EditSteps ==
  ASSUME Typed, NEW p \in Procs, NEW d \in Drafts, EditDraft(p, d)
  PROVE  Writes(p) /\ Typed'
<1>. DEFINE base == Refreshed(p)
            known == base.actions
            now == [b \in Actions |-> IF known[b].draft = d /\ Invalidated(known[b])
                                      THEN [known[b] EXCEPT !.status = "STALE"] ELSE known[b]]
            edited == [status |-> "GENERATED", text |-> base.drafts[d].text + 1]
            view == [base EXCEPT !.actions = now, !.drafts[d] = edited]
<1>1. /\ base \in Views /\ known \in [Actions -> ActionRecords] /\ base.drafts \in [Drafts -> DraftRecords]
  BY RefreshedView, ViewParts DEF Typed
<1>2. /\ pc[p] = "idle" /\ base.drafts[d].text < MaxTexts
      /\ \E saved \in {{}, {"drafts"}, {"actions", "drafts"}} : Request(p, view, saved)
  BY DEF EditDraft
<1>3. \A b \in Actions : now[b] \in ActionRecords /\ Moves(known[b], now[b]) /\ ConfirmsTruly(b, known[b], now[b])
  <2>. SUFFICES ASSUME NEW b \in Actions
                PROVE  now[b] \in ActionRecords /\ Moves(known[b], now[b]) /\ ConfirmsTruly(b, known[b], now[b])
    OBVIOUS
  <2>1. known[b] \in ActionRecords
    BY <1>1
  <2>2. CASE known[b].draft = d /\ Invalidated(known[b])
    <3>1. now[b] = [known[b] EXCEPT !.status = "STALE"]
      BY <2>2
    <3>. QED BY <2>1, <2>2, <3>1, ComesToRest DEF Statuses, ConfirmsTruly, Invalidated
  <2>3. CASE ~(known[b].draft = d /\ Invalidated(known[b]))
    BY <2>1, <2>3 DEF Moves, ConfirmsTruly
  <2>. QED BY <2>2, <2>3
<1>4. now \in [Actions -> ActionRecords] /\ Advances(known, now)
  BY <1>3 DEF Advances
<1>5. edited \in DraftRecords
  BY <1>1, <1>2, WriteBoundsAssumption DEF DraftRecords
<1>. HIDE DEF now, edited
<1>6. [base.drafts EXCEPT ![d] = edited] \in [Drafts -> DraftRecords]
  BY <1>1, <1>5
<1>7. view \in Views /\ view.actions = now
  BY <1>1, <1>4, <1>6 DEF Views, Files
<1>8. PICK saved \in SUBSET Files : Request(p, view, saved)
  BY <1>2 DEF Files, now, edited
<1>. HIDE DEF view
<1>. QED BY <1>2, <1>4, <1>7, <1>8, RequestSteps

LEMMA InvalidateSteps ==
  ASSUME Typed, NEW p \in Procs, InvalidateConversationApprovals(p)
  PROVE  Writes(p) /\ Typed'
<1>. DEFINE base == Refreshed(p)
            known == base.actions
            now == [b \in Actions |-> IF known[b].status = "APPROVED"
                                      THEN [known[b] EXCEPT !.status = "STALE"] ELSE known[b]]
            view == [base EXCEPT !.actions = now]
<1>1. base \in Views /\ known \in [Actions -> ActionRecords]
  BY RefreshedView, ViewParts DEF Typed
<1>2. pc[p] = "idle" /\ \E saved \in MaySave : Request(p, view, saved)
  BY DEF InvalidateConversationApprovals
<1>3. \A b \in Actions : now[b] \in ActionRecords /\ Moves(known[b], now[b]) /\ ConfirmsTruly(b, known[b], now[b])
  BY <1>1, ComesToRest DEF Statuses, ConfirmsTruly, Moves
<1>4. now \in [Actions -> ActionRecords] /\ Advances(known, now)
  BY <1>3 DEF Advances
<1>. HIDE DEF now
<1>5. view \in Views /\ view.actions = now
  BY <1>1, <1>4, OtherActions
<1>6. PICK saved \in SUBSET Files : Request(p, view, saved)
  BY <1>2 DEF MaySave, Files
<1>. HIDE DEF view
<1>. QED BY <1>2, <1>4, <1>5, <1>6, RequestSteps

LEMMA CancelSteps ==
  ASSUME Typed, NEW p \in Procs, NEW a \in Actions, Cancel(p, a)
  PROVE  Writes(p) /\ Typed'
<1>. DEFINE base == Refreshed(p)
            known == base.actions
            cancelled == [known[a] EXCEPT !.status = "CANCELLED"]
            now == [known EXCEPT ![a] = cancelled]
            view == [base EXCEPT !.actions = now]
<1>1. base \in Views /\ known \in [Actions -> ActionRecords]
  BY RefreshedView, ViewParts DEF Typed
<1>2. pc[p] = "idle" /\ known[a].status \in {"APPROVED", "STALE"} /\ \E saved \in MaySave : Request(p, view, saved)
  BY <1>1 DEF Cancel, Views, Files
<1>3. cancelled \in ActionRecords /\ Moves(known[a], cancelled) /\ ConfirmsTruly(a, known[a], cancelled)
  BY <1>1, <1>2, ComesToRest DEF Statuses, ConfirmsTruly
<1>. HIDE DEF cancelled
<1>4. now \in [Actions -> ActionRecords] /\ Advances(known, now)
  BY <1>1, <1>3 DEF Advances, Moves, ConfirmsTruly
<1>. HIDE DEF now
<1>5. view \in Views /\ view.actions = now
  BY <1>1, <1>4, OtherActions
<1>6. PICK saved \in SUBSET Files : Request(p, view, saved)
  BY <1>2 DEF MaySave, Files
<1>. HIDE DEF view
<1>. QED BY <1>2, <1>4, <1>5, <1>6, RequestSteps

(* Requests that read before they decide: an action is taken up from the   *)
(* file, or from what the process knows.                                   *)
LEMMA TakesUp ==
  ASSUME Typed, NEW p \in Procs, NEW view \in Views, NEW a \in Actions, NEW j \in Jobs, NEW s \in Steps,
         view.actions \in {disk.actions, mem[p].actions}, view.actions[a].status # "ABSENT",
         Keep(p, view, {}, {}), job' = [job EXCEPT ![p] = j], j.action = a, Goto(p, s),
         UNCHANGED <<audit, attempts, wire, crashes>>
  PROVE  Writes(p) /\ Typed'
<1>1. /\ pc' \in [Procs -> Steps] /\ job' \in [Procs -> Jobs] /\ CountsTyped' /\ job'[p] = j
      /\ \A q \in Procs \ {p} : pc'[q] = pc[q] /\ job'[q] = job[q]
  BY DEF Typed, OwnTyped, CountsTyped, Goto
<1>. QED BY <1>1, NothingMoves, AdvanceSteps

LEMMA ReloadedView ==
  ASSUME StoreTyped, NEW p \in Procs
  PROVE  LET view == [Refreshed(p) EXCEPT !.actions = disk.actions] IN
         view \in Views /\ view.actions = disk.actions
BY RefreshedView, ViewParts, OtherActions DEF StoreTyped

LEMMA JobFields ==
  ASSUME NEW j \in Jobs, NEW a \in Actions, NEW n \in Nat
  PROVE  /\ [j EXCEPT !.action = a] \in Jobs /\ [j EXCEPT !.action = a].action = a
         /\ LET k == [NoJob EXCEPT !.action = a, !.counted = n] IN k \in Jobs /\ k.action = a /\ k.counted = n
BY DEF Jobs, NoJob

(* How many events the audit has.                                          *)
LEMMA TotalTyped ==
  ASSUME NEW counts \in [Actions -> Nat], IsFiniteSet(Numbered(counts))
  PROVE  Total(counts) \in Nat
BY FS_CardinalityType DEF Total

LEMMA StartSteps ==
  ASSUME Typed, NEW p \in Procs, NEW a \in Actions,
         PreflightStart(p, a) \/ SendStart(p, a) \/ ReconcileDelivery(p, a)
  PROVE  Writes(p) /\ Typed'
<1>. DEFINE view == [Refreshed(p) EXCEPT !.actions = disk.actions]
<1>1. StoreTyped /\ job[p] \in Jobs /\ Total(audit) \in Nat
  BY TotalTyped DEF Typed, OwnTyped, CountsTyped
<1>2. view \in Views /\ view.actions = disk.actions
  BY <1>1, ReloadedView
<1>3. Refreshed(p) \in Views /\ Refreshed(p).actions \in {disk.actions, mem[p].actions}
  BY <1>1, RefreshedView
<1>4. CASE PreflightStart(p, a)
  <2>. DEFINE j == [job[p] EXCEPT !.action = a]
  <2>1. j \in Jobs /\ j.action = a /\ job' = [job EXCEPT ![p] = j]
    BY <1>1, <1>4, JobFields DEF PreflightStart
  <2>2. Keep(p, view, {}, {}) /\ Goto(p, "checking") /\ disk.actions[a].status # "ABSENT"
        /\ UNCHANGED <<audit, attempts, wire, crashes>>
    BY <1>4 DEF PreflightStart
  <2>. HIDE DEF j, view
  <2>. QED BY <1>2, <2>1, <2>2, TakesUp DEF Steps
<1>5. CASE SendStart(p, a)
  <2>. DEFINE j == [NoJob EXCEPT !.action = a, !.counted = Total(audit)]
  <2>1. j \in Jobs /\ j.action = a /\ job' = [job EXCEPT ![p] = j]
    BY <1>1, <1>5, JobFields DEF SendStart
  <2>2. Keep(p, view, {}, {}) /\ Goto(p, "preflight") /\ disk.actions[a].status # "ABSENT"
        /\ UNCHANGED <<audit, attempts, wire, crashes>>
    BY <1>5 DEF SendStart, Sendable
  <2>. HIDE DEF j, view
  <2>. QED BY <1>2, <2>1, <2>2, TakesUp DEF Steps
<1>6. CASE ReconcileDelivery(p, a)
  <2>. DEFINE j == [job[p] EXCEPT !.action = a]
  <2>1. j \in Jobs /\ j.action = a /\ job' = [job EXCEPT ![p] = j]
    BY <1>1, <1>6, JobFields DEF ReconcileDelivery
  <2>2. Keep(p, Refreshed(p), {}, {}) /\ Goto(p, "reconcile") /\ Refreshed(p).actions[a].status # "ABSENT"
        /\ UNCHANGED <<audit, attempts, wire, crashes>>
    BY <1>6 DEF ReconcileDelivery, Reconcilable
  <2>. HIDE DEF j
  <2>. QED BY <1>3, <2>1, <2>2, TakesUp DEF Steps
<1>. QED BY <1>4, <1>5, <1>6

(* The steps that end with a changed action.                               *)
LEMMA PutActionSteps ==
  ASSUME Typed, NEW p \in Procs,
         PreflightEnd(p) \/ SendBlocked(p) \/ AuditFails(p) \/ RecordAnswer(p) \/ Reserve(p) \/ Confirm(p)
  PROVE  Writes(p) /\ Typed'
<1>0. pc[p] # "idle"
  BY DEF PreflightEnd, SendBlocked, AuditFails, RecordAnswer, Reserve, Confirm
<1>1. job[p].action \in Actions /\ Current(p) \in ActionRecords /\ job[p] \in Jobs
  BY <1>0, CurrentTyped DEF Typed, OwnTyped
<1>2. pc[p] # "checking" => Current(p).status # "ABSENT"
  BY <1>0 DEF Typed, InHand
<1>3. CASE PreflightEnd(p)
  <2>1. PICK saved \in MaySave :
          \/ /\ Current(p).status = "APPROVED"
             /\ PutAction(p, [Current(p) EXCEPT !.status = "STALE"], saved)
          \/ PutAction(p, Current(p), saved)
    BY <1>3 DEF PreflightEnd
  <2>2. Done(p) /\ UNCHANGED <<audit, attempts, wire, crashes>>
    BY <1>3 DEF PreflightEnd
  <2>3. CASE Current(p).status = "APPROVED" /\ PutAction(p, [Current(p) EXCEPT !.status = "STALE"], saved)
    <3>. DEFINE r == [Current(p) EXCEPT !.status = "STALE"]
    <3>1. r \in ActionRecords /\ Moves(Current(p), r) /\ ConfirmsTruly(job[p].action, Current(p), r)
      BY <1>1, <2>3, ComesToRest DEF Statuses, ConfirmsTruly
    <3>2. PutAction(p, r, saved)
      BY <2>3
    <3>. HIDE DEF r
    <3>. QED BY <1>0, <2>2, <3>1, <3>2, PutSteps
  <2>4. CASE PutAction(p, Current(p), saved)
    <3>1. Moves(Current(p), Current(p)) /\ ConfirmsTruly(job[p].action, Current(p), Current(p))
      BY DEF Moves, ConfirmsTruly
    <3>. QED BY <1>0, <1>1, <2>2, <2>4, <3>1, PutSteps
  <2>. QED BY <2>1, <2>3, <2>4
<1>4. CASE SendBlocked(p) \/ AuditFails(p)
  <2>1. PICK saved \in MaySave, status \in {"STALE", "MANUAL_REVIEW"} :
          PutAction(p, [Current(p) EXCEPT !.status = status], saved)
    BY <1>4 DEF SendBlocked, AuditFails
  <2>2. pc[p] # "checking" /\ Done(p) /\ UNCHANGED <<audit, attempts, wire, crashes>>
    BY <1>4 DEF SendBlocked, AuditFails
  <2>. DEFINE r == [Current(p) EXCEPT !.status = status]
  <2>3. r \in ActionRecords /\ Moves(Current(p), r) /\ ConfirmsTruly(job[p].action, Current(p), r)
    BY <1>1, <1>2, <2>2, ComesToRest DEF Statuses, Transported, ConfirmsTruly
  <2>4. PutAction(p, r, saved)
    BY <2>1
  <2>. HIDE DEF r
  <2>. QED BY <1>0, <2>2, <2>3, <2>4, PutSteps
<1>5. CASE RecordAnswer(p)
  <2>. DEFINE s == StatusFor(job[p].outcome)
              r == [Current(p) EXCEPT !.status = s, !.id = job[p].id]
  <2>1. PICK saved \in MaySave : PutAction(p, r, saved) /\ ((Goto(p, "project") /\ UNCHANGED job) \/ Done(p))
    BY <1>5 DEF RecordAnswer
  <2>2. s \in {"SENT", "DELIVERY_UNCERTAIN", "FAILED"}
    BY DEF StatusFor
  <2>3. pc[p] # "checking" /\ UNCHANGED <<audit, attempts, wire, crashes>>
    BY <1>5 DEF RecordAnswer
  <2>. HIDE DEF s
  <2>4. r \in ActionRecords /\ r.status = s /\ r.used = Current(p).used /\ r.draft = Current(p).draft
        /\ r.text = Current(p).text
    BY <1>1, <2>2 DEF ActionRecords, Statuses, Transported, Jobs
  <2>. HIDE DEF r
  <2>5. Moves(Current(p), r) /\ ConfirmsTruly(job[p].action, Current(p), r) /\ r.status # "ABSENT"
    BY <1>2, <2>2, <2>3, <2>4 DEF Moves, ConfirmsTruly, Active
  <2>. QED BY <1>0, <2>1, <2>3, <2>4, <2>5, PutSteps DEF Steps
<1>6. CASE Reserve(p)
  <2>. DEFINE r == Reserved(Current(p))
  <2>1. PICK saved \in MaySave : PutAction(p, r, saved) /\ ((Goto(p, "reserved") /\ UNCHANGED job) \/ Done(p))
    BY <1>6 DEF Reserve, MaySave
  <2>2. UNCHANGED <<audit, attempts, wire, crashes>> /\ Sendable(Current(p))
    BY <1>6 DEF Reserve
  <2>3. r \in ActionRecords /\ Moves(Current(p), r) /\ ConfirmsTruly(job[p].action, Current(p), r)
        /\ r.status # "ABSENT"
    BY <1>1, <2>2 DEF Reserved, ActionRecords, Statuses, Moves, ConfirmsTruly, Active, Sendable
  <2>. HIDE DEF r
  <2>. QED BY <1>0, <2>1, <2>2, <2>3, PutSteps DEF Steps
<1>7. CASE Confirm(p)
  <2>1. PICK found \in MayFind(p), saved \in MaySave :
          PutAction(p, [Current(p) EXCEPT !.status = AfterRead(Current(p), found)], saved)
    BY <1>7 DEF Confirm
  <2>2. pc[p] # "checking" /\ Done(p) /\ UNCHANGED <<audit, attempts, wire, crashes>>
    BY <1>7 DEF Confirm
  <2>. DEFINE s == AfterRead(Current(p), found)
              r == [Current(p) EXCEPT !.status = s]
  <2>3. /\ s \in Statuses \ {"ABSENT"}
        /\ s \in {"APPROVED", "SENDING"} => s = Current(p).status
        /\ s = "DELIVERY_CONFIRMED" => Current(p).status = "DELIVERY_CONFIRMED" \/ wire[job[p].action].delivered > 0
    BY <1>1, <1>2, <2>2 DEF AfterRead, ActionRecords, Statuses, Transported, MayFind
  <2>4. r \in ActionRecords /\ r.status = s /\ r.used = Current(p).used /\ r.draft = Current(p).draft
        /\ r.text = Current(p).text
    BY <1>1, <2>3, WithStatus
  <2>5. PutAction(p, r, saved)
    BY <2>1
  <2>. HIDE DEF r, s
  <2>6. Moves(Current(p), r) /\ ConfirmsTruly(job[p].action, Current(p), r)
    BY <1>2, <2>2, <2>3, <2>4 DEF Moves, ConfirmsTruly, Active
  <2>. QED BY <1>0, <2>2, <2>4, <2>5, <2>6, PutSteps
<1>. QED BY <1>3, <1>4, <1>5, <1>6, <1>7

LEMMA ProjectSteps ==
  ASSUME Typed, NEW p \in Procs, Project(p)
  PROVE  Writes(p) /\ Typed'
<1>. DEFINE a == job[p].action
            r == [Current(p) EXCEPT !.status = "SENT"]
            now == [mem[p].actions EXCEPT ![a] = r]
            drafts == [mem[p].drafts EXCEPT ![Current(p).draft].status = "SENT"]
            view == [mem[p] EXCEPT !.actions[a].status = "SENT", !.drafts[Current(p).draft].status = "SENT"]
<1>1. /\ pc[p] = "project" /\ UNCHANGED <<audit, attempts, wire, crashes>>
      /\ a \in Actions /\ Current(p) \in ActionRecords /\ Current(p).status # "ABSENT"
  BY CurrentTyped DEF Project, Typed, InHand
<1>2. mem[p] \in Views /\ mem[p].actions \in [Actions -> ActionRecords] /\ mem[p].drafts \in [Drafts -> DraftRecords]
  BY ViewParts DEF Typed, StoreTyped
<1>3. r \in ActionRecords /\ Moves(Current(p), r) /\ ConfirmsTruly(a, Current(p), r) /\ r.status # "ABSENT"
  BY <1>1, ComesToRest DEF Statuses, Transported, ConfirmsTruly
<1>4. CASE \E saved \in SUBSET Files : Keep(p, view, saved, changed[p]) /\ Goto(p, "confirm") /\ UNCHANGED job
  <2>1. PICK saved \in SUBSET Files : Keep(p, view, saved, changed[p]) /\ Goto(p, "confirm") /\ UNCHANGED job
    BY <1>4
  <2>2. view = [mem[p] EXCEPT !.actions = now, !.drafts = drafts]
    BY <1>2 DEF Current, Views, Files
  <2>. HIDE DEF r, view
  <2>3. now \in [Actions -> ActionRecords] /\ now[a] = r /\ Advances(mem[p].actions, now)
    BY <1>1, <1>2, <1>3 DEF Advances, Moves, ConfirmsTruly, Current
  <2>4. drafts \in [Drafts -> DraftRecords]
    BY <1>2 DEF DraftRecords
  <2>. HIDE DEF now, drafts
  <2>5. view \in Views /\ view.actions = now
    BY <1>2, <2>2, <2>3, <2>4 DEF Views, Files
  <2>6. /\ pc' \in [Procs -> Steps] /\ job' \in [Procs -> Jobs] /\ CountsTyped' /\ job'[p].action = a
        /\ changed[p] \in SUBSET Files /\ \A q \in Procs \ {p} : pc'[q] = pc[q] /\ job'[q] = job[q]
    BY <1>1, <2>1 DEF Typed, StoreTyped, OwnTyped, CountsTyped, Goto, Steps
  <2>. QED BY <1>1, <1>3, <2>1, <2>3, <2>5, <2>6, AdvanceSteps
<1>5. CASE \E saved \in MaySave :
             PutAction(p, [Current(p) EXCEPT !.status = "MANUAL_REVIEW"], saved) /\ Done(p)
  <2>. DEFINE q == [Current(p) EXCEPT !.status = "MANUAL_REVIEW"]
  <2>1. q \in ActionRecords /\ Moves(Current(p), q) /\ ConfirmsTruly(a, Current(p), q)
    BY <1>1, ComesToRest DEF Statuses, Transported, ConfirmsTruly
  <2>2. PICK saved \in MaySave : PutAction(p, q, saved) /\ Done(p)
    BY <1>5
  <2>. HIDE DEF q
  <2>. QED BY <1>1, <2>1, <2>2, PutSteps
<1>. QED BY <1>4, <1>5 DEF Project

(* A step that leaves the files and the memories alone.                    *)
LEMMA StoreRests ==
  ASSUME Typed, UNCHANGED store, CountsTyped', pc' \in [Procs -> Steps], job' \in [Procs -> Jobs],
         \A p \in Procs : pc'[p] # "idle" => pc[p] # "idle" /\ job'[p].action = job[p].action
                                             /\ (pc'[p] # "checking" => pc[p] # "checking")
  PROVE  Typed'
BY DEF Typed, StoreTyped, OwnTyped, InHand, Current, store

(* One more event of an action is one more event.                          *)
LEMMA OneMore ==
  ASSUME NEW counts \in [Actions -> Nat], IsFiniteSet(Numbered(counts)), NEW a \in Actions
  PROVE  LET more == [counts EXCEPT ![a] = counts[a] + 1] IN
         /\ more \in [Actions -> Nat]
         /\ IsFiniteSet(Numbered(more))
         /\ Total(more) = Total(counts) + 1
<1>. DEFINE more == [counts EXCEPT ![a] = counts[a] + 1]
            event == <<a, counts[a] + 1>>
<1>1. Numbered(more) = Numbered(counts) \cup {event}
  <2>1. \A b, n : <<b, n>> \in Numbered(counts) <=> b \in Actions /\ n \in 1..counts[b]
    BY DEF Numbered
  <2>2. \A b, n : <<b, n>> \in Numbered(more) <=> b \in Actions /\ n \in 1..more[b]
    BY DEF Numbered
  <2>3. ASSUME NEW b \in Actions, NEW n
        PROVE  n \in 1..more[b] <=> n \in 1..counts[b] \/ (b = a /\ n = counts[a] + 1)
    <3>1. counts[a] \in Nat /\ more[a] = counts[a] + 1 /\ (b # a => more[b] = counts[b])
      OBVIOUS
    <3>. QED BY <3>1
  <2>4. \A e \in Numbered(more) \cup Numbered(counts) \cup {event} : e = <<e[1], e[2]>>
    BY DEF Numbered
  <2>5. \A b, n : <<b, n>> = event <=> b = a /\ n = counts[a] + 1
    OBVIOUS
  <2>. HIDE DEF more, event
  <2>6. \A b, n : <<b, n>> \in Numbered(more) <=> <<b, n>> \in Numbered(counts) \cup {event}
    BY <2>1, <2>2, <2>3, <2>5
  <2>. QED BY <2>4, <2>6
<1>2. event \notin Numbered(counts)
  BY DEF Numbered
<1>3. more \in [Actions -> Nat]
  OBVIOUS
<1>. HIDE DEF more, event
<1>4. IsFiniteSet(Numbered(more)) /\ Cardinality(Numbered(more)) = Cardinality(Numbered(counts)) + 1
  BY <1>1, <1>2, FS_AddElement
<1>5. Total(more) = Total(counts) + 1
  BY <1>4 DEF Total
<1>. QED BY <1>3, <1>4, <1>5 DEF more

LEMMA SendRefusedSteps ==
  ASSUME Typed, NEW p \in Procs, SendRefused(p)
  PROVE  Typed'
<1>1. UNCHANGED store /\ CountsTyped' /\ pc' \in [Procs -> Steps] /\ job' \in [Procs -> Jobs]
  BY NoJobTyped DEF SendRefused, Done, Goto, Typed, CountsTyped, OwnTyped, Steps
<1>. QED BY <1>1, StoreRests DEF SendRefused, Done, Goto, Typed, OwnTyped

LEMMA AuditSendSteps ==
  ASSUME Typed, NEW p \in Procs, AuditSend(p)
  PROVE  Typed'
<1>1. job[p].action \in Actions /\ pc[p] = "reserved"
  BY DEF AuditSend, Typed, InHand
<1>2. audit' = [audit EXCEPT ![job[p].action] = audit[job[p].action] + 1]
  BY DEF AuditSend, AppendSendStarted
<1>3. CountsTyped'
  <2>1. audit \in [Actions -> Nat] /\ IsFiniteSet(Numbered(audit))
    BY DEF Typed, CountsTyped
  <2>2. audit' \in [Actions -> Nat] /\ IsFiniteSet(Numbered(audit'))
    BY <1>1, <1>2, <2>1, OneMore
  <2>. QED BY <2>2 DEF Typed, CountsTyped, AuditSend
<1>4. UNCHANGED store /\ pc' \in [Procs -> Steps] /\ UNCHANGED job /\ job \in [Procs -> Jobs]
      /\ \A q \in Procs : pc'[q] # "idle" => pc[q] # "idle" /\ (pc'[q] # "checking" => pc[q] # "checking")
  BY <1>1 DEF AuditSend, Goto, Typed, OwnTyped, Steps
<1>. QED BY <1>3, <1>4, StoreRests

LEMMA WireSteps ==
  ASSUME Typed, NEW p \in Procs, Dispatch(p) \/ DispatchNotSent(p) \/ Answer(p)
  PROVE  Typed'
<1>1. job[p].action \in Actions /\ job[p] \in Jobs /\ UNCHANGED store
  BY DEF Dispatch, DispatchNotSent, Answer, Typed, InHand, OwnTyped
<1>2. pc' \in [Procs -> Steps] /\ \A q \in Procs :
        pc'[q] # "idle" => pc[q] # "idle" /\ (pc'[q] # "checking" => pc[q] # "checking")
  BY DEF Dispatch, DispatchNotSent, Answer, Goto, Typed, OwnTyped, Steps
<1>3. CountsTyped'
  <2>1. CASE Dispatch(p)
    BY <1>1, <2>1 DEF Dispatch, Typed, CountsTyped
  <2>2. CASE DispatchNotSent(p) \/ Answer(p)
    BY <2>2 DEF DispatchNotSent, Answer, Typed, CountsTyped
  <2>. QED BY <2>1, <2>2
<1>4. job' \in [Procs -> Jobs] /\ \A q \in Procs : job'[q].action = job[q].action
  <2>1. CASE Dispatch(p)
    BY <2>1 DEF Dispatch, Typed, OwnTyped
  <2>2. CASE DispatchNotSent(p)
    <3>. DEFINE j == [job[p] EXCEPT !.outcome = "NOT_SENT"]
    <3>1. j \in Jobs /\ j.action = job[p].action /\ job' = [job EXCEPT ![p] = j]
      BY <1>1, <2>2 DEF DispatchNotSent, Jobs, Outcomes
    <3>. HIDE DEF j
    <3>. QED BY <3>1 DEF Typed, OwnTyped
  <2>3. CASE Answer(p)
    <3>1. PICK o \in AnswersFor(job[p].action), id \in BOOLEAN : job' = [job EXCEPT ![p].outcome = o, ![p].id = id]
      BY <2>3 DEF Answer
    <3>. DEFINE j == [job[p] EXCEPT !.outcome = o, !.id = id]
    <3>2. o \in Outcomes
      BY DEF AnswersFor, Outcomes
    <3>3. j \in Jobs /\ j.action = job[p].action /\ job' = [job EXCEPT ![p] = j]
      BY <1>1, <3>1, <3>2 DEF Jobs
    <3>. HIDE DEF j
    <3>. QED BY <3>3 DEF Typed, OwnTyped
  <2>. QED BY <2>1, <2>2, <2>3
<1>. QED BY <1>1, <1>2, <1>3, <1>4, StoreRests

LEMMA OnTheWire ==
  ASSUME NEW x \in [posts : Nat, inflight : Nat, delivered : Nat], NEW i \in Nat, NEW d \in Nat
  PROVE  LET w == [x EXCEPT !.inflight = i, !.delivered = d] IN
         w \in [posts : Nat, inflight : Nat, delivered : Nat] /\ w.posts = x.posts /\ w.delivered = d
OBVIOUS

LEMMA WorldSteps ==
  ASSUME Typed, NEW a \in Actions, Deliver(a) \/ Lose(a)
  PROVE  Typed' /\ wire'[a].posts = wire[a].posts /\ wire'[a].delivered >= wire[a].delivered
         /\ \A b \in Actions \ {a} : wire'[b] = wire[b]
<1>1. UNCHANGED <<store, pc, job>>
  BY DEF Deliver, Lose
<1>2. wire[a] \in [posts : Nat, inflight : Nat, delivered : Nat] /\ wire[a].inflight > 0
  BY DEF Deliver, Lose, Typed, CountsTyped
<1>3. \E w \in [posts : Nat, inflight : Nat, delivered : Nat] :
        wire' = [wire EXCEPT ![a] = w] /\ w.posts = wire[a].posts /\ w.delivered >= wire[a].delivered
  <2>1. CASE Deliver(a)
    <3>. DEFINE w == [wire[a] EXCEPT !.inflight = @ - 1, !.delivered = @ + 1]
    <3>1. wire' = [wire EXCEPT ![a] = w]
      BY <2>1 DEF Deliver
    <3>2. w \in [posts : Nat, inflight : Nat, delivered : Nat] /\ w.posts = wire[a].posts /\ w.delivered >= wire[a].delivered
      <4>1. /\ wire[a].inflight \in Nat /\ wire[a].inflight - 1 \in Nat
            /\ wire[a].delivered \in Nat /\ wire[a].delivered + 1 \in Nat
        BY <1>2
      <4>2. w \in [posts : Nat, inflight : Nat, delivered : Nat] /\ w.posts = wire[a].posts
            /\ w.delivered = wire[a].delivered + 1
        BY <1>2, <4>1, OnTheWire
      <4>. QED BY <4>1, <4>2
    <3>. QED BY <3>1, <3>2
  <2>2. CASE Lose(a)
    <3>. DEFINE w == [wire[a] EXCEPT !.inflight = @ - 1]
    <3>1. wire' = [wire EXCEPT ![a] = w]
      BY <2>2 DEF Lose
    <3>2. w \in [posts : Nat, inflight : Nat, delivered : Nat] /\ w.posts = wire[a].posts /\ w.delivered >= wire[a].delivered
      BY <1>2
    <3>. QED BY <3>1, <3>2
  <2>. QED BY <2>1, <2>2
<1>4. CountsTyped' /\ wire'[a].posts = wire[a].posts /\ wire'[a].delivered >= wire[a].delivered
      /\ \A b \in Actions \ {a} : wire'[b] = wire[b]
  BY <1>3 DEF Deliver, Lose, Typed, CountsTyped
<1>5. pc' \in [Procs -> Steps] /\ job' \in [Procs -> Jobs]
  BY <1>1 DEF Typed, OwnTyped
<1>. QED BY <1>1, <1>4, <1>5, StoreRests

LEMMA RestartSteps ==
  ASSUME Typed, NEW p \in Procs, Restart(p)
  PROVE  Writes(p) /\ Typed'
<1>1. Keep(p, disk, {}, {}) /\ disk \in Views
  BY DEF Restart, Typed, StoreTyped
<1>2. /\ pc' \in [Procs -> Steps] /\ job' \in [Procs -> Jobs] /\ CountsTyped' /\ pc'[p] = "idle"
      /\ \A q \in Procs \ {p} : pc'[q] = pc[q] /\ job'[q] = job[q]
  BY NoJobTyped DEF Restart, Typed, OwnTyped, CountsTyped, Done, Goto, Steps
<1>. QED BY <1>1, <1>2, NothingMoves, AdvanceSteps

LEMMA InitTyped == Init => Typed
<1>. SUFFICES ASSUME Init
              PROVE  Typed
  OBVIOUS
<1>1. Absent \in ActionRecords /\ [status |-> "GENERATED", text |-> 0] \in DraftRecords
  BY WriteBoundsAssumption DEF Absent, ActionRecords, Statuses, DraftRecords
<1>. DEFINE actions == [a \in Actions |-> Absent]
            drafts == [d \in Drafts |-> [status |-> "GENERATED", text |-> 0]]
<1>2. actions \in [Actions -> ActionRecords] /\ drafts \in [Drafts -> DraftRecords]
  BY <1>1
<1>. HIDE DEF actions, drafts
<1>3. disk = [f \in Files |-> IF f = "actions" THEN actions ELSE drafts]
  BY DEF Init, actions, drafts
<1>4. disk \in Views
  BY <1>2, <1>3 DEF Views, Files
<1>5. StoreTyped
  BY <1>4 DEF Init, StoreTyped
<1>6. OwnTyped /\ \A p \in Procs : InHand(p)
  BY NoJobTyped DEF Init, OwnTyped, InHand, Steps
<1>7. Numbered(audit) = {}
  BY DEF Init, Numbered
<1>8. CountsTyped
  BY <1>7, FS_EmptySet DEF Init, CountsTyped
<1>. QED BY <1>5, <1>6, <1>8 DEF Typed

(* Every step keeps the types, and writes as a process may, if at all.     *)
LEMMA EveryStep ==
  ASSUME Typed, [Next]_vars
  PROVE  Typed' /\ (UNCHANGED store \/ \E p \in Procs : Writes(p))
<1>. USE DEF Procs
<1>1. CASE UNCHANGED vars
  <2>1. UNCHANGED <<disk, mem, changed, audit, attempts, wire, pc, job, crashes>>
    BY <1>1 DEF vars
  <2>. QED BY <2>1 DEF store, Typed, StoreTyped, OwnTyped, CountsTyped, InHand, Current
<1>2. ASSUME NEW p \in Gateways, Operate(p)
      PROVE  Writes(p) /\ Typed'
  BY <1>2, EditSteps, ApproveSteps, InvalidateSteps, CancelSteps, StartSteps DEF Operate
<1>3. ASSUME NEW p \in Gateways, Send(p)
      PROVE  Typed' /\ (UNCHANGED store \/ Writes(p))
  BY <1>3, StartSteps, PutActionSteps, ProjectSteps, SendRefusedSteps, AuditSendSteps, WireSteps
     DEF Send, SendRefused, AuditSend, Dispatch, DispatchNotSent, Answer
<1>4. ASSUME NEW p \in Procs, Restart(p) \/ PreflightEnd(p) \/ Confirm(p) \/ \E a \in Actions : PreflightStart(p, a)
      PROVE  Writes(p) /\ Typed'
  BY <1>4, RestartSteps, PutActionSteps, StartSteps
<1>5. ASSUME NEW a \in Actions, Deliver(a) \/ Lose(a)
      PROVE  Typed' /\ UNCHANGED store
  BY <1>5, WorldSteps DEF Deliver, Lose
<1>. QED BY <1>1, <1>2, <1>3, <1>4, <1>5 DEF Next

LEMMA TypedAlways == Spec => []Typed
<1>1. Typed /\ [Next]_vars => Typed'
  BY EveryStep
<1>. QED BY <1>1, InitTyped, PTL DEF Spec

(* Files, memories, jobs and counters keep their types, for any processes, *)
(* drafts and bounds (TypeOK).                                             *)
THEOREM TypeCorrect == Spec => []TypeOK
BY TypedAlways, TypedIsTypeOK, PTL

-----------------------------------------------------------------------------
(* What every copy of the actions says.                                    *)

(* One approval waits or is being sent, and what is confirmed is at hh.ru. *)
Sound(known, hh) ==
  /\ \A a \in Actions : known[a].status = "ABSENT" => known[a] = Absent
  /\ \A a, b \in Actions : Active(known[a]) /\ Active(known[b]) => a = b
  /\ \A a \in Actions : known[a].status = "DELIVERY_CONFIRMED" => hh[a].delivered > 0

CopiesSound == Sound(disk.actions, wire) /\ \A p \in Procs : Sound(mem[p].actions, wire)

(* What moves is active only if it was.                                    *)
LEMMA MovesFrom ==
  ASSUME NEW r, NEW s, Moves(r, s)
  PROVE  /\ Active(s) => Active(r)
         /\ s.status = "ABSENT" => s = r
BY DEF Moves

LEMMA AdvancedIsSound ==
  ASSUME NEW known, NEW now, Sound(known, wire), Advances(known, now) \/ Approves(known, now)
  PROVE  Sound(now, wire)
<1>1. CASE Advances(known, now)
  <2>1. \A a \in Actions : /\ Active(now[a]) => Active(known[a])
                           /\ now[a].status = "ABSENT" => now[a] = known[a]
                           /\ ConfirmsTruly(a, known[a], now[a])
    BY <1>1, MovesFrom DEF Advances
  <2>. QED BY <2>1 DEF Sound, ConfirmsTruly
<1>2. CASE Approves(known, now)
  <2>1. PICK c \in Actions, d \in Drafts, t \in 0..MaxTexts :
          /\ now[c] = Approved(d, t)
          /\ \A b \in Actions \ {c} :
               Moves(known[b], now[b]) /\ ConfirmsTruly(b, known[b], now[b]) /\ ~Active(now[b])
    BY <1>2 DEF Approves
  <2>2. now[c].status = "APPROVED"
    BY <2>1 DEF Approved
  <2>3. \A b \in Actions \ {c} : /\ ~Active(now[b])
                                 /\ now[b].status = "ABSENT" => now[b] = known[b]
                                 /\ ConfirmsTruly(b, known[b], now[b])
    BY <2>1, MovesFrom
  <2>. QED BY <2>2, <2>3 DEF Sound, ConfirmsTruly
<1>. QED BY <1>1, <1>2

(* The operator's requests change nothing but files and memory.            *)
Requests(p) ==
  \/ \E d \in Drafts : EditDraft(p, d) \/ \E a \in Actions : ApproveDraft(p, d, a)
  \/ InvalidateConversationApprovals(p)
  \/ \E a \in Actions : Cancel(p, a)

LEMMA RequestFrame ==
  ASSUME NEW p \in Procs, Requests(p)
  PROVE  pc[p] = "idle" /\ UNCHANGED <<audit, attempts, wire, pc, job, crashes>>
<1>1. ASSUME pc[p] = "idle", \E view, saved : Request(p, view, saved)
      PROVE  pc[p] = "idle" /\ UNCHANGED <<audit, attempts, wire, pc, job, crashes>>
  BY <1>1 DEF Request
<1>2. ASSUME NEW d \in Drafts, EditDraft(p, d)
      PROVE  pc[p] = "idle" /\ \E view, saved : Request(p, view, saved)
  BY <1>2 DEF EditDraft
<1>3. ASSUME NEW d \in Drafts, NEW a \in Actions, ApproveDraft(p, d, a)
      PROVE  pc[p] = "idle" /\ \E view, saved : Request(p, view, saved)
  BY <1>3 DEF ApproveDraft
<1>4. CASE InvalidateConversationApprovals(p)
  BY <1>1, <1>4 DEF InvalidateConversationApprovals
<1>5. ASSUME NEW a \in Actions, Cancel(p, a)
      PROVE  pc[p] = "idle" /\ \E view, saved : Request(p, view, saved)
  BY <1>5 DEF Cancel
<1>. QED BY <1>1, <1>2, <1>3, <1>4, <1>5 DEF Requests

(* The steps that change neither the audit nor hh.ru.                      *)
Takes(p) == \E a \in Actions : PreflightStart(p, a) \/ SendStart(p, a) \/ ReconcileDelivery(p, a)
Settles(p) ==
  \/ PreflightEnd(p) \/ SendBlocked(p) \/ SendRefused(p) \/ Reserve(p) \/ AuditFails(p) \/ DispatchNotSent(p)
  \/ Answer(p) \/ RecordAnswer(p) \/ Project(p) \/ Confirm(p) \/ Restart(p)

LEMMA NextCases ==
  ASSUME [Next]_vars
  PROVE  \/ UNCHANGED vars
         \/ \E p \in Gateways : Requests(p) \/ AuditSend(p) \/ Dispatch(p)
         \/ \E p \in Procs : Takes(p) \/ Settles(p)
         \/ \E a \in Actions : Deliver(a) \/ Lose(a)
BY DEF Next, Operate, Send, Requests, Takes, Settles, Procs

LEMMA QuietFrame ==
  ASSUME NEW p \in Procs, Takes(p) \/ Settles(p)
  PROVE  UNCHANGED <<audit, wire>>
<1>1. CASE Takes(p)
  BY <1>1 DEF Takes, PreflightStart, SendStart, ReconcileDelivery
<1>2. CASE Settles(p)
  BY <1>2 DEF Settles, PreflightEnd, SendBlocked, SendRefused, Reserve, AuditFails, DispatchNotSent,
              Answer, RecordAnswer, Project, Confirm, Restart
<1>. QED BY <1>1, <1>2

(* A delivered message stays delivered, and a POST that was sent was sent. *)
LEMMA WireGrows ==
  ASSUME Typed, [Next]_vars
  PROVE  /\ \A a \in Actions : wire[a].delivered > 0 => wire'[a].delivered > 0
         /\ ~(\E p \in Gateways : Dispatch(p)) => \A a \in Actions : wire'[a].posts = wire[a].posts
<1>1. \A a \in Actions : wire[a].delivered \in Nat
  BY DEF Typed, CountsTyped
<1>2. ASSUME NEW a \in Actions, Deliver(a) \/ Lose(a)
      PROVE  \A b \in Actions : (wire[b].delivered > 0 => wire'[b].delivered > 0) /\ wire'[b].posts = wire[b].posts
  <2>1. wire'[a].delivered >= wire[a].delivered /\ wire'[a].delivered \in Nat
        /\ wire'[a].posts = wire[a].posts /\ \A b \in Actions \ {a} : wire'[b] = wire[b]
    BY <1>2, WorldSteps DEF Typed, CountsTyped
  <2>. QED BY <1>1, <2>1
<1>3. ASSUME NEW p \in Gateways, Dispatch(p)
      PROVE  \A b \in Actions : wire'[b].delivered = wire[b].delivered
  BY <1>3 DEF Dispatch, Typed, CountsTyped
<1>4. UNCHANGED wire \/ (\E p \in Gateways : Dispatch(p)) \/ \E a \in Actions : Deliver(a) \/ Lose(a)
  BY NextCases, RequestFrame, QuietFrame DEF vars, AuditSend, Procs
<1>. QED BY <1>2, <1>3, <1>4

LEMMA SoundAlways == Spec => []CopiesSound
<1>1. Init => CopiesSound
  BY DEF Init, CopiesSound, Sound, Absent, Active, Files
<1>2. Typed /\ CopiesSound /\ [Next]_vars => CopiesSound'
  <2>. SUFFICES ASSUME Typed, CopiesSound, [Next]_vars
                PROVE  CopiesSound'
    OBVIOUS
  <2>1. ASSUME NEW known, Sound(known, wire)
        PROVE  Sound(known, wire')
    BY <2>1, WireGrows DEF Sound
  <2>2. CASE UNCHANGED store
    BY <2>1, <2>2 DEF CopiesSound, store
  <2>3. ASSUME NEW p \in Procs, Writes(p)
        PROVE  CopiesSound'
    <3>1. PICK view \in Views, saved \in SUBSET Files, stale \in SUBSET Files, known \in {disk.actions, mem[p].actions} :
            Keep(p, view, saved, stale) /\ (Advances(known, view.actions) \/ Approves(known, view.actions))
      BY <2>3 DEF Writes
    <3>2. Sound(view.actions, wire')
      BY <2>1, <3>1, AdvancedIsSound DEF CopiesSound
    <3>3. /\ mem'[p] = view /\ \A q \in Procs \ {p} : mem'[q] = mem[q]
          /\ disk'.actions \in {view.actions, disk.actions}
      BY <3>1, KeptView DEF Typed
    <3>4. Sound(disk.actions, wire') /\ \A q \in Procs : Sound(mem[q].actions, wire')
      BY <2>1 DEF CopiesSound
    <3>. QED BY <3>2, <3>3, <3>4 DEF CopiesSound
  <2>. QED BY <2>2, <2>3, EveryStep
<1>. QED BY <1>1, <1>2, TypedAlways, PTL DEF Spec

(* However many dashboards and commands save their copies over each        *)
(* other's, the file never holds two approvals that wait or are being sent *)
(* (OneActiveApproval).                                                    *)
THEOREM OneActiveApprovalAlways == Spec => []OneActiveApproval
<1>1. CopiesSound => OneActiveApproval
  BY DEF CopiesSound, Sound, OneActiveApproval
<1>. QED BY <1>1, SoundAlways, PTL

(* Whichever process reads and whichever save survives, a delivery is only *)
(* called confirmed when hh.ru holds the message (ConfirmedIsDelivered).   *)
THEOREM ConfirmedIsDeliveredAlways == Spec => []ConfirmedIsDelivered
<1>1. CopiesSound => ConfirmedIsDelivered
  BY DEF CopiesSound, Sound, ConfirmedIsDelivered
<1>. QED BY <1>1, SoundAlways, PTL

-----------------------------------------------------------------------------
(* The audit and the limits.                                               *)

(* Those that have announced a POST of an action and not sent it.          *)
Announced(a) == {p \in Gateways : pc[p] = "dispatch" /\ job[p].action = a}

(* Every POST, sent or about to be sent, has its event.                    *)
AllAnnounced ==
  \A a \in Actions : IsFiniteSet(Announced(a)) /\ wire[a].posts + Cardinality(Announced(a)) <= audit[a]

(* A reservation was made within the limits.                               *)
Allowed == \A p \in Gateways : pc[p] = "reserved" => LimitsLeft(p)

(* Dashboards that still may send by their own, perhaps old, count.        *)
Pending == {p \in Gateways : pc[p] \in {"preflight", "reserved"} /\ job[p].counted < MaxWritesPerDay}
WithinDay == Total(audit) + Cardinality(Pending) < MaxWritesPerDay + Cardinality(Gateways)

(* Where the steps of a process lead it.                                   *)
LEMMA OwnStep ==
  ASSUME Typed, NEW p \in Procs, Takes(p) \/ Settles(p)
  PROVE  /\ \A q \in Procs \ {p} : pc'[q] = pc[q] /\ job'[q] = job[q]
         /\ pc'[p] # "dispatch"
         /\ pc'[p] = "reserved" => Reserve(p) /\ job'[p] = job[p]
         /\ pc'[p] = "preflight" => job'[p].counted = Total(audit)
         /\ UNCHANGED attempts \/ (attempts' = [attempts EXCEPT ![p] = 0] /\ pc'[p] = "idle")
<1>0. pc \in [Procs -> Steps] /\ job \in [Procs -> Jobs]
  BY DEF Typed, OwnTyped
<1>1. CASE Takes(p)
  <2>1. PICK a \in Actions : PreflightStart(p, a) \/ SendStart(p, a) \/ ReconcileDelivery(p, a)
    BY <1>1 DEF Takes
  <2>2. CASE PreflightStart(p, a) \/ ReconcileDelivery(p, a)
    BY <1>0, <2>2 DEF PreflightStart, ReconcileDelivery, Goto
  <2>3. CASE SendStart(p, a)
    <3>. DEFINE j == [NoJob EXCEPT !.action = a, !.counted = Total(audit)]
    <3>1. j.counted = Total(audit) /\ job' = [job EXCEPT ![p] = j]
      BY <2>3 DEF SendStart, NoJob
    <3>. HIDE DEF j
    <3>. QED BY <1>0, <2>3, <3>1 DEF SendStart, Goto
  <2>. QED BY <2>1, <2>2, <2>3
<1>2. CASE Settles(p)
  BY <1>0, <1>2 DEF Settles, PreflightEnd, SendBlocked, SendRefused, Reserve, AuditFails, DispatchNotSent,
                    Answer, RecordAnswer, Project, Confirm, Restart, Done, Goto
<1>. QED BY <1>1, <1>2

LEMMA AuditSendStep ==
  ASSUME Typed, NEW p \in Gateways, AuditSend(p)
  PROVE  /\ pc[p] = "reserved" /\ pc'[p] = "dispatch" /\ UNCHANGED <<wire, job>> /\ job[p].action \in Actions
         /\ \A q \in Procs \ {p} : pc'[q] = pc[q]
         /\ audit' = [audit EXCEPT ![job[p].action] = audit[job[p].action] + 1]
         /\ attempts' = [attempts EXCEPT ![p] = attempts[p] + 1]
         /\ Total(audit') = Total(audit) + 1
<1>1. /\ pc[p] = "reserved" /\ pc'[p] = "dispatch" /\ UNCHANGED <<wire, job>> /\ job[p].action \in Actions
      /\ \A q \in Procs \ {p} : pc'[q] = pc[q]
      /\ audit' = [audit EXCEPT ![job[p].action] = audit[job[p].action] + 1]
      /\ attempts' = [attempts EXCEPT ![p] = attempts[p] + 1]
  BY DEF AuditSend, AppendSendStarted, Goto, Typed, OwnTyped, InHand, Procs
<1>2. Total(audit') = Total(audit) + 1
  BY <1>1, OneMore DEF Typed, CountsTyped
<1>. QED BY <1>1, <1>2

LEMMA DispatchStep ==
  ASSUME Typed, NEW p \in Gateways, Dispatch(p)
  PROVE  /\ pc[p] = "dispatch" /\ pc'[p] = "waiting" /\ UNCHANGED <<audit, attempts, job, store>>
         /\ job[p].action \in Actions
         /\ \A q \in Procs \ {p} : pc'[q] = pc[q]
         /\ wire'[job[p].action].posts = wire[job[p].action].posts + 1
         /\ \A b \in Actions \ {job[p].action} : wire'[b] = wire[b]
BY DEF Dispatch, Goto, Typed, OwnTyped, CountsTyped, InHand, Procs

LEMMA AnnouncedInit == Init => AllAnnounced
<1>. SUFFICES ASSUME Init
              PROVE  AllAnnounced
  OBVIOUS
<1>1. \A a \in Actions : Announced(a) = {}
  BY DEF Init, Announced, Procs
<1>2. \A a \in Actions : wire[a].posts = 0 /\ audit[a] = 0
  BY DEF Init
<1>3. IsFiniteSet({}) /\ Cardinality({}) = 0
  BY FS_EmptySet
<1>4. ASSUME NEW a \in Actions
      PROVE  IsFiniteSet(Announced(a)) /\ wire[a].posts + Cardinality(Announced(a)) <= audit[a]
  <2>1. Announced(a) = {} /\ wire[a].posts = 0 /\ audit[a] = 0
    BY <1>1, <1>2
  <2>. HIDE DEF Announced
  <2>. QED BY <1>3, <2>1
<1>. QED BY <1>4 DEF AllAnnounced

LEMMA AnnouncedNext ==
  ASSUME Typed, AllAnnounced, [Next]_vars
  PROVE  AllAnnounced'
<1>0. \A a \in Actions : /\ IsFiniteSet(Announced(a)) /\ Cardinality(Announced(a)) \in Nat
                         /\ wire[a].posts \in Nat /\ audit[a] \in Nat
                         /\ wire[a].posts + Cardinality(Announced(a)) <= audit[a]
  BY FS_CardinalityType DEF AllAnnounced, Typed, CountsTyped
<1>1. ASSUME UNCHANGED audit, \A a \in Actions : wire'[a].posts = wire[a].posts,
             \A a \in Actions : Announced(a)' \subseteq Announced(a)
      PROVE  AllAnnounced'
  <2>. SUFFICES ASSUME NEW a \in Actions
                PROVE  IsFiniteSet(Announced(a)') /\ wire'[a].posts + Cardinality(Announced(a)') <= audit'[a]
    BY DEF AllAnnounced
  <2>1. IsFiniteSet(Announced(a)') /\ Cardinality(Announced(a)') <= Cardinality(Announced(a))
        /\ Cardinality(Announced(a)') \in Nat
    BY <1>0, <1>1, FS_Subset, FS_CardinalityType
  <2>. QED BY <1>0, <1>1, <2>1
<1>2. CASE UNCHANGED vars
  BY <1>1, <1>2 DEF vars, Announced
<1>3. ASSUME NEW p \in Gateways, Requests(p)
      PROVE  AllAnnounced'
  BY <1>1, <1>3, RequestFrame DEF Announced, Procs
<1>4. ASSUME NEW p \in Procs, Takes(p) \/ Settles(p)
      PROVE  AllAnnounced'
  <2>1. \A a \in Actions : Announced(a)' \subseteq Announced(a)
    BY <1>4, OwnStep DEF Announced, Procs
  <2>. QED BY <1>1, <1>4, <2>1, QuietFrame
<1>5. ASSUME NEW a \in Actions, Deliver(a) \/ Lose(a)
      PROVE  AllAnnounced'
  <2>1. UNCHANGED <<audit, pc, job>>
    BY <1>5 DEF Deliver, Lose
  <2>2. \A b \in Actions : wire'[b].posts = wire[b].posts
    BY <1>5, WorldSteps
  <2>. QED BY <1>1, <2>1, <2>2 DEF Announced
<1>6. ASSUME NEW p \in Gateways, AuditSend(p)
      PROVE  AllAnnounced'
  <2>0. PICK c \in Actions : c = job[p].action
    BY <1>6, AuditSendStep
  <2>1. p \notin Announced(c) /\ Announced(c)' = Announced(c) \cup {p}
    BY <2>0, <1>6, AuditSendStep DEF Announced, Procs
  <2>2. IsFiniteSet(Announced(c)') /\ Cardinality(Announced(c)') = Cardinality(Announced(c)) + 1
    BY <1>0, <2>1, FS_AddElement
  <2>3. \A a \in Actions \ {c} : Announced(a)' = Announced(a)
    BY <2>0, <1>6, AuditSendStep DEF Announced, Procs
  <2>4. audit'[c] = audit[c] + 1 /\ \A a \in Actions \ {c} : audit'[a] = audit[a]
    BY <2>0, <1>6, AuditSendStep DEF Typed, CountsTyped
  <2>5. UNCHANGED wire /\ c \in Actions
    BY <2>0, <1>6, AuditSendStep
  <2>6. ASSUME NEW a \in Actions
        PROVE  IsFiniteSet(Announced(a)') /\ wire'[a].posts + Cardinality(Announced(a)') <= audit'[a]
    <3>1. CASE a = c
      BY <1>0, <2>2, <2>4, <2>5, <3>1
    <3>2. CASE a # c
      <4>1. Announced(a)' = Announced(a) /\ audit'[a] = audit[a] /\ wire'[a] = wire[a]
        BY <2>3, <2>4, <2>5, <3>2
      <4>. QED BY <1>0, <4>1
    <3>. QED BY <3>1, <3>2
  <2>. QED BY <2>6 DEF AllAnnounced
<1>7. ASSUME NEW p \in Gateways, Dispatch(p)
      PROVE  AllAnnounced'
  <2>0. PICK c \in Actions : c = job[p].action
    BY <1>7, DispatchStep
  <2>1. p \in Announced(c) /\ Announced(c)' = Announced(c) \ {p}
    BY <2>0, <1>7, DispatchStep DEF Announced, Procs
  <2>2. IsFiniteSet(Announced(c)') /\ Cardinality(Announced(c)') = Cardinality(Announced(c)) - 1
    BY <1>0, <2>1, FS_RemoveElement
  <2>3. \A a \in Actions \ {c} : Announced(a)' = Announced(a) /\ wire'[a] = wire[a]
    BY <2>0, <1>7, DispatchStep DEF Announced, Procs
  <2>4. wire'[c].posts = wire[c].posts + 1 /\ UNCHANGED audit /\ c \in Actions
    BY <2>0, <1>7, DispatchStep
  <2>5. ASSUME NEW a \in Actions
        PROVE  IsFiniteSet(Announced(a)') /\ wire'[a].posts + Cardinality(Announced(a)') <= audit'[a]
    <3>1. CASE a = c
      BY <1>0, <2>2, <2>4, <3>1
    <3>2. CASE a # c
      BY <1>0, <2>3, <2>4, <3>2
    <3>. QED BY <3>1, <3>2
  <2>. QED BY <2>5 DEF AllAnnounced
<1>. QED BY <1>2, <1>3, <1>4, <1>5, <1>6, <1>7, NextCases

LEMMA AnnouncedAlways == Spec => []AllAnnounced
<1>1. Typed /\ AllAnnounced /\ [Next]_vars => AllAnnounced'
  BY AnnouncedNext
<1>. QED BY <1>1, AnnouncedInit, TypedAlways, PTL DEF Spec

(* For any dashboards and commands, and however their files overwrite each *)
(* other, every POST has its durable event (EveryPostAudited).             *)
THEOREM EveryPostAuditedAlways == Spec => []EveryPostAudited
<1>1. Typed /\ AllAnnounced => EveryPostAudited
  <2>. SUFFICES ASSUME Typed, AllAnnounced, NEW a \in Actions
                PROVE  wire[a].posts <= audit[a]
    BY DEF EveryPostAudited
  <2>1. wire[a].posts \in Nat /\ audit[a] \in Nat /\ Cardinality(Announced(a)) \in Nat
    BY FS_CardinalityType DEF Typed, CountsTyped, AllAnnounced
  <2>. QED BY <2>1 DEF AllAnnounced
<1>. QED BY <1>1, AnnouncedAlways, TypedAlways, PTL

(* What a limit was checked for still holds when the event is written.     *)
LEMMA AllowedNext ==
  ASSUME Typed, Allowed, [Next]_vars
  PROVE  Allowed'
<1>. SUFFICES ASSUME NEW p \in Gateways, pc'[p] = "reserved"
              PROVE  LimitsLeft(p)'
  BY DEF Allowed
<1>0. p \in Procs /\ attempts \in [Procs -> Nat]
  BY DEF Procs, Typed, CountsTyped
<1>1. ASSUME pc'[p] = pc[p], job'[p] = job[p], attempts'[p] = attempts[p]
      PROVE  LimitsLeft(p)'
  BY <1>1 DEF Allowed, LimitsLeft
<1>2. CASE UNCHANGED vars
  BY <1>1, <1>2 DEF vars
<1>3. ASSUME NEW q \in Gateways, Requests(q)
      PROVE  LimitsLeft(p)'
  BY <1>1, <1>3, RequestFrame DEF Procs
<1>4. ASSUME NEW q \in Procs, Takes(q) \/ Settles(q)
      PROVE  LimitsLeft(p)'
  <2>1. CASE q = p
    <3>1. Reserve(p) /\ job'[p] = job[p] /\ UNCHANGED attempts
      BY <1>0, <1>4, <2>1, OwnStep
    <3>. QED BY <3>1 DEF Reserve, LimitsLeft
  <2>2. CASE q # p
    BY <1>0, <1>1, <1>4, <2>2, OwnStep
  <2>. QED BY <2>1, <2>2
<1>5. ASSUME NEW q \in Gateways, AuditSend(q)
      PROVE  LimitsLeft(p)'
  BY <1>0, <1>1, <1>5, AuditSendStep
<1>6. ASSUME NEW q \in Gateways, Dispatch(q)
      PROVE  LimitsLeft(p)'
  BY <1>0, <1>1, <1>6, DispatchStep
<1>7. ASSUME NEW a \in Actions, Deliver(a) \/ Lose(a)
      PROVE  LimitsLeft(p)'
  BY <1>1, <1>7 DEF Deliver, Lose
<1>. QED BY <1>2, <1>3, <1>4, <1>5, <1>6, <1>7, NextCases

LEMMA AllowedAlways == Spec => []Allowed
<1>1. Init => Allowed
  BY DEF Init, Allowed, Procs
<1>2. Typed /\ Allowed /\ [Next]_vars => Allowed'
  BY AllowedNext
<1>. QED BY <1>1, <1>2, TypedAlways, PTL DEF Spec

(* HH_MAX_WRITES_PER_RUN: the transports a dashboard tries between two     *)
(* starts.                                                                 *)
WithinRun == MaxWritesPerRun > 0 => \A p \in Gateways : attempts[p] <= MaxWritesPerRun

(* No dashboard ever tries more transports in a run than its limit allows, *)
(* whatever is sent beside it.                                             *)
THEOREM WithinRunAlways == Spec => []WithinRun
<1>1. Init => WithinRun
  BY WriteLimitsAssumption DEF Init, WithinRun, Procs
<1>2. Typed /\ Allowed /\ WithinRun /\ [Next]_vars => WithinRun'
  <2>. SUFFICES ASSUME Typed, Allowed, WithinRun, [Next]_vars, MaxWritesPerRun > 0, NEW p \in Gateways
                PROVE  attempts'[p] <= MaxWritesPerRun
    BY DEF WithinRun
  <2>0. p \in Procs /\ attempts \in [Procs -> Nat] /\ attempts[p] \in Nat /\ attempts[p] <= MaxWritesPerRun
        /\ MaxWritesPerRun \in Nat
    BY WriteLimitsAssumption DEF Procs, Typed, CountsTyped, WithinRun
  <2>1. CASE UNCHANGED attempts
    BY <2>0, <2>1
  <2>2. ASSUME NEW q \in Procs, Takes(q) \/ Settles(q)
        PROVE  attempts'[p] <= MaxWritesPerRun
    BY <2>0, <2>2, OwnStep
  <2>3. ASSUME NEW q \in Gateways, AuditSend(q)
        PROVE  attempts'[p] <= MaxWritesPerRun
    <3>1. pc[q] = "reserved" /\ attempts' = [attempts EXCEPT ![q] = attempts[q] + 1]
      BY <2>3, AuditSendStep
    <3>2. CASE p = q
      <4>1. attempts[p] < MaxWritesPerRun
        BY <2>0, <3>1, <3>2 DEF Allowed, LimitsLeft
      <4>. QED BY <2>0, <3>1, <3>2, <4>1
    <3>3. CASE p # q
      BY <2>0, <3>1, <3>3
    <3>. QED BY <3>2, <3>3
  <2>4. UNCHANGED attempts \/ (\E q \in Procs : Takes(q) \/ Settles(q)) \/ \E q \in Gateways : AuditSend(q)
    BY NextCases, RequestFrame, DispatchStep DEF vars, Deliver, Lose, Procs
  <2>. QED BY <2>1, <2>2, <2>3, <2>4
<1>. QED BY <1>1, <1>2, AllowedAlways, TypedAlways, PTL DEF Spec

(* A dashboard sends by a count that it took before its preflight, so those *)
(* in the middle of a send may each add one: never more than there are.     *)
LEMMA WithinDayNext ==
  ASSUME IsFiniteSet(Gateways), MaxWritesPerDay > 0, Typed, Allowed, WithinDay, [Next]_vars
  PROVE  WithinDay'
<1>0. /\ MaxWritesPerDay \in Nat /\ Cardinality(Gateways) \in Nat
      /\ Total(audit) \in Nat /\ Gateways \subseteq Procs
  BY WriteLimitsAssumption, FS_CardinalityType DEF Total, Typed, CountsTyped, Procs
<1>1. /\ IsFiniteSet(Pending) /\ Cardinality(Pending) \in Nat
      /\ IsFiniteSet(Pending') /\ Cardinality(Pending') \in Nat /\ Cardinality(Pending') <= Cardinality(Gateways)
  <2>1. Pending \subseteq Gateways /\ Pending' \subseteq Gateways
    BY DEF Pending
  <2>. QED BY <2>1, FS_Subset, FS_CardinalityType
<1>2. ASSUME UNCHANGED audit, Pending' \subseteq Pending
      PROVE  WithinDay'
  <2>1. Cardinality(Pending') <= Cardinality(Pending)
    BY <1>1, <1>2, FS_Subset
  <2>. QED BY <1>0, <1>1, <1>2, <2>1 DEF WithinDay
<1>3. ASSUME UNCHANGED audit, Total(audit) < MaxWritesPerDay
      PROVE  WithinDay'
  BY <1>0, <1>1, <1>3 DEF WithinDay
<1>4. ASSUME UNCHANGED <<audit, pc, job>>
      PROVE  WithinDay'
  BY <1>2, <1>4 DEF Pending
<1>5. ASSUME NEW p \in Procs, Takes(p) \/ Settles(p)
      PROVE  WithinDay'
  <2>1. CASE Total(audit) < MaxWritesPerDay
    BY <1>3, <1>5, <2>1, QuietFrame
  <2>2. CASE ~(Total(audit) < MaxWritesPerDay)
    <3>1. \A q \in Gateways : q \in Pending' => q \in Pending
      <4>1. \A q \in Gateways \ {p} : q \in Pending' => q \in Pending
        BY <1>0, <1>5, OwnStep DEF Pending
      <4>2. pc'[p] = "preflight" => ~(job'[p].counted < MaxWritesPerDay)
        BY <1>5, <2>2, OwnStep
      <4>3. pc'[p] = "reserved" => pc[p] = "preflight" /\ job'[p] = job[p]
        BY <1>5, OwnStep DEF Reserve
      <4>. QED BY <4>1, <4>2, <4>3 DEF Pending
    <3>2. Pending' \subseteq Pending
      BY <3>1 DEF Pending
    <3>. QED BY <1>2, <1>5, <3>2, QuietFrame
  <2>. QED BY <2>1, <2>2
<1>6. ASSUME NEW p \in Gateways, AuditSend(p)
      PROVE  WithinDay'
  <2>1. /\ pc[p] = "reserved" /\ pc'[p] = "dispatch" /\ UNCHANGED job
        /\ \A q \in Procs \ {p} : pc'[q] = pc[q]
        /\ Total(audit') = Total(audit) + 1
    BY <1>6, AuditSendStep
  <2>2. job[p].counted < MaxWritesPerDay
    BY <1>0, <2>1 DEF Allowed, LimitsLeft
  <2>3. p \in Pending /\ Pending' = Pending \ {p}
    BY <1>0, <2>1, <2>2 DEF Pending
  <2>4. Cardinality(Pending') = Cardinality(Pending) - 1
    BY <1>1, <2>3, FS_RemoveElement
  <2>5. Total(audit)' = Total(audit) + 1
    BY <2>1 DEF Total, Numbered
  <2>. QED BY <1>0, <1>1, <2>4, <2>5 DEF WithinDay
<1>7. ASSUME NEW p \in Gateways, Dispatch(p)
      PROVE  WithinDay'
  <2>1. Pending' \subseteq Pending /\ UNCHANGED audit
    BY <1>0, <1>7, DispatchStep DEF Pending
  <2>. QED BY <1>2, <2>1
<1>8. ASSUME NEW p \in Gateways, Requests(p)
      PROVE  WithinDay'
  BY <1>0, <1>4, <1>8, RequestFrame
<1>9. ASSUME UNCHANGED vars \/ \E a \in Actions : Deliver(a) \/ Lose(a)
      PROVE  WithinDay'
  BY <1>4, <1>9 DEF vars, Deliver, Lose
<1>. QED BY <1>5, <1>6, <1>7, <1>8, <1>9, NextCases

LEMMA WithinDayInit ==
  ASSUME IsFiniteSet(Gateways), MaxWritesPerDay > 0, Init
  PROVE  WithinDay
<1>1. Pending = {} /\ Numbered(audit) = {}
  BY DEF Init, Pending, Numbered, Procs
<1>2. Cardinality(Pending) = 0 /\ Total(audit) = 0
  BY <1>1, FS_EmptySet DEF Total
<1>3. Cardinality(Gateways) \in Nat /\ MaxWritesPerDay \in Nat
  BY FS_CardinalityType, WriteLimitsAssumption
<1>. QED BY <1>2, <1>3 DEF WithinDay

LEMMA PostsWithinAudit ==
  ASSUME Typed, EveryPostAudited
  PROVE  LET posts == [a \in Actions |-> wire[a].posts] IN
         Total(posts) \in Nat /\ Total(posts) <= Total(audit)
<1>. DEFINE posts == [a \in Actions |-> wire[a].posts]
<1>1. Numbered(posts) \subseteq Numbered(audit)
  <2>1. \A a \in Actions : posts[a] \in Nat /\ audit[a] \in Nat /\ posts[a] <= audit[a]
    BY DEF EveryPostAudited, Typed, CountsTyped
  <2>. HIDE DEF posts
  <2>2. \A a \in Actions : 1..posts[a] \subseteq 1..audit[a]
    BY <2>1
  <2>. QED BY <2>2 DEF Numbered
<1>2. IsFiniteSet(Numbered(audit))
  BY DEF Typed, CountsTyped
<1>. HIDE DEF posts
<1>3. /\ Cardinality(Numbered(posts)) <= Cardinality(Numbered(audit))
      /\ Cardinality(Numbered(posts)) \in Nat
  BY <1>1, <1>2, FS_Subset, FS_CardinalityType
<1>. QED BY <1>3 DEF Total, posts

(* The limit of a day, and how far several dashboards may pass it.         *)
DayOverrun ==
  MaxWritesPerDay > 0 => Total([a \in Actions |-> wire[a].posts]) < MaxWritesPerDay + Cardinality(Gateways)

(* A dashboard reads the audit once, before its preflight, and no lock     *)
(* holds it until the event is written: n dashboards pass the limit of the *)
(* day by n - 1 at most, over any number of restarts.                      *)
THEOREM DayOverrunAlways ==
  ASSUME IsFiniteSet(Gateways)
  PROVE  Spec => []DayOverrun
<1>. DEFINE Counted == MaxWritesPerDay > 0 => WithinDay
<1>1. Init => Counted
  BY WithinDayInit
<1>2. Typed /\ Allowed /\ Counted /\ [Next]_vars => Counted'
  BY WithinDayNext
<1>3. Typed /\ EveryPostAudited /\ Counted => DayOverrun
  <2>. SUFFICES ASSUME Typed, EveryPostAudited, Counted, MaxWritesPerDay > 0
                PROVE  Total([a \in Actions |-> wire[a].posts]) < MaxWritesPerDay + Cardinality(Gateways)
    BY DEF DayOverrun
  <2>1. /\ Total(audit) + Cardinality(Pending) < MaxWritesPerDay + Cardinality(Gateways)
        /\ Total(audit) \in Nat /\ Cardinality(Pending) \in Nat /\ Cardinality(Gateways) \in Nat
        /\ MaxWritesPerDay \in Nat
    <3>1. IsFiniteSet(Pending)
      BY FS_Subset DEF Pending
    <3>. QED BY <3>1, FS_CardinalityType, WriteLimitsAssumption DEF WithinDay, Total, Typed, CountsTyped
  <2>. HIDE DEF Counted
  <2>. QED BY <2>1, PostsWithinAudit
<1>. HIDE DEF Counted
<1>. QED BY <1>1, <1>2, <1>3, TypedAlways, AllowedAlways, EveryPostAuditedAlways, PTL DEF Spec

(* One dashboard never passes the limit of the day, whatever commands run  *)
(* beside it (DailyLimit).                                                 *)
THEOREM DailyLimitAlways ==
  ASSUME NEW g, Gateways = {g}
  PROVE  Spec => []DailyLimit
<1>1. IsFiniteSet(Gateways) /\ Cardinality(Gateways) = 1
  BY FS_Singleton
<1>2. DayOverrun /\ Typed /\ EveryPostAudited => DailyLimit
  BY <1>1, PostsWithinAudit, WriteLimitsAssumption DEF DayOverrun, DailyLimit
<1>. QED BY <1>1, <1>2, DayOverrunAlways, TypedAlways, EveryPostAuditedAlways, PTL

-----------------------------------------------------------------------------
(* One dashboard.  "Do not run another process that changes the same       *)
(* stores at the same time" (src/README.md:957), so the file never says    *)
(* more than the dashboard knows.                                          *)

OneDashboard == Clis = {} /\ \E p : Gateways = {p}

(* What the file says of an action, the other copy says or has moved from. *)
FollowsFile(known) ==
  \A a \in Actions : disk.actions[a].status = "ABSENT" \/ Moves(disk.actions[a], known[a])

(* Between its reservation and its POST an action is in the file as it is  *)
(* in memory: its nonce used, its text the draft's, no POST of it sent.    *)
InTransit(p) ==
  pc[p] \in {"reserved", "dispatch"} =>
    /\ disk.actions[job[p].action] = Current(p)
    /\ Current(p).status = "SENDING" /\ Current(p).used
    /\ TextIsCurrent(p, Current(p))
    /\ wire[job[p].action].posts = 0

SentIsUsed == \A a \in Actions : wire[a].posts > 0 => disk.actions[a].used

SentOnce ==
  /\ \A p \in Procs : FollowsFile(mem[p].actions) /\ InTransit(p)
  /\ SentIsUsed
  /\ OneDispatch

LEMMA TheDashboard ==
  ASSUME OneDashboard
  PROVE  \E p : Gateways = {p} /\ Procs = {p}
BY DEF OneDashboard, Procs

(* What the only writer goes on with follows the file as well, and so does *)
(* what it saves.                                                          *)
LEMMA FileIsFollowed ==
  ASSUME Typed, NEW p, Procs = {p}, FollowsFile(mem[p].actions), UNCHANGED store \/ Writes(p)
  PROVE  FollowsFile(mem[p].actions)' /\ FollowsFile(disk'.actions)
<1>1. CASE UNCHANGED store
  BY <1>1 DEF FollowsFile, Moves, store
<1>2. CASE Writes(p)
  <2>1. PICK view \in Views, saved \in SUBSET Files, stale \in SUBSET Files, known \in {disk.actions, mem[p].actions} :
          Keep(p, view, saved, stale) /\ (Advances(known, view.actions) \/ Approves(known, view.actions))
    BY <1>2 DEF Writes
  <2>2. mem'[p] = view /\ disk'.actions \in {view.actions, disk.actions}
    BY <2>1, KeptView DEF Typed
  <2>3. ASSUME NEW a \in Actions, disk.actions[a].status # "ABSENT"
        PROVE  Moves(disk.actions[a], view.actions[a])
    <3>1. Moves(disk.actions[a], known[a])
      BY <2>1, <2>3 DEF FollowsFile, Moves
    <3>2. Moves(known[a], view.actions[a])
      BY <2>1, <2>3 DEF Advances, Approves, Unused, Absent
    <3>. QED BY <3>1, <3>2, MovesOn
  <2>4. FollowsFile(view.actions) /\ FollowsFile(disk.actions)
    BY <2>3 DEF FollowsFile, Moves
  <2>5. \A a \in Actions : mem'[p].actions[a] = view.actions[a]
    BY <2>2
  <2>6. ASSUME NEW a \in Actions
        PROVE  disk'.actions[a].status = "ABSENT" \/ Moves(disk'.actions[a], mem'[p].actions[a])
    <3>1. CASE disk'.actions = view.actions
      BY <2>2, <3>1 DEF Moves
    <3>2. CASE disk'.actions = disk.actions
      BY <2>2, <2>4, <3>2 DEF FollowsFile
    <3>. QED BY <2>2, <3>1, <3>2
  <2>. QED BY <2>2, <2>4, <2>6 DEF FollowsFile
<1>. QED BY <1>1, <1>2

(* A reservation puts the action in the file and in memory at once.        *)
LEMMA ReserveSaves ==
  ASSUME Typed, NEW p \in Procs, Reserve(p), pc'[p] = "reserved"
  PROVE  /\ Sendable(Current(p)) /\ UNCHANGED <<job, wire>> /\ job[p].action \in Actions
         /\ disk'.actions[job[p].action] = Reserved(Current(p))
         /\ mem'[p].actions[job[p].action] = Reserved(Current(p))
         /\ mem'[p].drafts = mem[p].drafts
         /\ TextIsCurrent(p, Current(p))
<1>. DEFINE a == job[p].action
            r == Reserved(Current(p))
            now == [mem[p].actions EXCEPT ![a] = r]
            view == [mem[p] EXCEPT !.actions = now]
<1>1. PutAction(p, r, {"actions"}) /\ UNCHANGED <<job, wire>> /\ Sendable(Current(p)) /\ TextIsCurrent(p, Current(p))
  BY DEF Reserve, Done, Goto, Typed, OwnTyped
<1>2. a \in Actions /\ Current(p) \in ActionRecords
  BY CurrentTyped DEF Reserve
<1>3. r \in ActionRecords
  BY <1>2 DEF Reserved, ActionRecords, Statuses
<1>4. mem[p] \in Views /\ mem[p].actions \in [Actions -> ActionRecords] /\ changed[p] \in SUBSET Files
  BY ViewParts DEF Typed, StoreTyped
<1>5. Keep(p, view, {"actions"}, changed[p])
  BY <1>1, <1>4 DEF PutAction, Views, Files
<1>. HIDE DEF r
<1>6. now \in [Actions -> ActionRecords] /\ now[a] = r
  BY <1>2, <1>3, <1>4
<1>. HIDE DEF now
<1>7. view \in Views /\ view.actions = now /\ view.drafts = mem[p].drafts
  BY <1>4, <1>6, OtherActions
<1>. HIDE DEF view
<1>8. mem'[p] = view /\ disk'.actions = view.actions
  BY <1>4, <1>5, <1>7, KeptView DEF Typed, Files
<1>. QED BY <1>1, <1>2, <1>6, <1>7, <1>8 DEF r

(* How the only process comes to be about to send.                         *)
LEMMA ComesToSend ==
  ASSUME Typed, NEW p, Procs = {p}, Gateways = {p}, [Next]_vars, pc'[p] \in {"reserved", "dispatch"}
  PROVE  \/ pc'[p] = "reserved" /\ Reserve(p)
         \/ /\ pc[p] \in {"reserved", "dispatch"}
            /\ UNCHANGED <<store, job>>
            /\ \A a \in Actions : wire'[a].posts = wire[a].posts
<1>1. CASE UNCHANGED vars
  BY <1>1 DEF vars, store
<1>2. CASE Requests(p)
  BY <1>2, RequestFrame
<1>3. CASE Takes(p) \/ Settles(p)
  BY <1>3, OwnStep
<1>4. CASE AuditSend(p)
  BY <1>4 DEF AuditSend
<1>5. CASE Dispatch(p)
  BY <1>5, DispatchStep
<1>6. ASSUME NEW a \in Actions, Deliver(a) \/ Lose(a)
      PROVE  /\ pc[p] \in {"reserved", "dispatch"} /\ UNCHANGED <<store, job>>
             /\ \A b \in Actions : wire'[b].posts = wire[b].posts
  <2>1. UNCHANGED <<store, pc, job>>
    BY <1>6 DEF Deliver, Lose
  <2>2. \A b \in Actions : wire'[b].posts = wire[b].posts
    BY <1>6, WorldSteps
  <2>. QED BY <2>1, <2>2
<1>. QED BY <1>1, <1>2, <1>3, <1>4, <1>5, <1>6, NextCases

LEMMA SentOnceNext ==
  ASSUME OneDashboard, Typed, CopiesSound, SentOnce, [Next]_vars
  PROVE  SentOnce' /\ FollowsFile(disk'.actions)
<1>1. PICK p : Gateways = {p} /\ Procs = {p}
  BY TheDashboard
<1>2. FollowsFile(mem[p].actions) /\ InTransit(p)
  BY <1>1 DEF SentOnce
<1>3. FollowsFile(mem[p].actions)' /\ FollowsFile(disk'.actions)
  <2>1. UNCHANGED store \/ Writes(p)
    BY <1>1, EveryStep
  <2>. QED BY <1>1, <1>2, <2>1, FileIsFollowed
<1>4. \A a \in Actions : wire[a].posts \in Nat
  BY DEF Typed, CountsTyped
<1>5. ASSUME NEW a \in Actions, disk.actions[a].used
      PROVE  disk'.actions[a].used
  <2>1. disk.actions[a].status # "ABSENT"
    BY <1>5 DEF CopiesSound, Sound, Absent
  <2>. QED BY <1>3, <1>5, <2>1 DEF FollowsFile, Moves
<1>6. SentIsUsed' /\ OneDispatch'
  <2>1. CASE Dispatch(p)
    <3>1. PICK c \in Actions : c = job[p].action
      BY <1>1, <2>1, DispatchStep
    <3>2. disk.actions[c].used /\ wire[c].posts = 0
      BY <1>2, <2>1, <3>1 DEF InTransit, Dispatch
    <3>3. wire'[c].posts = 1 /\ \A a \in Actions \ {c} : wire'[a].posts = wire[a].posts
      BY <1>1, <2>1, <3>1, <3>2, DispatchStep
    <3>. QED BY <1>5, <3>2, <3>3 DEF SentOnce, SentIsUsed, OneDispatch
  <2>2. CASE ~Dispatch(p)
    <3>1. \A a \in Actions : wire'[a].posts = wire[a].posts
      BY <1>1, <2>2, WireGrows
    <3>. QED BY <1>5, <3>1 DEF SentOnce, SentIsUsed, OneDispatch
  <2>. QED BY <2>1, <2>2
<1>7. InTransit(p)'
  <2>. SUFFICES ASSUME pc'[p] \in {"reserved", "dispatch"}
                PROVE  /\ disk'.actions[job'[p].action] = Current(p)'
                       /\ Current(p)'.status = "SENDING" /\ Current(p)'.used
                       /\ TextIsCurrent(p, Current(p))'
                       /\ wire'[job'[p].action].posts = 0
    BY DEF InTransit
  <2>1. CASE pc'[p] = "reserved" /\ Reserve(p)
    <3>1. PICK c \in Actions : c = job[p].action
      BY <1>1, <2>1, ReserveSaves
    <3>2. /\ Sendable(Current(p)) /\ UNCHANGED <<job, wire>> /\ TextIsCurrent(p, Current(p))
          /\ disk'.actions[c] = Reserved(Current(p)) /\ mem'[p].actions[c] = Reserved(Current(p))
          /\ mem'[p].drafts = mem[p].drafts
      BY <1>1, <2>1, <3>1, ReserveSaves
    <3>3. Current(p) = mem[p].actions[c] /\ Current(p)' = Reserved(Current(p))
      BY <3>1, <3>2 DEF Current
    <3>4. Current(p) \in ActionRecords
      BY <1>1, <2>1, CurrentTyped DEF Reserve
    <3>5. /\ Reserved(Current(p)).status = "SENDING" /\ Reserved(Current(p)).used
          /\ Reserved(Current(p)).draft = Current(p).draft /\ Reserved(Current(p)).text = Current(p).text
      BY <3>4 DEF Reserved, ActionRecords
    <3>6. ~disk.actions[c].used
      <4>1. ~mem[p].actions[c].used
        BY <3>2, <3>3 DEF Sendable
      <4>. QED BY <1>2, <4>1 DEF FollowsFile, Moves, CopiesSound, Sound, Absent
    <3>7. wire[c].posts = 0
      BY <1>4, <3>6 DEF SentOnce, SentIsUsed
    <3>. QED BY <3>1, <3>2, <3>3, <3>5, <3>7 DEF TextIsCurrent
  <2>2. CASE /\ pc[p] \in {"reserved", "dispatch"}
             /\ UNCHANGED <<store, job>>
             /\ \A a \in Actions : wire'[a].posts = wire[a].posts
    <3>1. UNCHANGED <<disk, mem, job>> /\ job[p].action \in Actions
      BY <1>1, <2>2, CurrentTyped DEF store
    <3>. QED BY <1>2, <2>2, <3>1 DEF InTransit, Current, TextIsCurrent
  <2>. QED BY <1>1, <2>1, <2>2, ComesToSend
<1>. QED BY <1>1, <1>3, <1>6, <1>7 DEF SentOnce

LEMMA SentOnceInit == Init => SentOnce
<1>. SUFFICES ASSUME Init
              PROVE  SentOnce
  OBVIOUS
<1>1. \A p \in Procs : mem[p] = disk /\ pc[p] = "idle"
  BY DEF Init
<1>2. \A a \in Actions : wire[a].posts = 0
  BY DEF Init
<1>. QED BY <1>1, <1>2 DEF SentOnce, FollowsFile, Moves, InTransit, SentIsUsed, OneDispatch

LEMMA SentOnceAlways ==
  ASSUME OneDashboard
  PROVE  Spec => []SentOnce
<1>1. Typed /\ CopiesSound /\ SentOnce /\ [Next]_vars => SentOnce'
  BY SentOnceNext
<1>. QED BY <1>1, SentOnceInit, SoundAlways, TypedAlways, PTL DEF Spec

(* With one dashboard an approval is good for one POST, over failed saves, *)
(* crashes, restarts, retries and uncertain answers (OneDispatch).         *)
THEOREM OneDispatchAlways ==
  ASSUME OneDashboard
  PROVE  Spec => []OneDispatch
<1>1. SentOnce => OneDispatch
  BY DEF SentOnce
<1>. QED BY <1>1, SentOnceAlways, PTL

(* With one dashboard, what was cancelled or became stale in the file is   *)
(* never active there again and no POST of it begins, though the approval  *)
(* may be in the middle of a send when it happens (WithdrawnIsNotSent).    *)
THEOREM WithdrawnIsNotSentAlways ==
  ASSUME OneDashboard
  PROVE  Spec => WithdrawnIsNotSent
<1>1. Typed /\ CopiesSound /\ SentOnce /\ [Next]_vars
        => [\A a \in Actions : disk.actions[a].status \in {"CANCELLED", "STALE"}
              => ~Active(disk'.actions[a]) /\ wire'[a].posts = wire[a].posts]_vars
  <2>. SUFFICES ASSUME Typed, CopiesSound, SentOnce, [Next]_vars,
                       NEW a \in Actions, disk.actions[a].status \in {"CANCELLED", "STALE"}
                PROVE  ~Active(disk'.actions[a]) /\ wire'[a].posts = wire[a].posts
    OBVIOUS
  <2>1. PICK p : Gateways = {p} /\ Procs = {p}
    BY TheDashboard
  <2>2. ~Active(disk'.actions[a])
    <3>1. FollowsFile(disk'.actions)
      BY <2>1, SentOnceNext
    <3>. QED BY <3>1 DEF FollowsFile, Moves, Active
  <2>3. CASE Dispatch(p)
    <3>1. job[p].action # a
      BY <2>1, <2>3 DEF SentOnce, InTransit, Dispatch
    <3>. QED BY <2>1, <2>2, <2>3, <3>1, DispatchStep
  <2>4. CASE ~Dispatch(p)
    BY <2>1, <2>2, <2>4, WireGrows
  <2>. QED BY <2>3, <2>4
<1>. QED BY <1>1, SentOnceAlways, SoundAlways, TypedAlways, PTL DEF Spec, WithdrawnIsNotSent

(* With one dashboard a message is posted with the text its draft has      *)
(* there at that moment (SendsCurrentText).                                *)
THEOREM SendsCurrentTextAlways ==
  ASSUME OneDashboard
  PROVE  Spec => SendsCurrentText
<1>1. SentOnce /\ [Next]_vars
        => [\A p \in Gateways : Dispatch(p)
              => LET r == disk.actions[job[p].action] IN mem[p].drafts[r.draft].text = r.text]_vars
  <2>. SUFFICES ASSUME SentOnce, NEW p \in Gateways, Dispatch(p)
                PROVE  LET r == disk.actions[job[p].action] IN mem[p].drafts[r.draft].text = r.text
    OBVIOUS
  <2>. QED BY DEF SentOnce, InTransit, TextIsCurrent, Dispatch, Procs
<1>. QED BY <1>1, SentOnceAlways, PTL DEF Spec, SendsCurrentText

(* hh.ru holds no more than was sent.                                      *)
NothingAppears == \A a \in Actions : wire[a].inflight + wire[a].delivered <= wire[a].posts

LEMMA NothingAppearsAlways == Spec => []NothingAppears
<1>1. Init => NothingAppears
  BY DEF Init, NothingAppears
<1>2. Typed /\ NothingAppears /\ [Next]_vars => NothingAppears'
  <2>. SUFFICES ASSUME Typed, NothingAppears, [Next]_vars
                PROVE  NothingAppears'
    OBVIOUS
  <2>0. wire \in [Actions -> [posts : Nat, inflight : Nat, delivered : Nat]]
    BY DEF Typed, CountsTyped
  <2>1. CASE UNCHANGED wire
    BY <2>1 DEF NothingAppears
  <2>2. ASSUME NEW p \in Gateways, Dispatch(p)
        PROVE  NothingAppears'
    <3>1. PICK c \in Actions : c = job[p].action
      BY <2>2, DispatchStep
    <3>. DEFINE w == [wire[c] EXCEPT !.posts = @ + 1, !.inflight = @ + 1]
    <3>2. wire' = [wire EXCEPT ![c] = w]
      BY <2>2, <3>1 DEF Dispatch
    <3>3. w.posts = wire[c].posts + 1 /\ w.inflight = wire[c].inflight + 1 /\ w.delivered = wire[c].delivered
      BY <2>0
    <3>. HIDE DEF w
    <3>. QED BY <2>0, <3>2, <3>3 DEF NothingAppears
  <2>3. ASSUME NEW a \in Actions, Deliver(a) \/ Lose(a)
        PROVE  NothingAppears'
    <3>. DEFINE d == [wire[a] EXCEPT !.inflight = @ - 1, !.delivered = @ + 1]
                l == [wire[a] EXCEPT !.inflight = @ - 1]
    <3>1. wire[a].inflight > 0 /\ (wire' = [wire EXCEPT ![a] = d] \/ wire' = [wire EXCEPT ![a] = l])
      BY <2>3 DEF Deliver, Lose
    <3>2. /\ d.posts = wire[a].posts /\ d.inflight = wire[a].inflight - 1 /\ d.delivered = wire[a].delivered + 1
          /\ l.posts = wire[a].posts /\ l.inflight = wire[a].inflight - 1 /\ l.delivered = wire[a].delivered
      BY <2>0
    <3>. HIDE DEF d, l
    <3>. QED BY <2>0, <3>1, <3>2 DEF NothingAppears
  <2>4. UNCHANGED wire \/ (\E p \in Gateways : Dispatch(p)) \/ \E a \in Actions : Deliver(a) \/ Lose(a)
    BY NextCases, RequestFrame, QuietFrame DEF vars, AuditSend, Procs
  <2>. QED BY <2>1, <2>2, <2>3, <2>4
<1>. QED BY <1>1, <1>2, TypedAlways, PTL DEF Spec

(* The employer's view of an approval.                                     *)
DeliveredOnce ==
  \A a \in Actions : /\ wire[a].inflight + wire[a].delivered <= 1
                     /\ wire[a].delivered > 0 => disk.actions[a].used

(* With one dashboard an approved message reaches the employer once at     *)
(* most, and only after the file says that its nonce was used: after any   *)
(* crash the dashboard knows that it may have been sent.                   *)
THEOREM DeliveredOnceAlways ==
  ASSUME OneDashboard
  PROVE  Spec => []DeliveredOnce
<1>1. Typed /\ NothingAppears /\ SentOnce => DeliveredOnce
  <2>. SUFFICES ASSUME Typed, NothingAppears, SentOnce, NEW a \in Actions
                PROVE  /\ wire[a].inflight + wire[a].delivered <= 1
                       /\ wire[a].delivered > 0 => disk.actions[a].used
    BY DEF DeliveredOnce
  <2>1. wire[a].posts \in Nat /\ wire[a].inflight \in Nat /\ wire[a].delivered \in Nat
    BY DEF Typed, CountsTyped
  <2>2. wire[a].posts <= 1 /\ (wire[a].posts > 0 => disk.actions[a].used)
    BY DEF SentOnce, OneDispatch, SentIsUsed
  <2>. QED BY <2>1, <2>2 DEF NothingAppears
<1>. QED BY <1>1, SentOnceAlways, NothingAppearsAlways, TypedAlways, PTL

-----------------------------------------------------------------------------
(* The promise of a one-time approval.                                     *)

Promise == INSTANCE SingleUse WITH
  Approvals <- Actions,
  used      <- {a \in Actions : disk.actions[a].used},
  delivered <- {a \in Actions : wire[a].delivered > 0}

LEMMA PromiseInit == Init => Promise!Init
BY DEF Init, Promise!Init, Absent, Files

LEMMA PromiseNext ==
  ASSUME OneDashboard, Typed, CopiesSound, SentOnce, NothingAppears, [Next]_vars
  PROVE  [Promise!Next]_(Promise!vars)
<1>. DEFINE used == {a \in Actions : disk.actions[a].used}
            delivered == {a \in Actions : wire[a].delivered > 0}
<1>1. used \subseteq used'
  <2>1. PICK p : Gateways = {p} /\ Procs = {p}
    BY TheDashboard
  <2>2. FollowsFile(disk'.actions)
    BY <2>1, SentOnceNext
  <2>3. \A a \in Actions : disk.actions[a].used => disk.actions[a].status # "ABSENT"
    BY DEF CopiesSound, Sound, Absent
  <2>. QED BY <2>2, <2>3 DEF FollowsFile, Moves
<1>2. ASSUME delivered' = delivered
      PROVE  [Promise!Next]_(Promise!vars)
  <2>1. used' = used \cup (used' \ used) /\ (used' \ used) \in SUBSET (Actions \ used)
    BY <1>1
  <2>2. Promise!Use
    BY <1>2, <2>1 DEF Promise!Use
  <2>. QED BY <2>2 DEF Promise!Next
<1>3. ASSUME NEW a \in Actions, Deliver(a)
      PROVE  Promise!Deliver(a)
  <2>1. wire[a] \in [posts : Nat, inflight : Nat, delivered : Nat]
    BY DEF Typed, CountsTyped
  <2>2. wire[a].inflight > 0 /\ wire[a].inflight + wire[a].delivered <= wire[a].posts /\ wire[a].posts <= 1
    BY <1>3 DEF Deliver, NothingAppears, SentOnce, OneDispatch
  <2>3. wire[a].posts > 0 /\ wire[a].delivered = 0
    BY <2>1, <2>2
  <2>4. disk.actions[a].used
    BY <2>3 DEF SentOnce, SentIsUsed
  <2>5. wire'[a].delivered > 0 /\ (\A b \in Actions \ {a} : wire'[b] = wire[b]) /\ UNCHANGED disk
    <3>. DEFINE d == [wire[a] EXCEPT !.inflight = @ - 1, !.delivered = @ + 1]
    <3>1. wire' = [wire EXCEPT ![a] = d] /\ UNCHANGED disk
      BY <1>3 DEF Deliver, store
    <3>2. d.delivered = wire[a].delivered + 1
      BY <2>1
    <3>. HIDE DEF d
    <3>. QED BY <2>3, <3>1, <3>2 DEF Typed, CountsTyped
  <2>. QED BY <2>3, <2>4, <2>5 DEF Promise!Deliver
<1>4. delivered' = delivered \/ \E a \in Actions : Deliver(a)
  <2>1. CASE UNCHANGED wire
    BY <2>1
  <2>2. ASSUME NEW p \in Gateways, Dispatch(p)
        PROVE  delivered' = delivered
    BY <2>2 DEF Dispatch, Typed, CountsTyped
  <2>3. ASSUME NEW a \in Actions, Lose(a)
        PROVE  delivered' = delivered
    BY <2>3 DEF Lose, Typed, CountsTyped
  <2>4. UNCHANGED wire \/ (\E p \in Gateways : Dispatch(p)) \/ \E a \in Actions : Deliver(a) \/ Lose(a)
    BY NextCases, RequestFrame, QuietFrame DEF vars, AuditSend, Procs
  <2>. QED BY <2>1, <2>2, <2>3, <2>4
<1>. QED BY <1>2, <1>3, <1>4 DEF Promise!Next

(* With one dashboard the action file, its memory and its restarts keep    *)
(* the promise of SingleUse to the employer.                               *)
THEOREM Refinement ==
  ASSUME OneDashboard
  PROVE  Spec => Promise!Spec
<1>1. Typed /\ CopiesSound /\ SentOnce /\ NothingAppears /\ [Next]_vars => [Promise!Next]_(Promise!vars)
  BY PromiseNext
<1>. QED BY <1>1, PromiseInit, SentOnceAlways, SoundAlways, NothingAppearsAlways, TypedAlways, PTL
     DEF Spec, Promise!Spec
=============================================================================
