--------------------------- MODULE ReadSchedulerProofs ---------------------------
(***************************************************************************)
(* Proofs for ReadScheduler, for any number of reads, priorities, slots    *)
(* and delays: types and the order of the queue, no read without a slot,   *)
(* how slots get lost, no wakeup missed, and one read that is next         *)
(* whenever reads wait.                                                    *)
(***************************************************************************)
EXTENDS ReadScheduler, FiniteSetTheorems, WellFoundedInduction, TLAPS

-----------------------------------------------------------------------------
(* The queue.                                                              *)

LEMMA JoinsInOrder ==
  ASSUME InOrder, NEW r \in Reads, r \notin queue,
         queue' = queue \cup {r}, before' = before \cup (queue \X {r})
  PROVE  InOrder'
BY DEF InOrder

LEMMA StaysInOrder ==
  ASSUME InOrder, NEW rest \in SUBSET queue, Keep(rest)
  PROVE  InOrder'
BY DEF InOrder, Keep

(* A read in the queue waits for its slot, or was given up and is about to *)
(* be removed; a read that was granted one has left the queue.             *)
Places ==
  /\ \A r \in queue : \/ pc[r] = "queued" /\ r \notin granted
                      \/ pc[r] = "idle" /\ r \in cancelled
  /\ \A r \in granted : pc[r] = "queued"

Inv == TypeOK /\ Places /\ IsFiniteSet(queue)

LEMMA Ticks ==
  /\ Slots \in Nat \ {0} /\ Interval \in Nat /\ MaxRetries \in Nat /\ MaxDelay \in Nat \ {0} /\ MaxCancels \in Nat
  /\ \A m, n \in Nat : /\ Later(m, n) \in Nat /\ Later(m, n) >= m /\ Later(m, n) >= n
                       /\ Later(m, n) \in {m, n}
  /\ \A n \in Nat : Less(n) \in Nat /\ Less(n) <= n
BY SlotsAssumption, TicksAssumption DEF Later, Less

(* What has run out or is set to a wait is within the bounds.              *)
LEMMA InBounds ==
  /\ \A m \in Nat : 0 \in 0..m /\ \A n \in 0..m : n \in Nat /\ Less(n) \in 0..m
  /\ \A m \in Nat : \A i, j \in 0..m : Later(i, j) \in 0..m
  /\ \A m, n \in Nat : \A i \in 0..m, j \in 0..n : Later(i, j) \in 0..Later(m, n)
  /\ Later(Interval, MaxDelay) \in Nat /\ 1..MaxDelay \subseteq 0..MaxDelay
BY TicksAssumption DEF Later, Less

LEMMA InitInv == Init => Inv
<1>. SUFFICES ASSUME Init
              PROVE  Inv
  OBVIOUS
<1>1. InOrder /\ Places /\ IsFiniteSet(queue)
  BY FS_EmptySet DEF Init, InOrder, Places
<1>2. /\ 0 \in 0..Slots /\ 0 \in 0..Interval /\ 0 \in 0..MaxDelay /\ 0 \in 0..MaxRetries /\ 0 \in 0..MaxCancels
      /\ 0 \in 0..Later(Interval, MaxDelay)
  BY Ticks, InBounds
<1>3. pc \in [Reads -> Positions] /\ tries \in [Reads -> 0..MaxRetries] /\ pause \in [Reads -> 0..MaxDelay]
  BY <1>2 DEF Init, Positions
<1>. QED BY <1>1, <1>2, <1>3 DEF Init, Inv, TypeOK

(* Reads.                                                                  *)
LEMMA AcquireInv ==
  ASSUME Inv, NEW r \in Reads, Acquire(r)
  PROVE  Inv'
<1>1. r \notin queue /\ r \notin granted
  BY DEF Acquire, Inv, Places
<1>2. InOrder'
  BY <1>1, JoinsInOrder DEF Acquire, Inv, TypeOK
<1>3. TypeOK'
  BY <1>2 DEF Acquire, Goto, Inv, TypeOK, Positions
<1>4. /\ queue' = queue \cup {r} /\ UNCHANGED granted
      /\ pc'[r] = "queued" /\ \A s \in Reads \ {r} : pc'[s] = pc[s] /\ (s \in cancelled => s \in cancelled')
  BY DEF Acquire, Goto, Inv, TypeOK
<1>5. Places'
  BY <1>1, <1>4 DEF Inv, Places, TypeOK, InOrder
<1>6. IsFiniteSet(queue')
  BY <1>4, FS_AddElement DEF Inv
<1>. QED BY <1>3, <1>5, <1>6 DEF Inv

LEMMA OrderKept == ASSUME InOrder, UNCHANGED queueVars PROVE InOrder'
BY DEF InOrder, queueVars

LEMMA OwnInv ==
  ASSUME Inv, NEW r \in Reads,
         \/ Refuse(r) \/ TakeSlot(r) \/ Abandon(r) \/ Answer(r) \/ TooManyRequests(r)
         \/ CoolDown(r) \/ BackOff(r) \/ BackoffEnds(r) \/ Cancel(r)
  PROVE  Inv'
<1>1. UNCHANGED queueVars /\ UNCHANGED <<queue, limiter>>
  BY DEF Refuse, TakeSlot, Abandon, Answer, TooManyRequests, CoolDown, BackOff, BackoffEnds, Cancel, queueVars
<1>2. InOrder'
  BY <1>1, OrderKept DEF Inv, TypeOK
<1>3. active \in Nat /\ active <= Slots /\ Slots \in Nat
  BY Ticks DEF Inv, TypeOK
<1>4. active' \in 0..Slots
  <2>1. active' \in {active, Less(active)}
    BY DEF Refuse, TakeSlot, Abandon, Answer, TooManyRequests, CoolDown, BackOff, BackoffEnds, Cancel, Release
  <2>. QED BY <1>3, <2>1, Ticks
<1>5. cool' \in 0..MaxDelay
  <2>1. UNCHANGED cool \/ \E delay \in 1..MaxDelay : cool' = Later(cool, delay)
    BY DEF Refuse, TakeSlot, Abandon, Answer, TooManyRequests, CoolDown, BackOff, BackoffEnds, Cancel
  <2>2. ASSUME NEW delay \in 1..MaxDelay, cool' = Later(cool, delay)
        PROVE  cool' \in 0..MaxDelay
    BY <2>2, Ticks, InBounds DEF Inv, TypeOK
  <2>. QED BY <2>1, <2>2 DEF Inv, TypeOK
<1>6. pc' \in [Reads -> Positions] /\ tries' \in [Reads -> 0..MaxRetries]
  <2>1. pc \in [Reads -> Positions] /\ tries \in [Reads -> 0..MaxRetries]
    BY DEF Inv, TypeOK
  <2>2. pc' = pc \/ \E step \in Positions : Goto(r, step)
    BY DEF Refuse, TakeSlot, Abandon, Answer, TooManyRequests, CoolDown, BackOff, BackoffEnds, Cancel,
       End, Positions, readVars
  <2>3. \/ tries' \in {tries, [tries EXCEPT ![r] = 0]}
        \/ tries[r] < MaxRetries /\ tries' = [tries EXCEPT ![r] = tries[r] + 1]
    <3>1. MaxRetries \in Nat /\ tries[r] \in 0..MaxRetries
      BY <2>1, Ticks
    <3>. QED BY <3>1 DEF Refuse, TakeSlot, Abandon, Answer, TooManyRequests, CoolDown, BackOff, BackoffEnds,
                Cancel, End, readVars
  <2>4. 0 \in 0..MaxRetries /\ \A n \in 0..MaxRetries : n < MaxRetries => n + 1 \in 0..MaxRetries
    BY Ticks
  <2>. QED BY <2>1, <2>2, <2>3, <2>4 DEF Goto
<1>7. pause' \in [Reads -> 0..MaxDelay]
  <2>1. pause' = pause \/ \E delay \in 0..MaxDelay : pause' = [pause EXCEPT ![r] = delay]
    BY InBounds, Ticks DEF Refuse, TakeSlot, Abandon, Answer, TooManyRequests, CoolDown, BackOff, BackoffEnds,
       Cancel, readVars
  <2>. QED BY <2>1 DEF Inv, TypeOK
<1>8. UNCHANGED <<gap, timer, sched>> /\ wake' \in BOOLEAN
  BY DEF Refuse, TakeSlot, Abandon, Answer, TooManyRequests, CoolDown, BackOff, BackoffEnds, Cancel,
     schedVars, Release, Inv, TypeOK
<1>9. granted' \in {granted, granted \ {r}} /\ cancelled' \in {cancelled, cancelled \cup {r}} /\ cancels' \in 0..MaxCancels
  <2>1. granted' \in {granted, granted \ {r}} /\ cancelled' \in {cancelled, cancelled \cup {r}}
    BY DEF Refuse, TakeSlot, Abandon, Answer, TooManyRequests, CoolDown, BackOff, BackoffEnds, Cancel, End, readVars
  <2>2. cancels' = cancels \/ (cancels < MaxCancels /\ cancels' = cancels + 1)
    BY DEF Refuse, TakeSlot, Abandon, Answer, TooManyRequests, CoolDown, BackOff, BackoffEnds, Cancel
  <2>3. MaxCancels \in Nat /\ cancels \in 0..MaxCancels
    BY Ticks DEF Inv, TypeOK
  <2>. QED BY <2>1, <2>2, <2>3
<1>10. TypeOK'
  BY <1>1, <1>2, <1>4, <1>5, <1>6, <1>7, <1>8, <1>9 DEF Inv, TypeOK
<1>11. /\ \A s \in Reads \ {r} : pc'[s] = pc[s] /\ (s \in granted' <=> s \in granted)
       /\ cancelled \subseteq cancelled'
       /\ r \in granted' => r \in granted /\ pc'[r] = pc[r]
       /\ r \in queue => pc'[r] = pc[r] \/ (pc'[r] = "idle" /\ r \in cancelled')
  <2>1. pc \in [Reads -> Positions] /\ \A s \in queue : pc[s] \in {"queued", "idle"}
    BY DEF Inv, TypeOK, Places
  <2>2. \A s \in Reads \ {r} : pc'[s] = pc[s]
    BY <2>1 DEF Refuse, TakeSlot, Abandon, Answer, TooManyRequests, CoolDown, BackOff, BackoffEnds, Cancel,
       End, Goto, readVars
  <2>3. r \in granted' => r \in granted /\ pc'[r] = pc[r]
    BY <2>1 DEF Refuse, TakeSlot, Abandon, Answer, TooManyRequests, CoolDown, BackOff, BackoffEnds, Cancel,
       End, Goto, readVars, Inv, Places
  <2>4. ASSUME r \in queue
        PROVE  pc'[r] = pc[r] \/ (pc'[r] = "idle" /\ r \in cancelled')
    <3>1. Abandon(r) \/ Cancel(r)
      BY <2>1, <2>4 DEF Refuse, TakeSlot, Abandon, Answer, TooManyRequests, CoolDown, BackOff, BackoffEnds,
         Inv, Places
    <3>. QED BY <2>1, <3>1 DEF Abandon, Cancel, End, Goto, readVars
  <2>. QED BY <1>9, <2>2, <2>3, <2>4
<1>12. Places'
  <2>1. UNCHANGED queue /\ queue \subseteq Reads /\ granted \subseteq Reads /\ granted' \subseteq granted
    BY <1>1, <1>9 DEF Inv, TypeOK, InOrder
  <2>2. ASSUME NEW s \in queue
        PROVE  (pc'[s] = "queued" /\ s \notin granted') \/ (pc'[s] = "idle" /\ s \in cancelled')
    <3>1. (pc[s] = "queued" /\ s \notin granted) \/ (pc[s] = "idle" /\ s \in cancelled)
      BY DEF Inv, Places
    <3>. QED BY <1>11, <2>1, <3>1
  <2>3. \A s \in granted' : pc'[s] = "queued"
    BY <1>11, <2>1 DEF Inv, Places
  <2>. QED BY <2>1, <2>2, <2>3 DEF Places
<1>. QED BY <1>1, <1>10, <1>12 DEF Inv

(* The scheduler, and time.                                                *)
LEMMA SchedulerInv ==
  ASSUME Inv, Scheduler \/ Tick
  PROVE  Inv'
<1>0. Live \subseteq queue /\ \A r \in Live : pc[r] = "queued" /\ r \notin granted /\ r \in Reads
  BY DEF Live, Inv, Places, TypeOK, InOrder
<1>1. ASSUME NEW rest \in SUBSET Live, Keep(rest), UNCHANGED <<pc, cancelled>>,
             granted' \subseteq granted \cup (Live \ rest)
      PROVE  InOrder' /\ Places' /\ IsFiniteSet(queue')
  <2>1. InOrder' /\ queue' = rest /\ rest \subseteq queue
    BY <1>0, <1>1, StaysInOrder DEF Inv, TypeOK, Keep
  <2>2. IsFiniteSet(queue')
    BY <2>1, FS_Subset DEF Inv
  <2>. QED BY <1>0, <1>1, <2>1, <2>2 DEF Places, Inv
<1>2. CASE Sleep
  <2>1. InOrder' /\ Places' /\ IsFiniteSet(queue')
    BY <1>1, <1>2 DEF Sleep, readVars
  <2>. QED BY <1>2, <2>1 DEF Sleep, readVars, Inv, TypeOK
<1>3. CASE SleepUntilDeadline
  <2>1. InOrder' /\ Places' /\ IsFiniteSet(queue')
    BY <1>1, <1>3 DEF SleepUntilDeadline, readVars
  <2>2. Wait \in 0..Later(Interval, MaxDelay)
    BY Ticks DEF Wait, Later, Inv, TypeOK
  <2>. QED BY <1>3, <2>1, <2>2 DEF SleepUntilDeadline, readVars, Inv, TypeOK
<1>4. CASE Grant
  <2>1. PICK r \in queue : Best(r) /\ Keep(Live \ {r}) /\ granted' = granted \cup {r}
    BY <1>4 DEF Grant
  <2>2. InOrder' /\ Places' /\ IsFiniteSet(queue')
    BY <1>1, <1>4, <2>1 DEF Grant, Best
  <2>3. active' \in 0..Slots /\ granted' \subseteq Reads
    BY <1>0, <1>4, <2>1, Ticks DEF Grant, Full, Best, Inv, TypeOK
  <2>4. gap' \in 0..Interval
    BY <1>4, Ticks DEF Grant
  <2>. QED BY <1>4, <2>2, <2>3, <2>4 DEF Grant, schedVars, Inv, TypeOK
<1>5. CASE WakeUp \/ TimerFires \/ Tick
  <2>1. UNCHANGED <<queue, before, queueVars, pc, granted, cancelled>>
    BY <1>5 DEF WakeUp, TimerFires, Tick, readVars, queueVars
  <2>2. InOrder' /\ Places' /\ IsFiniteSet(queue')
    BY <2>1, OrderKept DEF Inv, TypeOK, Places
  <2>3. CASE WakeUp \/ TimerFires
    <3>1. timer' \in 0..Later(Interval, MaxDelay)
      BY <2>3, InBounds DEF WakeUp, TimerFires, Inv, TypeOK
    <3>. QED BY <2>1, <2>2, <2>3, <3>1 DEF WakeUp, TimerFires, readVars, Inv, TypeOK
  <2>4. CASE Tick
    <3>1. gap \in 0..Interval /\ cool \in 0..MaxDelay /\ timer \in 0..Later(Interval, MaxDelay)
          /\ \A r \in Reads : pause[r] \in 0..MaxDelay
      BY DEF Inv, TypeOK
    <3>2. /\ gap' = Less(gap) /\ cool' = Less(cool) /\ timer' = Less(timer)
          /\ pause' = [r \in Reads |-> Less(pause[r])]
          /\ UNCHANGED <<limiter, active, wake, sched, tries, cancels>>
      BY <2>4 DEF Tick
    <3>3. /\ gap' \in 0..Interval /\ cool' \in 0..MaxDelay /\ timer' \in 0..Later(Interval, MaxDelay)
          /\ \A r \in Reads : Less(pause[r]) \in 0..MaxDelay
      BY <3>1, <3>2, InBounds, Ticks
    <3>4. pause' \in [Reads -> 0..MaxDelay]
      BY <3>2, <3>3
    <3>. QED BY <2>1, <2>2, <3>2, <3>3, <3>4 DEF Inv, TypeOK
  <2>. QED BY <1>5, <2>3, <2>4
<1>. QED BY <1>2, <1>3, <1>4, <1>5 DEF Scheduler

LEMMA InvAlways == Spec => []Inv
<1>1. Inv /\ [Next]_vars => Inv'
  <2>. SUFFICES ASSUME Inv, [Next]_vars
                PROVE  Inv'
    OBVIOUS
  <2>1. CASE UNCHANGED vars
    BY <2>1 DEF vars, queueVars, readVars, schedVars, Inv, TypeOK, Places, InOrder
  <2>2. CASE Next
    BY <2>2, AcquireInv, OwnInv, SchedulerInv DEF Next, Proceed
  <2>. QED BY <2>1, <2>2
<1>. QED BY <1>1, InitInv, PTL DEF Spec

(* Slots, waits and retries stay within their limits, and the queue keeps  *)
(* one order of its reads, whatever the scheduler drops (TypeOK).          *)
THEOREM TypeCorrect == Spec => []TypeOK
<1>1. Inv => TypeOK
  BY DEF Inv
<1>. QED BY <1>1, InvAlways, PTL

-----------------------------------------------------------------------------
(* Slots.                                                                  *)

(* The reads that hold a slot, and those that will give up.                *)
Counted == {r \in Reads : pc[r] = "reading" \/ r \in granted}
GivingUp == {r \in cancelled : pc[r] # "idle"}

(* What a step may do to the slots and to the reads that hold them.        *)
SlotsRest == Counted' = Counted /\ active' = active
TakesSlot(r) == r \notin Counted /\ Counted' = Counted \cup {r} /\ active < Slots /\ active' = active + 1
ReturnsSlot(r) == r \in Counted /\ Counted' = Counted \ {r} /\ active' = Less(active)
LosesSlot(r) == r \in GivingUp /\ Counted' = Counted \ {r} /\ active' = active

CancelsRest == GivingUp' \subseteq GivingUp /\ cancels' = cancels
Cancels(r) == r \notin GivingUp /\ GivingUp' = GivingUp \cup {r} /\ cancels' = cancels + 1
GivesUp(r) == GivingUp' = GivingUp \ {r} /\ cancels' = cancels

LEMMA SlotSteps ==
  ASSUME Inv, [Next]_vars
  PROVE  \/ SlotsRest /\ CancelsRest
         \/ SlotsRest /\ \E r \in Reads : Cancels(r)
         \/ \E r \in Reads : TakesSlot(r) /\ CancelsRest
         \/ \E r \in Reads : ReturnsSlot(r) /\ CancelsRest
         \/ \E r \in Reads : LosesSlot(r) /\ GivesUp(r)
<1>0. /\ pc \in [Reads -> Positions] /\ granted \subseteq Reads /\ cancelled \subseteq Reads /\ queue \subseteq Reads
      /\ \A r \in granted : pc[r] = "queued"
  BY DEF Inv, TypeOK, Places, InOrder
<1>1. CASE UNCHANGED vars
  BY <1>1 DEF vars, readVars, SlotsRest, CancelsRest, Counted, GivingUp
<1>2. CASE Sleep \/ SleepUntilDeadline \/ WakeUp \/ TimerFires \/ Tick
  <2>1. UNCHANGED <<pc, granted, cancelled, cancels, active>>
    BY <1>2 DEF Sleep, SleepUntilDeadline, WakeUp, TimerFires, Tick, readVars
  <2>. QED BY <2>1 DEF SlotsRest, CancelsRest, Counted, GivingUp
<1>3. CASE Grant
  <2>1. PICK r \in queue : Best(r) /\ granted' = granted \cup {r}
    BY <1>3 DEF Grant
  <2>2. r \in Reads /\ pc[r] = "queued" /\ r \notin granted
    BY <1>0, <2>1 DEF Best, Live, Inv, Places
  <2>3. active < Slots
    BY <1>3, Ticks DEF Grant, Full, Inv, TypeOK
  <2>4. UNCHANGED <<pc, cancelled, cancels>> /\ active' = active + 1
    BY <1>3 DEF Grant
  <2>5. TakesSlot(r)
    BY <2>1, <2>2, <2>3, <2>4 DEF TakesSlot, Counted
  <2>6. CancelsRest
    BY <2>4 DEF CancelsRest, GivingUp
  <2>. QED BY <2>2, <2>5, <2>6
<1>4. ASSUME NEW r \in Reads, Acquire(r)
      PROVE  SlotsRest /\ CancelsRest
  <2>1. UNCHANGED <<granted, active, cancels>> /\ pc' = [pc EXCEPT ![r] = "queued"] /\ pc[r] \in {"idle", "retry"}
        /\ r \notin cancelled' /\ cancelled' \subseteq cancelled
    BY <1>4 DEF Acquire, Goto
  <2>. QED BY <1>0, <2>1 DEF SlotsRest, CancelsRest, Counted, GivingUp
<1>5. ASSUME NEW r \in Reads, TakeSlot(r)
      PROVE  SlotsRest /\ CancelsRest
  <2>1. pc[r] = "queued" /\ r \in granted /\ granted' = granted \ {r} /\ pc' = [pc EXCEPT ![r] = "reading"]
        /\ UNCHANGED <<active, cancelled, cancels>>
    BY <1>5 DEF TakeSlot, Goto
  <2>. QED BY <1>0, <2>1 DEF SlotsRest, CancelsRest, Counted, GivingUp
<1>6. ASSUME NEW r \in Reads, Refuse(r) \/ CoolDown(r) \/ BackoffEnds(r)
      PROVE  SlotsRest /\ CancelsRest
  <2>1. pc[r] \in {"retry", "limited", "backoff"} /\ UNCHANGED <<active, cancelled, cancels>>
    BY <1>6 DEF Refuse, CoolDown, BackoffEnds, End
  <2>2. \E step \in {"idle", "retry"} : pc' = [pc EXCEPT ![r] = step]
    BY <1>6 DEF Refuse, CoolDown, BackoffEnds, End, Goto
  <2>3. granted' \in {granted, granted \ {r}} /\ r \notin granted
    BY <1>0, <1>6, <2>1 DEF Refuse, CoolDown, BackoffEnds, End
  <2>. QED BY <1>0, <2>1, <2>2, <2>3 DEF SlotsRest, CancelsRest, Counted, GivingUp
<1>7. ASSUME NEW r \in Reads, Answer(r) \/ TooManyRequests(r) \/ BackOff(r)
      PROVE  ReturnsSlot(r) /\ CancelsRest
  <2>1. pc[r] = "reading" /\ UNCHANGED <<cancelled, cancels>> /\ active' = Less(active)
    BY <1>7 DEF Answer, TooManyRequests, BackOff, End, Release
  <2>2. \E step \in {"idle", "limited", "backoff"} : pc' = [pc EXCEPT ![r] = step]
    BY <1>7 DEF Answer, TooManyRequests, BackOff, End, Goto
  <2>3. granted' \in {granted, granted \ {r}} /\ r \notin granted
    BY <1>0, <1>7, <2>1 DEF Answer, TooManyRequests, BackOff, End
  <2>. QED BY <1>0, <2>1, <2>2, <2>3 DEF ReturnsSlot, CancelsRest, Counted, GivingUp
<1>8. ASSUME NEW r \in Reads, Abandon(r)
      PROVE  LosesSlot(r) /\ GivesUp(r)
  <2>1. /\ pc[r] = "queued" /\ r \in cancelled /\ UNCHANGED <<cancelled, cancels, active>>
        /\ pc' = [pc EXCEPT ![r] = "idle"] /\ granted' = granted \ {r}
    BY <1>8 DEF Abandon, End, Goto
  <2>. QED BY <1>0, <2>1 DEF LosesSlot, GivesUp, Counted, GivingUp
<1>9. ASSUME NEW r \in Reads, Cancel(r)
      PROVE  SlotsRest /\ Cancels(r)
  BY <1>0, <1>9 DEF Cancel, readVars, SlotsRest, Cancels, Counted, GivingUp
<1>. QED BY <1>1, <1>2, <1>3, <1>4, <1>5, <1>6, <1>7, <1>8, <1>9 DEF Next, Scheduler, Proceed

Covered == IsFiniteSet(Counted) /\ Cardinality(Counted) <= active

(* A slot that no read holds was lost to a read that gave up, or is about  *)
(* to be: there are no more of them than contexts that were cancelled.     *)
Accounted == IsFiniteSet(GivingUp) /\ active + Cardinality(GivingUp) <= Cardinality(Counted) + cancels

LEMMA SlotsNext ==
  ASSUME Inv, Covered, Accounted, [Next]_vars
  PROVE  Covered' /\ Accounted'
<1>0. /\ IsFiniteSet(Counted) /\ Cardinality(Counted) \in Nat
      /\ IsFiniteSet(GivingUp) /\ Cardinality(GivingUp) \in Nat
      /\ active \in Nat /\ cancels \in Nat
      /\ Cardinality(Counted) <= active
      /\ active + Cardinality(GivingUp) <= Cardinality(Counted) + cancels
  BY FS_CardinalityType, Ticks DEF Covered, Accounted, Inv, TypeOK
<1>1. ASSUME CancelsRest
      PROVE  /\ IsFiniteSet(GivingUp') /\ Cardinality(GivingUp') \in Nat
             /\ Cardinality(GivingUp') <= Cardinality(GivingUp) /\ cancels' = cancels
  BY <1>0, <1>1, FS_Subset, FS_CardinalityType DEF CancelsRest
<1>2. ASSUME SlotsRest
      PROVE  IsFiniteSet(Counted') /\ Cardinality(Counted') = Cardinality(Counted) /\ active' = active
  BY <1>0, <1>2 DEF SlotsRest
<1>3. ASSUME SlotsRest, CancelsRest
      PROVE  Covered' /\ Accounted'
  BY <1>0, <1>1, <1>2, <1>3 DEF Covered, Accounted
<1>4. ASSUME NEW r \in Reads, SlotsRest, Cancels(r)
      PROVE  Covered' /\ Accounted'
  <2>1. IsFiniteSet(GivingUp') /\ Cardinality(GivingUp') = Cardinality(GivingUp) + 1 /\ cancels' = cancels + 1
    BY <1>0, <1>4, FS_AddElement DEF Cancels
  <2>. QED BY <1>0, <1>2, <1>4, <2>1 DEF Covered, Accounted
<1>5. ASSUME NEW r \in Reads, TakesSlot(r), CancelsRest
      PROVE  Covered' /\ Accounted'
  <2>1. IsFiniteSet(Counted') /\ Cardinality(Counted') = Cardinality(Counted) + 1 /\ active' = active + 1
    BY <1>0, <1>5, FS_AddElement DEF TakesSlot
  <2>. QED BY <1>0, <1>1, <1>5, <2>1 DEF Covered, Accounted
<1>6. ASSUME NEW r \in Reads, ReturnsSlot(r), CancelsRest
      PROVE  Covered' /\ Accounted'
  <2>1. IsFiniteSet(Counted') /\ Cardinality(Counted') = Cardinality(Counted) - 1 /\ Cardinality(Counted') \in Nat
    BY <1>0, <1>6, FS_RemoveElement, FS_CardinalityType DEF ReturnsSlot
  <2>2. active' = active - 1
    BY <1>0, <1>6, <2>1 DEF ReturnsSlot, Less
  <2>. QED BY <1>0, <1>1, <1>6, <2>1, <2>2 DEF Covered, Accounted
<1>7. ASSUME NEW r \in Reads, LosesSlot(r), GivesUp(r)
      PROVE  Covered' /\ Accounted'
  <2>1. /\ IsFiniteSet(GivingUp') /\ Cardinality(GivingUp') = Cardinality(GivingUp) - 1
        /\ cancels' = cancels /\ active' = active
    BY <1>0, <1>7, FS_RemoveElement DEF LosesSlot, GivesUp
  <2>2. CASE r \in Counted
    <3>1. IsFiniteSet(Counted') /\ Cardinality(Counted') = Cardinality(Counted) - 1
      BY <1>0, <1>7, <2>2, FS_RemoveElement DEF LosesSlot
    <3>. QED BY <1>0, <2>1, <3>1 DEF Covered, Accounted
  <2>3. CASE r \notin Counted
    <3>1. Counted' = Counted
      BY <1>7, <2>3 DEF LosesSlot
    <3>. QED BY <1>0, <2>1, <3>1 DEF Covered, Accounted
  <2>. QED BY <2>2, <2>3
<1>. QED BY <1>5, <1>6, <1>7, <1>3, <1>4, SlotSteps

LEMMA SlotsAlways == Spec => [](Covered /\ Accounted)
<1>1. Init => Covered /\ Accounted
  <2>. SUFFICES ASSUME Init
                PROVE  Covered /\ Accounted
    OBVIOUS
  <2>1. Counted = {} /\ GivingUp = {} /\ active = 0 /\ cancels = 0
    BY DEF Init, Counted, GivingUp
  <2>2. IsFiniteSet({}) /\ Cardinality({}) = 0
    BY FS_EmptySet
  <2>. HIDE DEF Counted, GivingUp
  <2>. QED BY <2>1, <2>2 DEF Covered, Accounted
<1>2. Inv /\ (Covered /\ Accounted) /\ [Next]_vars => (Covered /\ Accounted)'
  BY SlotsNext
<1>. QED BY <1>1, <1>2, InvAlways, PTL DEF Spec

(* No read is on its way, and none has been told that it may go, without a *)
(* slot that is counted, and no more slots are counted than there are      *)
(* (SlotsCoverReads).                                                      *)
THEOREM SlotsCoverReadsAlways == Spec => []SlotsCoverReads
<1>1. Inv /\ Covered => SlotsCoverReads
  BY Ticks DEF Inv, TypeOK, Covered, Counted, SlotsCoverReads
<1>. QED BY <1>1, SlotsAlways, InvAlways, PTL

(* Slots without a read.                                                   *)
LostSlots == active <= Cardinality(Counted) + cancels

(* A slot is only ever lost to a cancelled context, each to one of its own: *)
(* before as many are cancelled as there are slots, a slot is left.         *)
THEOREM LostSlotsAlways == Spec => []LostSlots
<1>1. Inv /\ Covered /\ Accounted => LostSlots
  <2>. SUFFICES ASSUME Inv, Covered, Accounted
                PROVE  active <= Cardinality(Counted) + cancels
    BY DEF LostSlots
  <2>1. Cardinality(Counted) \in Nat /\ Cardinality(GivingUp) \in Nat /\ active \in Nat /\ cancels \in Nat
    BY FS_CardinalityType, Ticks DEF Covered, Accounted, Inv, TypeOK
  <2>. QED BY <2>1 DEF Accounted
<1>. QED BY <1>1, SlotsAlways, InvAlways, PTL

-----------------------------------------------------------------------------
(* Wakeups.                                                                *)

(* The scheduler never sleeps, without a token to wake it, over a read it  *)
(* could serve: whatever makes a read servable leaves a token              *)
(* (NoLostWakeup).                                                         *)
THEOREM NoLostWakeupAlways == Spec => []NoLostWakeup
<1>1. Init => NoLostWakeup
  BY DEF Init, NoLostWakeup, Live
<1>2. NoLostWakeup /\ [Next]_vars => NoLostWakeup'
  <2>. SUFFICES ASSUME NoLostWakeup, [Next]_vars, sched' \in {"off", "asleep"}, ~wake'
                PROVE  Full' \/ Live' = {}
    BY DEF NoLostWakeup
  <2>1. ASSUME UNCHANGED <<queue, active, wake, sched>>, cancelled \subseteq cancelled'
        PROVE  Full' \/ Live' = {}
    BY <2>1 DEF NoLostWakeup, Full, Live
  <2>2. CASE UNCHANGED vars
    BY <2>1, <2>2 DEF vars, queueVars, schedVars
  <2>3. CASE Scheduler \/ Tick
    <3>1. CASE Sleep
      BY <3>1 DEF Sleep, Keep, Full, Live
    <3>2. CASE Tick
      BY <2>1, <3>2 DEF Tick, queueVars
    <3>3. ~SleepUntilDeadline /\ ~Grant /\ ~WakeUp /\ ~TimerFires
      BY DEF SleepUntilDeadline, Grant, WakeUp, TimerFires, schedVars
    <3>. QED BY <2>3, <3>1, <3>2, <3>3 DEF Scheduler
  <2>4. ASSUME NEW r \in Reads, Refuse(r) \/ TakeSlot(r) \/ BackoffEnds(r) \/ Cancel(r)
        PROVE  Full' \/ Live' = {}
    BY <2>1, <2>4 DEF Refuse, TakeSlot, BackoffEnds, Cancel, End, queueVars, schedVars
  <2>5. ASSUME NEW r \in Reads
        PROVE  /\ ~Acquire(r) /\ ~Abandon(r) /\ ~Answer(r) /\ ~TooManyRequests(r)
               /\ ~CoolDown(r) /\ ~BackOff(r)
    BY DEF Acquire, Abandon, Answer, TooManyRequests, CoolDown, BackOff, Release
  <2>. QED BY <2>2, <2>3, <2>4, <2>5 DEF Next, Proceed
<1>. QED BY <1>1, <1>2, PTL DEF Spec

(* When the scheduler sleeps until a deadline, its timer is set to the     *)
(* moment the next grant is allowed.                                       *)
TimerIsDeadline == sched = "timing" /\ ~wake => timer = Wait

(* The scheduler never sleeps past the moment it may grant again, though   *)
(* the shared cooldown may be prolonged while it sleeps (CoolDown leaves a *)
(* token, so that it sets its timer anew).                                 *)
THEOREM TimerIsDeadlineAlways == Spec => []TimerIsDeadline
<1>1. Init => TimerIsDeadline
  BY DEF Init, TimerIsDeadline
<1>2. Inv /\ TimerIsDeadline /\ [Next]_vars => TimerIsDeadline'
  <2>. SUFFICES ASSUME Inv, TimerIsDeadline, [Next]_vars, sched' = "timing", ~wake'
                PROVE  timer' = Wait'
    BY DEF TimerIsDeadline
  <2>1. ASSUME UNCHANGED <<sched, wake, timer, gap, cool>>
        PROVE  timer' = Wait'
    BY <2>1 DEF TimerIsDeadline, Wait
  <2>2. CASE UNCHANGED vars
    BY <2>1, <2>2 DEF vars, schedVars
  <2>3. CASE Scheduler \/ Tick
    <3>1. CASE SleepUntilDeadline
      BY <3>1 DEF SleepUntilDeadline, Wait
    <3>2. CASE Tick
      <4>1. timer = Wait /\ gap \in Nat /\ cool \in Nat
        BY <3>2, Ticks DEF Tick, TimerIsDeadline, Inv, TypeOK
      <4>2. \A m, n \in Nat : Less(Later(m, n)) = Later(Less(m), Less(n))
        BY DEF Less, Later
      <4>3. timer' = Less(timer) /\ gap' = Less(gap) /\ cool' = Less(cool)
        BY <3>2 DEF Tick
      <4>. QED BY <4>1, <4>2, <4>3 DEF Wait
    <3>3. ~Sleep /\ ~Grant /\ ~WakeUp /\ ~TimerFires
      BY DEF Sleep, Grant, WakeUp, TimerFires, schedVars
    <3>. QED BY <2>3, <3>1, <3>2, <3>3 DEF Scheduler
  <2>4. ASSUME NEW r \in Reads, Refuse(r) \/ TakeSlot(r) \/ BackoffEnds(r) \/ Cancel(r)
        PROVE  timer' = Wait'
    BY <2>1, <2>4 DEF Refuse, TakeSlot, BackoffEnds, Cancel, schedVars
  <2>5. ASSUME NEW r \in Reads
        PROVE  /\ ~Acquire(r) /\ ~Abandon(r) /\ ~Answer(r) /\ ~TooManyRequests(r)
               /\ ~CoolDown(r) /\ ~BackOff(r)
    BY DEF Acquire, Abandon, Answer, TooManyRequests, CoolDown, BackOff, Release
  <2>. QED BY <2>2, <2>3, <2>4, <2>5 DEF Next, Proceed
<1>. QED BY <1>1, <1>2, InvAlways, PTL DEF Spec

-----------------------------------------------------------------------------
(* The next read.                                                          *)

(* Among finitely many things in a total order one is the least.           *)
LEMMA LeastElement ==
  ASSUME NEW S, IsFiniteSet(S), S # {}, NEW R,
         \A x, y \in S : x # y => <<x, y>> \in R \/ <<y, x>> \in R,
         \A x, y, z \in S : <<x, y>> \in R /\ <<y, z>> \in R => <<x, z>> \in R
  PROVE  \E x \in S : \A y \in S \ {x} : <<x, y>> \in R
<1>. DEFINE Least(T) == \E x \in T : \A y \in T \ {x} : <<x, y>> \in R
            Sizes == {n \in Nat : \E T \in SUBSET S : T # {} /\ Cardinality(T) = n /\ ~Least(T)}
<1>1. \A T \in SUBSET S : IsFiniteSet(T) /\ Cardinality(T) \in Nat
  BY FS_Subset, FS_CardinalityType
<1>2. Sizes = {}
  <2>. SUFFICES ASSUME Sizes # {}
                PROVE  FALSE
    OBVIOUS
  <2>1. PICK n \in Sizes : \A m \in Sizes : ~(m < n)
    <3>. DEFINE L == {ss \in Nat \X Nat : ss[1] < ss[2]}
    <3>1. IsWellFoundedOn(L, Nat)
      BY NatLessThanWellFounded DEF OpToRel
    <3>2. Sizes \subseteq Nat
      OBVIOUS
    <3>3. \A m, n \in Nat : <<m, n>> \in L <=> m < n
      OBVIOUS
    <3>. HIDE DEF L, Sizes
    <3>4. \E n \in Sizes : \A m \in Sizes : ~(<<m, n>> \in L)
      BY <3>1, <3>2, WFMin
    <3>. QED BY <3>2, <3>3, <3>4
  <2>2. PICK T \in SUBSET S : T # {} /\ Cardinality(T) = n /\ ~Least(T)
    OBVIOUS
  <2>3. PICK x \in T : TRUE
    BY <2>2
  <2>. DEFINE U == T \ {x}
  <2>4. Cardinality(U) = n - 1 /\ n - 1 \in Nat /\ n - 1 < n
    <3>1. IsFiniteSet(T) /\ Cardinality(U) = Cardinality(T) - 1 /\ Cardinality(U) \in Nat
      BY <1>1, FS_RemoveElement
    <3>2. n \in Nat /\ n = Cardinality(T)
      BY <2>2
    <3>. QED BY <3>1, <3>2
  <2>5. CASE U = {}
    BY <2>2, <2>5
  <2>6. CASE U # {}
    <3>1. Least(U)
      <4>1. n - 1 \notin Sizes
        BY <2>1, <2>4
      <4>. HIDE DEF Least
      <4>. QED BY <2>4, <2>6, <4>1
    <3>2. PICK y \in U : \A z \in U \ {y} : <<y, z>> \in R
      BY <3>1
    <3>3. CASE <<y, x>> \in R
      BY <2>2, <3>2, <3>3
    <3>4. CASE <<x, y>> \in R
      <4>1. \A z \in U : <<x, z>> \in R
        BY <3>2, <3>4
      <4>. QED BY <2>2, <4>1
    <3>. QED BY <3>2, <3>3, <3>4
  <2>. QED BY <2>5, <2>6
<1>3. Cardinality(S) \notin Sizes
  BY <1>2
<1>. QED BY <1>1, <1>3

(* One read is next whenever reads wait, so the order and the priorities   *)
(* leave the scheduler no choice.                                          *)
OneIsNext ==
  Live # {} => \E r \in Live : Best(r) /\ \A s \in Live : Best(s) => s = r

LEMMA GoesFirstOrders ==
  ASSUME Inv
  PROVE  /\ \A r, s \in Live : r # s => GoesFirst(r, s) \/ GoesFirst(s, r)
         /\ \A r, s \in Live : ~(GoesFirst(r, s) /\ GoesFirst(s, r))
         /\ \A r, s, t \in Live : GoesFirst(r, s) /\ GoesFirst(s, t) => GoesFirst(r, t)
<1>1. /\ Live \subseteq queue
      /\ \A r \in Live : r \in Reads /\ Priority[r] \in Nat
      /\ limiter \in {"requester", "transport"}
  BY PriorityAssumption, LimitersAssumption DEF Inv, TypeOK, InOrder, Live
<1>2. /\ \A r, s \in Live : r # s => <<r, s>> \in before \/ <<s, r>> \in before
      /\ \A r, s \in Live : ~(<<r, s>> \in before /\ <<s, r>> \in before)
      /\ \A r, s, t \in Live : <<r, s>> \in before /\ <<s, t>> \in before => <<r, t>> \in before
  BY <1>1 DEF Inv, TypeOK, InOrder
<1>3. ASSUME NEW r \in Live, NEW s \in Live
      PROVE  /\ r # s => GoesFirst(r, s) \/ GoesFirst(s, r)
             /\ ~(GoesFirst(r, s) /\ GoesFirst(s, r))
  BY <1>1, <1>2 DEF GoesFirst
<1>4. ASSUME NEW r \in Live, NEW s \in Live, NEW t \in Live, GoesFirst(r, s), GoesFirst(s, t)
      PROVE  GoesFirst(r, t)
  BY <1>1, <1>2, <1>4 DEF GoesFirst
<1>. QED BY <1>3, <1>4

(* However reads join, are served, retry or give up, one of those that     *)
(* wait is always next, and only one (runReadScheduler's choice of best).  *)
THEOREM OneIsNextAlways == Spec => []OneIsNext
<1>1. Inv => OneIsNext
  <2>. SUFFICES ASSUME Inv, Live # {}
                PROVE  \E r \in Live : Best(r) /\ \A s \in Live : Best(s) => s = r
    BY DEF OneIsNext
  <2>. DEFINE R == {x \in Live \X Live : GoesFirst(x[1], x[2])}
  <2>1. \A r, s \in Live : <<r, s>> \in R <=> GoesFirst(r, s)
    OBVIOUS
  <2>. HIDE DEF R
  <2>2. IsFiniteSet(Live)
    BY FS_Subset DEF Inv, Live
  <2>3. \E r \in Live : \A s \in Live \ {r} : <<r, s>> \in R
    <3>1. /\ \A x, y \in Live : x # y => <<x, y>> \in R \/ <<y, x>> \in R
          /\ \A x, y, z \in Live : <<x, y>> \in R /\ <<y, z>> \in R => <<x, z>> \in R
      BY <2>1, GoesFirstOrders
    <3>. QED BY <2>2, <3>1, LeastElement
  <2>4. PICK r \in Live : \A s \in Live \ {r} : GoesFirst(r, s)
    BY <2>1, <2>3
  <2>5. Best(r)
    BY <2>4 DEF Best
  <2>6. ASSUME NEW s \in Live, Best(s), s # r
        PROVE  FALSE
    <3>1. GoesFirst(r, s) /\ GoesFirst(s, r)
      BY <2>4, <2>6 DEF Best
    <3>. QED BY <3>1, GoesFirstOrders
  <2>. QED BY <2>5, <2>6
<1>. QED BY <1>1, InvAlways, PTL
=============================================================================
