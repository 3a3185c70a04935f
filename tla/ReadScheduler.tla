------------------------------ MODULE ReadScheduler ------------------------------
(***************************************************************************)
(* The read limiters of the HH client.  A read queues, a scheduler         *)
(* goroutine grants it one of the slots when the interval since the last   *)
(* grant and the cooldown are over, and the read gives the slot back.      *)
(*                                                                         *)
(* There are two of them: HHRequester ("requester"), with priorities and a *)
(* cooldown all reads share after an HTTP 429, and readTransport of the    *)
(* read adapter ("transport"), first come, first served, in which a read   *)
(* that met a 429 waits on its own.  Every section under the mutex is one  *)
(* step.  The end of the process (the requester's own context) is left     *)
(* out.                                                                    *)
(***************************************************************************)
EXTENDS Integers, FiniteSets

CONSTANTS
  Reads,       \* the goroutines that read, each one request after the other
  Priority,    \* [Reads -> Nat], hhReadPriority
  Limiters,    \* which of the two limiters to look at
  Slots,       \* HH_READ_CONCURRENCY
  Interval,    \* --request-interval, in ticks
  MaxRetries,  \* retries of a read that meets a 429, two in the code
  MaxDelay,    \* bound on the wait after a 429, for model checking
  MaxCancels   \* bound on cancelled contexts, for model checking

ASSUME SlotsAssumption == Slots \in 1..8
ASSUME TicksAssumption == Interval \in Nat /\ MaxRetries \in Nat /\ MaxDelay \in Nat \ {0} /\ MaxCancels \in Nat
ASSUME PriorityAssumption == Priority \in [Reads -> Nat]
ASSUME LimitersAssumption == Limiters \subseteq {"requester", "transport"}

VARIABLES
  limiter,   \* which limiter this is
  queue,     \* the reads of readQueue
  before,    \* their order: pairs of a read and one that queued after it
  active,    \* readActive
  wake,      \* a token in readWake, a channel of capacity one
  sched,     \* the scheduler: not running, awake, asleep, or waiting for a time
  timer,     \* ticks until its timer fires
  gap,       \* ticks until lastStart + interval
  cool,      \* ticks until readNotBefore
  pc,        \* read -> where it is
  tries,     \* read -> attempts that met a 429
  pause,     \* read -> ticks of its own backoff left
  granted,   \* reads whose channel is closed
  cancelled, \* reads whose context is done
  cancels    \* how many contexts were cancelled

schedVars == <<sched, timer>>
readVars == <<pc, tries, pause, granted>>
queueVars == <<queue, before>>
vars == <<limiter, queueVars, active, wake, schedVars, gap, cool, readVars, cancelled, cancels>>

Positions == {"idle", "retry", "queued", "reading", "limited", "backoff"}

Later(m, n) == IF m > n THEN m ELSE n

(* A queue: no two reads in the same place.                                *)
InOrder ==
  /\ queue \subseteq Reads /\ before \subseteq queue \X queue
  /\ \A r \in queue : <<r, r>> \notin before
  /\ \A r, s \in queue : r # s => <<r, s>> \in before \/ <<s, r>> \in before
  /\ \A r, s, t \in queue : <<r, s>> \in before /\ <<s, t>> \in before => <<r, t>> \in before

TypeOK ==
  /\ limiter \in Limiters
  /\ InOrder
  /\ active \in 0..Slots
  /\ wake \in BOOLEAN
  /\ sched \in {"off", "awake", "asleep", "timing"}
  /\ timer \in 0..Later(Interval, MaxDelay)
  /\ gap \in 0..Interval
  /\ cool \in 0..MaxDelay
  /\ pc \in [Reads -> Positions]
  /\ tries \in [Reads -> 0..MaxRetries]
  /\ pause \in [Reads -> 0..MaxDelay]
  /\ granted \in SUBSET Reads /\ cancelled \in SUBSET Reads
  /\ cancels \in 0..MaxCancels

Init ==
  /\ limiter \in Limiters
  /\ queue = {} /\ before = {} /\ active = 0
  /\ wake = FALSE /\ sched = "off" /\ timer = 0
  /\ gap = 0 /\ cool = 0
  /\ pc = [r \in Reads |-> "idle"]
  /\ tries = [r \in Reads |-> 0]
  /\ pause = [r \in Reads |-> 0]
  /\ granted = {} /\ cancelled = {} /\ cancels = 0

-----------------------------------------------------------------------------
(* Reads.                                                                  *)

Less(n) == IF n > 0 THEN n - 1 ELSE 0

Goto(r, step) == pc' = [pc EXCEPT ![r] = step]

(* The request is over, with an answer or an error.                        *)
End(r) ==
  /\ Goto(r, "idle")
  /\ tries' = [tries EXCEPT ![r] = 0]
  /\ granted' = granted \ {r}
  /\ UNCHANGED cancelled

(* The first attempt of a request, or the next one after a 429.  A new     *)
(* request has a new context; the waiter of an abandoned one is gone.      *)
Acquire(r) ==
  /\ \/ pc[r] = "idle" /\ r \notin queue /\ cancelled' = cancelled \ {r}
     \/ pc[r] = "retry" /\ r \notin cancelled /\ UNCHANGED cancelled
  /\ queue' = queue \cup {r} /\ before' = before \cup (queue \X {r})
  /\ sched' = IF sched = "off" THEN "awake" ELSE sched
  /\ wake' = TRUE
  /\ Goto(r, "queued")
  /\ UNCHANGED <<limiter, active, timer, gap, cool, tries, pause, granted, cancels>>

(* A retry whose context is done does not queue.                           *)
Refuse(r) ==
  /\ pc[r] = "retry" /\ r \in cancelled
  /\ End(r)
  /\ UNCHANGED <<limiter, queueVars, active, wake, schedVars, gap, cool, pause, cancels>>

TakeSlot(r) ==
  /\ pc[r] = "queued" /\ r \in granted
  /\ Goto(r, "reading")
  /\ granted' = granted \ {r}
  /\ UNCHANGED <<limiter, queueVars, active, wake, schedVars, gap, cool, tries, pause, cancelled, cancels>>

(* Mutant: giving up also gives back a slot.                               *)
AbandonReturnsSlot(r) ==
  /\ pc[r] = "queued" /\ r \in cancelled
  /\ active' = Less(active)
  /\ wake' = TRUE
  /\ End(r)
  /\ UNCHANGED <<limiter, queueVars, schedVars, gap, cool, pause, cancels>>

(* The context is done.  If the slot was granted as well, select chooses.  *)
Abandon(r) ==
  /\ pc[r] = "queued" /\ r \in cancelled
  /\ wake' = TRUE
  /\ End(r)
  /\ UNCHANGED <<limiter, queueVars, active, schedVars, gap, cool, pause, cancels>>

(* Mutant: nobody wakes the scheduler.                                     *)
ReleaseSilently == active' = Less(active) /\ UNCHANGED wake

Release ==
  /\ active' = Less(active)
  /\ wake' = TRUE

(* An answer, or a failure; a cancelled context makes the request fail.    *)
Answer(r) ==
  /\ pc[r] = "reading"
  /\ Release
  /\ End(r)
  /\ UNCHANGED <<limiter, queueVars, schedVars, gap, cool, pause, cancels>>

(* HTTP 429.  The slot is back before anyone knows of the 429.             *)
TooManyRequests(r) ==
  /\ pc[r] = "reading" /\ limiter = "requester"
  /\ Release
  /\ Goto(r, "limited")
  /\ UNCHANGED <<limiter, queueVars, schedVars, gap, cool, tries, pause, granted, cancelled, cancels>>

(* The shared cooldown; after two retries the 429 is the answer.           *)
CoolDown(r) ==
  /\ pc[r] = "limited"
  /\ \E delay \in 1..MaxDelay : cool' = Later(cool, delay)
  /\ wake' = TRUE
  /\ IF tries[r] >= MaxRetries
       THEN End(r)
       ELSE /\ Goto(r, "retry")
            /\ tries' = [tries EXCEPT ![r] = @ + 1]
            /\ UNCHANGED <<granted, cancelled>>
  /\ UNCHANGED <<limiter, queueVars, active, schedVars, gap, pause, cancels>>

(* HTTP 429 in the transport: this read waits, the others do not.          *)
BackOff(r) ==
  /\ pc[r] = "reading" /\ limiter = "transport" /\ tries[r] < MaxRetries
  /\ Release
  /\ Goto(r, "backoff")
  /\ tries' = [tries EXCEPT ![r] = @ + 1]
  /\ \E delay \in 1..MaxDelay : pause' = [pause EXCEPT ![r] = delay]
  /\ UNCHANGED <<limiter, queueVars, schedVars, gap, cool, granted, cancelled, cancels>>

BackoffEnds(r) ==
  /\ pc[r] = "backoff"
  /\ \/ pause[r] = 0 /\ Goto(r, "retry") /\ UNCHANGED <<tries, granted, cancelled>>
     \/ r \in cancelled /\ End(r)
  /\ pause' = [pause EXCEPT ![r] = 0]
  /\ UNCHANGED <<limiter, queueVars, active, wake, schedVars, gap, cool, cancels>>

Cancel(r) ==
  /\ pc[r] # "idle" /\ r \notin cancelled /\ cancels < MaxCancels
  /\ cancelled' = cancelled \cup {r}
  /\ cancels' = cancels + 1
  /\ UNCHANGED <<limiter, queueVars, active, wake, schedVars, gap, cool, readVars>>

-----------------------------------------------------------------------------
(* The scheduler goroutine, one pass of its loop at a time.                *)

Live == queue \ cancelled

(* The queue goes on with these reads, in the order they have.             *)
Keep(rest) == queue' = rest /\ before' = before \cap (rest \X rest)

(* Mutant: one read too many.                                              *)
FullOffByOne == active > Slots

Full == active >= Slots
Wait == Later(gap, cool)

(* The transport's scheduler ends when nothing is queued.                  *)
Sleep ==
  /\ sched = "awake" /\ (Full \/ Live = {})
  /\ Keep(Live)
  /\ sched' = IF limiter = "transport" /\ Live = {} THEN "off" ELSE "asleep"
  /\ UNCHANGED <<limiter, active, wake, timer, gap, cool, readVars, cancelled, cancels>>

SleepUntilDeadline ==
  /\ sched = "awake" /\ ~Full /\ Live # {} /\ Wait > 0
  /\ Keep(Live)
  /\ sched' = "timing"
  /\ timer' = Wait
  /\ UNCHANGED <<limiter, active, wake, gap, cool, readVars, cancelled, cancels>>

(* Mutant: the lowest priority goes first.                                 *)
LowestFirst(r, s) ==
  \/ limiter = "requester" /\ Priority[r] < Priority[s]
  \/ (limiter = "transport" \/ Priority[r] = Priority[s]) /\ <<r, s>> \in before

(* Higher priorities go first, which the transport does not know, then     *)
(* whoever came first.                                                     *)
GoesFirst(r, s) ==
  \/ limiter = "requester" /\ Priority[r] > Priority[s]
  \/ (limiter = "transport" \/ Priority[r] = Priority[s]) /\ <<r, s>> \in before

Best(r) == r \in Live /\ \A s \in Live \ {r} : GoesFirst(r, s)

Grant ==
  /\ sched = "awake" /\ ~Full /\ Wait = 0
  /\ \E r \in queue :
       /\ Best(r)
       /\ Keep(Live \ {r})
       /\ granted' = granted \cup {r}
  /\ active' = active + 1
  /\ gap' = Interval
  /\ UNCHANGED <<limiter, wake, schedVars, cool, pc, tries, pause, cancelled, cancels>>

(* A token wakes it, asleep or before its timer.                           *)
WakeUp ==
  /\ sched \in {"asleep", "timing"} /\ wake
  /\ sched' = "awake" /\ wake' = FALSE /\ timer' = 0
  /\ UNCHANGED <<limiter, queueVars, active, gap, cool, readVars, cancelled, cancels>>

TimerFires ==
  /\ sched = "timing" /\ timer = 0
  /\ sched' = "awake"
  /\ UNCHANGED <<limiter, queueVars, active, wake, timer, gap, cool, readVars, cancelled, cancels>>

Scheduler == Sleep \/ SleepUntilDeadline \/ Grant \/ WakeUp \/ TimerFires

Tick ==
  /\ \/ gap > 0 \/ cool > 0 \/ timer > 0
     \/ \E r \in Reads : pause[r] > 0
  /\ gap' = Less(gap) /\ cool' = Less(cool) /\ timer' = Less(timer)
  /\ pause' = [r \in Reads |-> Less(pause[r])]
  /\ UNCHANGED <<limiter, queueVars, active, wake, sched, pc, tries, granted, cancelled, cancels>>

(* What a read does on its own once it has begun.                          *)
Proceed(r) ==
  \/ pc[r] = "retry" /\ Acquire(r)
  \/ Refuse(r) \/ TakeSlot(r) \/ Abandon(r) \/ Answer(r)
  \/ TooManyRequests(r) \/ CoolDown(r) \/ BackOff(r) \/ BackoffEnds(r)

Next ==
  \/ Scheduler
  \/ Tick
  \/ \E r \in Reads : Acquire(r) \/ Proceed(r) \/ Cancel(r)

Spec == Init /\ [][Next]_vars

(* Goroutines run, requests have timeouts, time passes.  New requests and  *)
(* cancellations are owed by nobody.                                       *)
FairSpec ==
  /\ Spec
  /\ WF_vars(Scheduler)
  /\ WF_vars(Tick)
  /\ \A r \in Reads : WF_vars(Proceed(r))

-----------------------------------------------------------------------------
(* Properties.                                                             *)

(* Every read at HH, and every read that was granted a slot and has not    *)
(* looked yet, is counted, so no more reads run than there are slots.      *)
SlotsCoverReads ==
  Cardinality({r \in Reads : pc[r] = "reading" \/ r \in granted}) <= active /\ active <= Slots

(* The scheduler never sleeps, without a token to wake it, over a read it  *)
(* could serve.                                                            *)
NoLostWakeup ==
  sched \in {"off", "asleep"} /\ ~wake => Full \/ Live = {}

(* A queued read of the highest priority is served or gives up, however    *)
(* many reads of whatever priority keep coming.                            *)
QueuedReadIsServed ==
  \A r \in Reads :
    (pc[r] = "queued" /\ (limiter = "transport" \/ \A s \in Reads : Priority[s] <= Priority[r]))
      ~> pc[r] # "queued"
=============================================================================
