---------------------------- MODULE KernelQueue ----------------------------
(***************************************************************************)
(* A FreeRTOS queue: xQueueGenericSend, xQueueGenericReceive and           *)
(* xQueueGiveFromISR, with the scheduler lists and the tick they block on. *)
(* Every semaphore and mailbox of the program is one: the semaphore the    *)
(* Ethernet interrupt gives (EthRx), the mailbox of tcpip_thread, the      *)
(* semaphore a lwIP call waits on.  The message itself is left out: a      *)
(* queue is its number of messages.                                        *)
(*                                                                         *)
(* One action is one critical section, or one statement between two of     *)
(* them; the tick and the interrupt that gives may come before each.       *)
(* TickType_t has TickRange values, so the tick wraps as the 32-bit        *)
(* counter does.  Local variables of a call are reset when it returns.     *)
(***************************************************************************)
EXTENDS Integers, Sequences, FiniteSets, Functions, SequencesExt

CONSTANTS
  Receivers, Senders,  \* tasks, by the call they make
  Priority,            \* uxPriority of each task
  None,                \* no task
  uxLength,            \* messages the queue holds
  TickRange,           \* number of values of TickType_t
  Waits,               \* block times the calls of each task ask for
  MaxPended            \* bound: ticks while the scheduler is suspended

Tasks         == Receivers \cup Senders
Ticks         == 0 .. TickRange - 1
portMAX_DELAY == TickRange - 1

\* The list of the tasks that wait to receive, and that of those that wait to send.
Sides == {"recv", "send"}

ASSUME QueueAssumption ==
  /\ Receivers \cap Senders = {}
  /\ None \notin Tasks
  /\ IsFiniteSet(Tasks)
  /\ Priority \in [Tasks -> Nat]
  /\ uxLength \in Nat \ {0}
  /\ TickRange \in Nat \ {0, 1}
  /\ Waits \in [Tasks -> SUBSET Ticks]
  /\ MaxPended \in Nat \ {0}

VARIABLES
  count,      \* uxMessagesWaiting
  lock,       \* xTxLock (of the receivers' list) and xRxLock (of the senders')
  lists,      \* tick, ready, delayed and event lists: see ListsType
  suspender,  \* the task that suspended the scheduler, or None
  pending,    \* xPendingReadyList
  pended,     \* uxPendedTicks
  pc,         \* where each task is in its call
  toWait,     \* xTicksToWait of each call
  entered,    \* xTimeOut.xTimeOnEntering
  timing,     \* xEntryTimeSet
  timedOut,   \* the call found that its time had expired
  asked,      \* history: the block time the call was given
  elapsed,    \* history: tick interrupts since the call
  slept       \* history: tick interrupts since the task blocked

queueVars == <<count, lock>>
taskVars  == <<toWait, entered, timing, asked>>
vars == <<queueVars, lists, suspender, pending, pended, pc, taskVars,
          timedOut, elapsed, slept>>

Side(t)     == IF t \in Receivers THEN "recv" ELSE "send"
Opposite(t) == IF t \in Receivers THEN "send" ELSE "recv"

Unlocked == -1   \* queueUNLOCKED; queueLOCKED_UNMODIFIED is 0

\* The longest block time that is not "for ever".
Longest == TickRange - 2

Init ==
  /\ count = 0
  /\ lock = [s \in Sides |-> Unlocked]
  /\ lists = [tick    |-> 0,
              next    |-> portMAX_DELAY,
              ready   |-> Tasks,
              delayed |-> [t \in Tasks |-> "none"],
              wake    |-> [t \in Tasks |-> 0],
              wrapped |-> [t \in Tasks |-> FALSE],
              waiting |-> [s \in Sides |-> <<>>]]
  /\ suspender = None
  /\ pending = {}
  /\ pended = 0
  /\ pc = [t \in Tasks |-> "out"]
  /\ toWait = [t \in Tasks |-> 0]
  /\ entered = [t \in Tasks |-> 0]
  /\ timing = [t \in Tasks |-> FALSE]
  /\ timedOut = [t \in Tasks |-> FALSE]
  /\ asked = [t \in Tasks |-> 0]
  /\ elapsed = [t \in Tasks |-> 0]
  /\ slept = [t \in Tasks |-> 0]

-----------------------------------------------------------------------------
(* The scheduler's lists                                                   *)

ListsType ==
  [tick : Ticks, next : Ticks, ready : SUBSET Tasks,
   delayed : [Tasks -> {"none", "current", "overflow", "suspended"}],
   wake : [Tasks -> Ticks],
   wrapped : [Tasks -> BOOLEAN],       \* the tick has wrapped since the call read it
   waiting : [Sides -> Seq(Tasks)]]    \* xTasksWaitingToReceive, xTasksWaitingToSend

Current(l) == {t \in Tasks : l.delayed[t] = "current"}

\* prvResetNextTaskUnblockTime, and the end of the loop of the tick.
NextUnblockTime(l) ==
  IF Current(l) = {} THEN portMAX_DELAY
  ELSE CHOOSE w \in Ticks : /\ \E t \in Current(l) : l.wake[t] = w
                            /\ \A t \in Current(l) : w <= l.wake[t]

\* The tasks of T leave an event list.
Leave(seq, T) ==
  LET kept[i \in 0 .. Len(seq)] ==
        IF i = 0 THEN <<>>
        ELSE IF seq[i] \in T THEN kept[i - 1] ELSE Append(kept[i - 1], seq[i])
  IN  kept[Len(seq)]

\* Tasks leave the delayed list, or the suspended one, for the ready list.
Ready(l, T) ==
  [l EXCEPT !.ready   = @ \cup T,
            !.delayed = [t \in Tasks |-> IF t \in T THEN "none" ELSE @[t]],
            !.wake    = [t \in Tasks |-> IF t \in T THEN 0 ELSE @[t]]]

\* taskSWITCH_DELAYED_LISTS, when the tick has wrapped.
SwitchDelayedLists(l) ==
  LET turned == [l EXCEPT
        !.delayed = [t \in Tasks |-> IF @[t] = "overflow" THEN "current" ELSE @[t]],
        !.wrapped = timing]
  IN  [turned EXCEPT !.next = NextUnblockTime(turned)]

\* Faulty variant: the task stays on the event list it waited on.
UnblockExpiredListed(l) ==
  LET expired == {t \in Current(l) : l.wake[t] <= l.tick}
      left == Ready(l, expired)
  IN  [left EXCEPT !.next = NextUnblockTime(left)]

\* The loop of xTaskIncrementTick: every task whose time has come leaves the
\* delayed list and its event list.
UnblockExpired(l) ==
  LET expired == {t \in Current(l) : l.wake[t] <= l.tick}
      left == [Ready(l, expired) EXCEPT
                 !.waiting = [s \in Sides |-> Leave(@[s], expired)]]
  IN  [left EXCEPT !.next = NextUnblockTime(left)]

\* xTaskIncrementTick with the scheduler running.
IncrementTick(l) ==
  LET now == (l.tick + 1) % TickRange
      set == [l EXCEPT !.tick = now]
      l1  == IF now = 0 THEN SwitchDelayedLists(set) ELSE set
  IN  IF now >= l1.next THEN UnblockExpired(l1) ELSE l1

\* xTaskResumeAll: the ticks that came while the scheduler was suspended.
PendedTicks(l, n) ==
  LET after[i \in 0 .. n] == IF i = 0 THEN l ELSE IncrementTick(after[i - 1])
  IN  after[n]

\* xTaskRemoveFromEventList for n tasks, as far as the list s has them; they
\* go to the ready list, or to xPendingReadyList if the scheduler is suspended.
Heads(l, s, n) == {l.waiting[s][i] : i \in 1 .. IF n < Len(l.waiting[s])
                                                THEN n ELSE Len(l.waiting[s])}

RemoveFromEventList(s, n) ==
  LET woken == Heads(lists, s, n)
      left  == [lists EXCEPT !.waiting[s] = Leave(@, woken)]
  IN  IF suspender = None
      THEN lists' = Ready(left, woken) /\ UNCHANGED pending
      ELSE /\ lists' = left
           /\ pending' = pending \cup woken

\* Faulty variant: first come, first served.
InsertLast(seq, t) == Append(seq, t)

\* vListInsert of a task in an event list: before the first of lower priority.
InsertByPriority(seq, t) ==
  InsertAt(seq, CHOOSE i \in 1 .. Len(seq) + 1 :
                  /\ i <= Len(seq) => Priority[seq[i]] < Priority[t]
                  /\ \A j \in 1 .. i - 1 : Priority[seq[j]] >= Priority[t],
           t)

\* Faulty variant: the wake-up of a task that blocks is not brought forward.
PlaceOnEventListStale(l, t) ==
  LET wake == (l.tick + toWait[t]) % TickRange
      left == [l EXCEPT !.waiting[Side(t)] = InsertByPriority(@, t),
                        !.ready = @ \ {t}]
  IN  IF toWait[t] = portMAX_DELAY
      THEN [left EXCEPT !.delayed[t] = "suspended"]
      ELSE IF wake < l.tick
      THEN [left EXCEPT !.delayed[t] = "overflow", !.wake[t] = wake]
      ELSE [left EXCEPT !.delayed[t] = "current", !.wake[t] = wake]

\* Faulty variant: every task that blocks goes to the suspended list.
PlaceOnSuspendedList(l, t) ==
  [l EXCEPT !.waiting[Side(t)] = InsertByPriority(@, t),
            !.ready = @ \ {t},
            !.delayed[t] = "suspended"]

\* vTaskPlaceOnEventList and prvAddCurrentTaskToDelayedList.
PlaceOnEventList(l, t) ==
  LET wake == (l.tick + toWait[t]) % TickRange
      left == [l EXCEPT !.waiting[Side(t)] = InsertByPriority(@, t),
                        !.ready = @ \ {t}]
  IN  IF toWait[t] = portMAX_DELAY
      THEN [left EXCEPT !.delayed[t] = "suspended"]
      ELSE IF wake < l.tick
      THEN [left EXCEPT !.delayed[t] = "overflow", !.wake[t] = wake]
      ELSE [left EXCEPT !.delayed[t] = "current", !.wake[t] = wake,
                        !.next = IF wake < @ THEN wake ELSE @]

\* The running task: the one that suspended the scheduler, or any ready task
\* of the highest priority (they share the processor tick by tick).
Running(t) ==
  IF suspender # None THEN t = suspender
  ELSE /\ t \in lists.ready
       /\ \A u \in lists.ready : Priority[u] <= Priority[t]

-----------------------------------------------------------------------------
(* The calls of a task                                                     *)

Goto(t, label) == pc' = [pc EXCEPT ![t] = label]

Call(t, ticks) ==
  /\ Running(t) /\ pc[t] = "out"
  /\ Goto(t, "try")
  /\ toWait' = [toWait EXCEPT ![t] = ticks]
  /\ asked' = [asked EXCEPT ![t] = ticks]
  /\ elapsed' = [elapsed EXCEPT ![t] = 0]
  /\ UNCHANGED <<queueVars, lists, suspender, pending, pended, entered, timing,
                 timedOut, slept>>

\* The call returns: its local variables are gone.
Return(t) ==
  /\ Goto(t, "out")
  /\ toWait' = [toWait EXCEPT ![t] = 0]
  /\ entered' = [entered EXCEPT ![t] = 0]
  /\ timing' = [timing EXCEPT ![t] = FALSE]
  /\ timedOut' = [timedOut EXCEPT ![t] = FALSE]
  /\ asked' = [asked EXCEPT ![t] = 0]
  /\ elapsed' = [elapsed EXCEPT ![t] = 0]
  /\ slept' = [slept EXCEPT ![t] = 0]

Possible(t) == IF t \in Receivers THEN count > 0 ELSE count < uxLength

\* First critical section of the loop: the message is taken or stored, and the
\* first task that waits for it, or for its room, is woken.
TrySucceeds(t) ==
  /\ Running(t) /\ pc[t] = "try" /\ Possible(t)
  /\ count' = IF t \in Receivers THEN count - 1 ELSE count + 1
  /\ RemoveFromEventList(Opposite(t), 1)
  /\ Return(t)
  /\ UNCHANGED <<lock, suspender, pended>>

TryFails(t) ==
  /\ Running(t) /\ pc[t] = "try" /\ ~Possible(t)
  /\ toWait[t] = 0
  /\ Return(t)
  /\ UNCHANGED <<queueVars, lists, suspender, pending, pended>>

\* The call will block: vTaskSetTimeOutState, the first time round the loop (a
\* call that waits for ever never reads the time, which is left out for it).
TryBlocks(t) ==
  /\ Running(t) /\ pc[t] = "try" /\ ~Possible(t)
  /\ toWait[t] # 0
  /\ Goto(t, "suspend")
  /\ timing' = [timing EXCEPT ![t] = toWait[t] # portMAX_DELAY]
  /\ entered' = [entered EXCEPT ![t] = IF timing'[t] /\ ~timing[t]
                                       THEN lists.tick ELSE @]
  /\ lists' = [lists EXCEPT !.wrapped[t] = timing[t] /\ @]
  /\ slept' = [slept EXCEPT ![t] = 0]
  /\ UNCHANGED <<queueVars, suspender, pending, pended, toWait, timedOut,
                 asked, elapsed>>

\* vTaskSuspendAll.
SuspendAll(t) ==
  /\ Running(t) /\ pc[t] = "suspend"
  /\ suspender' = t
  /\ Goto(t, "lock")
  /\ UNCHANGED <<queueVars, lists, pending, pended, taskVars, timedOut,
                 elapsed, slept>>

\* prvLockQueue.
LockQueue(t) ==
  /\ Running(t) /\ pc[t] = "lock"
  /\ lock' = [s \in Sides |-> IF lock[s] = Unlocked THEN 0 ELSE lock[s]]
  /\ Goto(t, "check")
  /\ UNCHANGED <<count, lists, suspender, pending, pended, taskVars, timedOut,
                 elapsed, slept>>

\* Ticks between xTimeOnEntering and now, as the unsigned subtraction has them.
Passed(t) == (lists.tick - entered[t]) % TickRange

\* Faulty variant: the call gives up one tick early.
ExpiredEarly(t) ==
  /\ toWait[t] # portMAX_DELAY
  /\ \/ lists.wrapped[t] /\ lists.tick >= entered[t]
     \/ Passed(t) + 1 >= toWait[t]

Expired(t) ==
  /\ toWait[t] # portMAX_DELAY
  /\ \/ lists.wrapped[t] /\ lists.tick >= entered[t]
     \/ Passed(t) >= toWait[t]

\* xTaskCheckForTimeOut.  A call that may go on waits for what is left.
CheckForTimeOut(t) ==
  /\ Running(t) /\ pc[t] = "check"
  /\ IF Expired(t)
     THEN /\ timedOut' = [timedOut EXCEPT ![t] = TRUE]
          /\ Goto(t, "unlockTx")
          /\ UNCHANGED <<lists, toWait, entered>>
     ELSE /\ Goto(t, "examine")
          /\ IF toWait[t] = portMAX_DELAY
             THEN UNCHANGED <<lists, toWait, entered>>
             ELSE /\ toWait' = [toWait EXCEPT ![t] = @ - Passed(t)]
                  /\ entered' = [entered EXCEPT ![t] = lists.tick]
                  /\ lists' = [lists EXCEPT !.wrapped[t] = FALSE]
          /\ UNCHANGED timedOut
  /\ UNCHANGED <<queueVars, suspender, pending, pended, timing, asked,
                 elapsed, slept>>

\* prvIsQueueEmpty, prvIsQueueFull: try again if it changed in between.
Examine(t) ==
  /\ Running(t) /\ pc[t] = "examine"
  /\ Goto(t, IF Possible(t) THEN "unlockTx" ELSE "place")
  /\ UNCHANGED <<queueVars, lists, suspender, pending, pended, taskVars,
                 timedOut, elapsed, slept>>

Place(t) ==
  /\ Running(t) /\ pc[t] = "place"
  /\ lists' = PlaceOnEventList(lists, t)
  /\ Goto(t, "unlockTx")
  /\ UNCHANGED <<queueVars, suspender, pending, pended, taskVars, timedOut,
                 elapsed, slept>>

\* Faulty variant: messages sent while the queue was locked wake nobody.
UnlockSilent(t, s) ==
  /\ lock' = [lock EXCEPT ![s] = Unlocked]
  /\ UNCHANGED <<count, lists, pending, suspender, pended, taskVars, timedOut,
                 elapsed, slept>>

\* prvUnlockQueue: one waiting task is woken for each message that an interrupt
\* sent meanwhile, then, in a second critical section, for each one taken.
Unlock(t, s) ==
  /\ RemoveFromEventList(s, lock[s])
  /\ lock' = [lock EXCEPT ![s] = Unlocked]
  /\ UNCHANGED <<count, suspender, pended, taskVars, timedOut, elapsed, slept>>

UnlockTx(t) == /\ Running(t) /\ pc[t] = "unlockTx"
               /\ Unlock(t, "recv") /\ Goto(t, "unlockRx")
UnlockRx(t) == /\ Running(t) /\ pc[t] = "unlockRx"
               /\ Unlock(t, "send") /\ Goto(t, "resume")

\* Faulty variant: ticks that came while the scheduler was suspended are lost.
ResumeAllLosesTicks(t) ==
  /\ Running(t) /\ pc[t] = "resume"
  /\ suspender' = None
  /\ lists' = Ready(lists, pending)
  /\ pending' = {}
  /\ pended' = 0
  /\ IF timedOut[t] THEN Return(t)
     ELSE /\ Goto(t, "try")
          /\ UNCHANGED <<taskVars, timedOut, elapsed, slept>>
  /\ UNCHANGED queueVars

\* xTaskResumeAll; then the call returns, or goes round the loop, at once or
\* when it is woken.
ResumeAll(t) ==
  /\ Running(t) /\ pc[t] = "resume"
  /\ suspender' = None
  /\ lists' = PendedTicks(Ready(lists, pending), pended)
  /\ pending' = {}
  /\ pended' = 0
  /\ IF timedOut[t] THEN Return(t)
     ELSE /\ Goto(t, "try")
          /\ UNCHANGED <<taskVars, timedOut, elapsed, slept>>
  /\ UNCHANGED queueVars

-----------------------------------------------------------------------------
(* Interrupts                                                              *)

\* Faulty variant: the interrupt does not look whether the queue is full.
GiveFromISRUnchecked ==
  /\ count' = count + 1
  /\ IF lock["recv"] = Unlocked
     THEN RemoveFromEventList("recv", 1) /\ UNCHANGED lock
     ELSE /\ lock' = [lock EXCEPT !["recv"] = @ + 1]
          /\ UNCHANGED <<lists, pending>>
  /\ UNCHANGED <<suspender, pended, pc, taskVars, timedOut, elapsed, slept>>

\* xQueueGiveFromISR: a locked queue only counts what was sent.
GiveFromISR ==
  /\ count < uxLength
  /\ count' = count + 1
  /\ IF lock["recv"] = Unlocked
     THEN RemoveFromEventList("recv", 1) /\ UNCHANGED lock
     ELSE /\ lock' = [lock EXCEPT !["recv"] = @ + 1]
          /\ UNCHANGED <<lists, pending>>
  /\ UNCHANGED <<suspender, pended, pc, taskVars, timedOut, elapsed, slept>>

\* xTaskIncrementTick: pended while the scheduler is suspended.
Tick ==
  /\ IF suspender = None
     THEN lists' = IncrementTick(lists) /\ UNCHANGED pended
     ELSE /\ pended < MaxPended
          /\ pended' = pended + 1
          /\ UNCHANGED lists
  /\ elapsed' = [t \in Tasks |-> IF pc[t] = "out" \/ asked[t] \in {elapsed[t], portMAX_DELAY}
                                 THEN elapsed[t] ELSE elapsed[t] + 1]
  /\ slept' = [t \in Tasks |-> IF lists.delayed[t] \in {"current", "overflow"}
                                  /\ slept[t] <= Longest
                               THEN slept[t] + 1 ELSE slept[t]]
  /\ UNCHANGED <<queueVars, suspender, pending, pc, taskVars, timedOut>>

-----------------------------------------------------------------------------
CallStep(t) ==
  \/ TrySucceeds(t) \/ TryFails(t) \/ TryBlocks(t)
  \/ SuspendAll(t) \/ LockQueue(t) \/ CheckForTimeOut(t) \/ Examine(t)
  \/ Place(t) \/ UnlockTx(t) \/ UnlockRx(t) \/ ResumeAll(t)

Next ==
  \/ \E t \in Tasks : CallStep(t) \/ \E ticks \in Waits[t] : Call(t, ticks)
  \/ GiveFromISR
  \/ Tick

\* The running task goes on with its call, ready tasks of one priority share the
\* processor, and the tick never stops.  When a task calls, and when the
\* interrupt gives, is up to the environment: no fairness.
Fairness == WF_vars(Tick) /\ \A t \in Tasks : SF_vars(CallStep(t))

Spec == Init /\ [][Next]_vars /\ Fairness

-----------------------------------------------------------------------------
(* Properties                                                              *)

\* Types: the count is within the queue, lock counts start at "unlocked", each
\* task is on one delayed list or none.
TypeOK ==
  /\ count \in 0 .. uxLength
  /\ lock \in [Sides -> Unlocked .. uxLength]
  /\ lists \in ListsType
  /\ pending \subseteq Tasks
  /\ suspender \in Tasks \cup {None}
  /\ pended \in 0 .. MaxPended
  /\ toWait \in [Tasks -> Ticks] /\ entered \in [Tasks -> Ticks]
  /\ asked \in [Tasks -> Ticks]
  /\ timing \in [Tasks -> BOOLEAN] /\ timedOut \in [Tasks -> BOOLEAN]
  /\ elapsed \in [Tasks -> Nat] /\ slept \in [Tasks -> Nat]
  /\ pc \in [Tasks -> {"out", "try", "suspend", "lock", "check", "examine",
                       "place", "unlockTx", "unlockRx", "resume"}]

\* A task is on one event list at most, once, and there only while it is
\* blocked; the woken ones wait on no list; and a ready task is on no delayed
\* list, where the tick would find it.
ListsAgree ==
  /\ \A s \in Sides : IsInjective(lists.waiting[s])
  /\ \A t \in Tasks :
       LET listed == \E s \in Sides : t \in Range(lists.waiting[s])
       IN  /\ listed => /\ t \notin lists.ready \cup pending
                        /\ t \in Range(lists.waiting[Side(t)])
                        /\ ~timedOut[t]
           /\ t \in lists.ready <=> lists.delayed[t] = "none"
           /\ t \notin lists.ready => listed \/ t \in pending
  /\ pending # {} => suspender # None

\* Tasks that are awake and will try the queue before they block again.
WillTry(T) == {t \in T : pc[t] = "try" /\ t \in lists.ready}
Woken(T)   == {t \in T : t \in pending}
Counted(s) == IF lock[s] = Unlocked THEN 0 ELSE lock[s]

\* No wake-up is lost: while a task waits to receive, every message in the
\* queue has a task that was woken for it, or is still counted by the lock and
\* will wake one; and so for a task that waits to send and the free places.
NoLostWakeup ==
  /\ lists.waiting["recv"] # <<>> =>
       count <= Cardinality(WillTry(Receivers) \cup Woken(Receivers)) + Counted("recv")
  /\ lists.waiting["send"] # <<>> =>
       uxLength - count <= Cardinality(WillTry(Senders) \cup Woken(Senders))
                           + Counted("send")

\* The cached time of the next wake-up is never later than that of a task on
\* the delayed list, and no task on it should have been woken already.
NextUnblockSound ==
  \A t \in Current(lists) : /\ lists.next <= lists.wake[t]
                            /\ lists.tick < lists.wake[t]

\* A blocked task is not left asleep beyond its time, whatever the wrap of the
\* tick, the switch of the lists or the ticks pended meanwhile.
NeverOversleeps ==
  suspender = None =>
    \A t \in Tasks : lists.delayed[t] \in {"current", "overflow"} => slept[t] < toWait[t]

\* A call never gives up before the ticks it was given have passed.
NeverGivesUpEarly ==
  \A t \in Tasks : timedOut[t] => elapsed[t] >= asked[t]

\* The tasks no other can keep from the processor for ever.
Highest == {t \in Tasks : \A u \in Tasks : Priority[u] <= Priority[t]}

\* A call with a time-out returns, if no task of higher priority runs for ever.
TimedCallReturns ==
  \A t \in Highest :
    (pc[t] # "out" /\ asked[t] # portMAX_DELAY) ~> (pc[t] = "out")

\* A message goes to the waiting task of the highest priority: no receiver takes
\* one while another of higher priority is left waiting for it.
HigherTakesFirst ==
  [][\A t \in Receivers : (count' < count /\ pc[t] = "try" /\ pc'[t] = "out") =>
       \A u \in Range(lists.waiting["recv"]) : Priority[u] <= Priority[t]]_vars
=============================================================================
