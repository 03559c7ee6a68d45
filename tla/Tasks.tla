------------------------------- MODULE Tasks -------------------------------
(***************************************************************************)
(* The tasks of main.c and how the FreeRTOS scheduler shares the processor *)
(* between them: the list of ready tasks of each priority with its index,  *)
(* preemption, time slices, the delay of sensor_task and the critical      *)
(* sections of CLOCK_thread, which mask the tick and the context switch.   *)
(*                                                                         *)
(* A list is the sequence of its items after the end marker; the index is  *)
(* a position in it, 0 for the marker.  What a task computes is left out,  *)
(* and so is how it comes to wait for an event (KernelQueue).  The body of *)
(* the idle task is left out as well, because it never runs (IdleNeverRuns *)
(* in TasksProofs).                                                        *)
(***************************************************************************)
EXTENDS Integers, Sequences, SequencesExt

CONSTANTS
  Startup, Clockd, Sensor, Idle,  \* tasks that exist before the scheduler starts
  Services,                       \* tasks startup_task creates, in this order
  Priority,                       \* uxPriority
  configMAX_PRIORITIES,           \* number of ready lists
  DelayTicks                      \* ticks of osDelay(250)

Tasks == {Startup, Clockd, Sensor, Idle} \cup {Services[i] : i \in DOMAIN Services}
Priorities == {Priority[t] : t \in Tasks}

ASSUME TasksAssumption ==
  /\ configMAX_PRIORITIES \in Nat
  /\ Priority \in [Tasks -> 0 .. configMAX_PRIORITIES - 1]
  /\ DelayTicks \in Nat \ {0}
  /\ \A t \in Tasks \ {Idle} : Priority[t] > Priority[Idle]
  /\ \A t \in {Clockd, Sensor, Idle} : Priority[Startup] > Priority[t]

\* The tasks are all different.
ASSUME DistinctAssumption ==
  /\ Startup \notin {Clockd, Sensor, Idle}
  /\ Clockd \notin {Sensor, Idle}
  /\ Sensor # Idle
  /\ Services \in Seq(Tasks \ {Startup, Clockd, Sensor, Idle})
  /\ IsInjective(Services)

VARIABLES
  ready,     \* pxReadyTasksLists
  index,     \* pxIndex of each list
  running,   \* pxCurrentTCB
  pendsv,    \* a context switch is pending
  systick,   \* the tick interrupt is pending
  masked,    \* CLOCK_thread is in its critical section
  delay,     \* ticks until sensor_task wakes, 0 when it is not delayed
  created,   \* number of services created
  deleted,   \* startup_task is on xTasksWaitingTermination
  passed     \* history: how often each ready task was passed over for another
             \* of its priority since it last ran or became ready,
             \* counted up to 3

lists == <<ready, index>>
vars == <<lists, running, pendsv, systick, masked, delay, created, deleted, passed>>

NotPassed == [u \in Tasks |-> 0]

\* main creates the tasks and vTaskStartScheduler the idle task.
Init ==
  /\ LET Entry(p, t) == IF Priority[t] = p THEN <<t>> ELSE <<>>
     IN  ready = [p \in Priorities |->
                    Entry(p, Startup) \o Entry(p, Clockd) \o Entry(p, Sensor) \o Entry(p, Idle)]
  /\ index = [p \in Priorities |-> 0]
  /\ running = Startup
  /\ pendsv = FALSE /\ systick = FALSE /\ masked = FALSE
  /\ delay = 0
  /\ created = 0 /\ deleted = FALSE
  /\ passed = [t \in Tasks |-> NotPassed]

IsReady(t) == \E i \in DOMAIN ready[Priority[t]] : ready[Priority[t]][i] = t

\* A pending interrupt is taken before the task's next instruction.
Runs(t) == running = t /\ (masked \/ ~(pendsv \/ systick))

-----------------------------------------------------------------------------
(* Lists                                                                   *)

\* Faulty variant: the new item is the next one, not the last.
InsertNext(t) ==
  LET p == Priority[t]
  IN  /\ ready' = [ready EXCEPT ![p] = InsertAt(@, index[p] + 1, t)]
      /\ UNCHANGED index

\* vListInsertEnd: before the index, so that the new item is the last to come.
vListInsertEnd(t) ==
  LET p == Priority[t]
  IN  /\ ready' = [ready EXCEPT ![p] = IF index[p] = 0 THEN Append(@, t) ELSE InsertAt(@, index[p], t)]
      /\ index' = [index EXCEPT ![p] = IF @ = 0 THEN 0 ELSE @ + 1]

\* Faulty variant: the index is left on the removed item.
RemoveKeepsIndex(t) ==
  LET p == Priority[t]
      i == CHOOSE j \in DOMAIN ready[p] : ready[p][j] = t
  IN  /\ ready' = [ready EXCEPT ![p] = RemoveAt(@, i)]
      /\ UNCHANGED index

\* uxListRemove: the index moves back from the removed item.
uxListRemove(t) ==
  LET p == Priority[t]
      i == CHOOSE j \in DOMAIN ready[p] : ready[p][j] = t
  IN  /\ ready' = [ready EXCEPT ![p] = RemoveAt(@, i)]
      /\ index' = [index EXCEPT ![p] = IF i <= @ THEN @ - 1 ELSE @]

\* Faulty variant: the first task of the list is chosen.
FirstEntry(p) == 1

\* listGET_OWNER_OF_NEXT_ENTRY passes over the marker.
NextEntry(p) == IF index[p] < Len(ready[p]) THEN index[p] + 1 ELSE 1

-----------------------------------------------------------------------------
(* Interrupts                                                              *)

TopReadyPriority == CHOOSE p \in Priorities :
  ready[p] # <<>> /\ \A q \in Priorities : q > p => ready[q] = <<>>

\* xPortPendSVHandler, vTaskSwitchContext.
SwitchContext ==
  LET p == TopReadyPriority
      t == ready[p][NextEntry(p)]
  IN  /\ pendsv /\ ~masked
      /\ pendsv' = FALSE
      /\ index' = [index EXCEPT ![p] = NextEntry(p)]
      /\ running' = t
      /\ passed' = [u \in Tasks |->
                   IF u = t THEN NotPassed
                   ELSE IF Priority[u] = p /\ IsReady(u) THEN [passed[u] EXCEPT ![t] = IF @ = 3 THEN 3 ELSE @ + 1]
                   ELSE passed[u]]
      /\ UNCHANGED <<ready, systick, masked, delay, created, deleted>>

\* The timer; a tick that comes while one is pending is lost.
SysTick ==
  /\ ~systick
  /\ systick' = TRUE
  /\ UNCHANGED <<lists, running, pendsv, masked, delay, created, deleted, passed>>

\* The task is put on its ready list; preempts says whether it may run at once.
MakeReady(t, preempts) ==
  /\ vListInsertEnd(t)
  /\ passed' = [passed EXCEPT ![t] = NotPassed]
  /\ pendsv' = (pendsv \/ preempts)

\* xPortSysTickHandler, xTaskIncrementTick: the delay may end, and the tasks of
\* the running task's priority share the time.
IncrementTick ==
  /\ systick /\ ~masked
  /\ systick' = FALSE
  /\ LET shared == Len(ready[Priority[running]]) > 1
     IN  IF delay = 1
         THEN MakeReady(Sensor, shared \/ Priority[Sensor] >= Priority[running])
         ELSE pendsv' = (pendsv \/ shared) /\ UNCHANGED <<lists, passed>>
  /\ delay' = IF delay = 0 THEN 0 ELSE delay - 1
  /\ UNCHANGED <<running, masked, created, deleted>>

Waits(t) == (t = Startup /\ ~deleted) \/ \E i \in 1 .. created : t = Services[i]

\* Faulty variant: the woken task waits for the next tick.
WakeLazily(t) ==
  /\ ~masked
  /\ Waits(t) /\ ~IsReady(t)
  /\ MakeReady(t, FALSE)
  /\ UNCHANGED <<running, systick, masked, delay, created, deleted>>

\* xTaskRemoveFromEventList, from an interrupt or from the running task: what a
\* task waits for has come.
Wake(t) ==
  /\ ~masked
  /\ Waits(t) /\ ~IsReady(t)
  /\ MakeReady(t, Priority[t] > Priority[running])
  /\ UNCHANGED <<running, systick, masked, delay, created, deleted>>

-----------------------------------------------------------------------------
(* The tasks                                                               *)

\* taskENTER_CRITICAL, taskEXIT_CRITICAL: all that CLOCK_thread does is in
\* between.
EnterCritical ==
  /\ Runs(Clockd) /\ ~masked
  /\ masked' = TRUE
  /\ UNCHANGED <<lists, running, pendsv, systick, delay, created, deleted, passed>>

ExitCritical ==
  /\ Runs(Clockd) /\ masked
  /\ masked' = FALSE
  /\ UNCHANGED <<lists, running, pendsv, systick, delay, created, deleted, passed>>

Leave(t) ==
  /\ uxListRemove(t)
  /\ pendsv' = TRUE

\* vTaskDelay, by ADC_Init.
Delay ==
  /\ Runs(Sensor)
  /\ Leave(Sensor)
  /\ delay' = DelayTicks
  /\ UNCHANGED <<running, systick, masked, created, deleted, passed>>

\* A task waits for a queue, a semaphore or a mailbox.
Block(t) ==
  /\ Runs(t) /\ Waits(t)
  /\ Leave(t)
  /\ UNCHANGED <<running, systick, masked, delay, created, deleted, passed>>

\* xTaskCreate, by startup_task.
Create ==
  /\ Runs(Startup) /\ created < Len(Services)
  /\ created' = created + 1
  /\ LET t == Services[created + 1] IN MakeReady(t, Priority[t] > Priority[running])
  /\ UNCHANGED <<running, systick, masked, delay, deleted>>

\* osThreadTerminate, vTaskDelete: startup_task ends itself, and its memory is
\* for the idle task to free.
Terminate ==
  /\ Runs(Startup) /\ created = Len(Services) /\ ~deleted
  /\ deleted' = TRUE
  /\ Leave(Startup)
  /\ UNCHANGED <<running, systick, masked, delay, created, passed>>

-----------------------------------------------------------------------------

Step == EnterCritical \/ ExitCritical \/ Delay \/ Create \/ Terminate \/ \E t \in Tasks : Block(t)

Next == SwitchContext \/ SysTick \/ IncrementTick \/ Step \/ \E t \in Tasks : Wake(t)

\* The timer never stops, interrupts are taken, and a task that runs goes on.
Fairness == WF_vars(SysTick) /\ WF_vars(SwitchContext) /\ WF_vars(IncrementTick) /\ WF_vars(Step)

Spec == Init /\ [][Next]_vars /\ Fairness

-----------------------------------------------------------------------------
(* Properties                                                              *)

TypeOK ==
  /\ \A p \in Priorities :
       /\ ready[p] \in Seq({t \in Tasks : Priority[t] = p})
       /\ IsInjective(ready[p])
       /\ index[p] \in 0 .. Len(ready[p])
  /\ running \in Tasks
  /\ {pendsv, systick, masked, deleted} \subseteq BOOLEAN
  /\ delay \in 0 .. DelayTicks
  /\ created \in 0 .. Len(Services)

\* A task that executes is ready, and no ready task has a higher priority,
\* whichever way one became ready.
HighestRuns ==
  ~pendsv => /\ IsReady(running)
             /\ \A p \in Priorities : p > Priority[running] => ready[p] = <<>>

\* vTaskSwitchContext gives the tasks of one priority their turns: although
\* they leave and enter the list all the time and one that is preempted loses
\* its turn, none is passed over more than twice for the same other task.  Twice
\* happens: uxListRemove moves the index back to the task that is next in line,
\* and a task that is woken before the switch enters the list ahead of it.
TakesTurns == \A t, u \in Tasks : passed[t][u] <= 2

\* CLOCK_thread masks the tick nearly all the time, and still sensor_task gets
\* to sample, over and over, once the tasks of higher priority have little to do.
Quiet == \A t \in Tasks : IsReady(t) => Priority[t] <= Priority[Sensor]

SamplingGoesOn == <>[]Quiet => []<>(running = Sensor)
=============================================================================
