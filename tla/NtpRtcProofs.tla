---------------------------- MODULE NtpRtcProofs ----------------------------
(***************************************************************************)
(* Proofs about module NtpRtc, for all answers of the server, any number   *)
(* of sockets, of requests and of hours.                                   *)
(***************************************************************************)
EXTENDS NtpRtc, FiniteSetTheorems, TLAPS

Times == Answers \union {Boot}
Hours == [date : Nat \ {0}, hour : 0 .. 24]

Task == [pc : {"none", "dhcp", "open", "send", "recv", "convert", "load", "set",
               "close", "sleep", "done"},
         requests : Nat, answer : Times, field : Fields, args : [Fields -> Times],
         call : {"stamp", "date", "hour"}, lock : {"no", "free", "held"}]

\* Types: the RTC's date is never 0, which the shadow register uses for "not
\* locked".
TypeInv ==
  /\ up \in BOOLEAN
  /\ task \in [Tasks -> Task]
  /\ reply \in [Tasks -> {"none", "due", "answer", "other", "lost"}]
  /\ sockets \in Nat
  /\ tm \in [Fields -> Times]
  /\ rtcLock \in BOOLEAN
  /\ calendar \in Hours /\ due \in Hours
  /\ shadow \in Nat /\ reads \in 0 .. 2
  /\ shown \in Hours /\ moment \in Hours
  /\ ticks \in 0 .. MaxTicks /\ disturbed \in BOOLEAN /\ failed \in BOOLEAN

\* How often each task has asked.
RequestInv ==
  /\ task["startup"].requests <= 2
  /\ task["startup"].pc # "done" => task["startup"].requests <= 1
  /\ task["startup"].pc \notin {"none", "sleep"}
  /\ task["startup"].pc = "dhcp" => task["ntp"].pc = "none"
  /\ task["ntp"].requests <= MaxRequests + 1
  /\ task["ntp"].pc # "sleep" => task["ntp"].requests <= MaxRequests
  /\ task["ntp"].pc = "none" => task["ntp"].requests = 0

\* What the RTC is given for an answer.
LEMMA TimesType ==
  ASSUME NEW a \in Times
  PROVE  a.date \in Nat \ {0} /\ a.hour \in 0 .. 23 /\ RtcHour(a.hour) \in 0 .. 24
<1>1. a \in [date : Nat \ {0}, hour : 0 .. 23]
  BY NtpRtcAssumption DEF Times, Boot
<1> QED BY <1>1 DEF RtcHour

\* The types hold when NETWORK_Init begins.
LEMMA InitType == Init => TypeInv /\ RequestInv
<1> SUFFICES ASSUME Init PROVE TypeInv /\ RequestInv
  OBVIOUS
<1>1. Boot \in Times /\ Boot \in Hours
  BY DEF Boot, Times, Hours
<1>2. task \in [Tasks -> Task]
  BY <1>1 DEF Init, Task, Fields, Tasks
<1>3. TypeInv
  <2>1. tm \in [Fields -> Times] /\ reply \in [Tasks -> {"none", "due", "answer", "other", "lost"}]
    BY <1>1 DEF Init
  <2>2. ticks \in 0 .. MaxTicks /\ sockets \in Nat
    BY NtpRtcAssumption DEF Init
  <2>3. shadow \in Nat /\ reads \in 0 .. 2
    BY DEF Init
  <2> QED BY <1>1, <1>2, <2>1, <2>2, <2>3 DEF Init, TypeInv
<1>4. RequestInv
  BY <1>2, NtpRtcAssumption DEF Init, RequestInv, Tasks
<1> QED BY <1>3, <1>4

\* The end of a request counts it.
LEMMA EndedType ==
  ASSUME TypeInv, RequestInv, NEW t \in Tasks, Ended(t),
         task[t].pc \notin {"none", "sleep", "done"}
  PROVE  task' \in [Tasks -> Task] /\ RequestInv'
<1> DEFINE s == [task[t] EXCEPT !.pc = AfterRequest(t), !.requests = @ + 1, !.answer = Boot,
                                !.field = "date", !.args = [f \in Fields |-> Boot], !.call = "stamp"]
<1>1. task \in [Tasks -> Task] /\ Boot \in Times
  BY DEF TypeInv, Times
<1>2. s \in Task /\ s.pc = AfterRequest(t) /\ s.requests = task[t].requests + 1
  <2>1. task[t] \in Task /\ [f \in Fields |-> Boot] \in [Fields -> Times]
    BY <1>1
  <2>2. AfterRequest(t) \in {"sleep", "open", "done"}
    BY DEF AfterRequest
  <2>3. task[t].requests + 1 \in Nat /\ "date" \in Fields
    BY <2>1 DEF Task, Fields
  <2> HIDE DEF Fields, AfterRequest
  <2> QED BY <1>1, <2>1, <2>2, <2>3 DEF Task
<1>3. task' = [task EXCEPT ![t] = s]
  BY DEF Ended
<1> HIDE DEF s
<1>4. task' \in [Tasks -> Task]
  BY <1>1, <1>2, <1>3
<1>5. \A u \in Tasks : task'[u] = IF u = t THEN s ELSE task[u]
  BY <1>1, <1>3
<1>6. CASE t = "startup"
  <2>1. task["startup"].requests \in Nat /\ task["startup"].requests <= 1
    BY <1>1, <1>6 DEF RequestInv, Tasks, Task
  <2> QED BY <1>2, <1>4, <1>5, <1>6, <2>1 DEF RequestInv, AfterRequest, Tasks
<1>7. CASE t = "ntp"
  <2>1. task["ntp"].requests \in Nat /\ task["ntp"].requests <= MaxRequests
    BY <1>1, <1>7 DEF RequestInv, Tasks, Task
  <2> QED BY <1>2, <1>4, <1>5, <1>7, <2>1, NtpRtcAssumption DEF RequestInv, AfterRequest, Tasks
<1> QED BY <1>4, <1>6, <1>7 DEF Tasks

\* A step of task t within a request.
LEMMA WithinType ==
  ASSUME TypeInv, RequestInv, NEW t \in Tasks, NEW s \in Task, task' = [task EXCEPT ![t] = s],
         task[t].pc \notin {"none", "sleep", "done"}, s.pc \notin {"none", "sleep", "done", "dhcp"},
         s.requests = task[t].requests
  PROVE  task' \in [Tasks -> Task] /\ RequestInv'
<1>1. task \in [Tasks -> Task]
  BY DEF TypeInv
<1>2. \A u \in Tasks : task'[u] = IF u = t THEN s ELSE task[u]
  BY <1>1
<1>3. RequestInv' BY <1>2 DEF RequestInv, Tasks
<1> QED BY <1>1, <1>3

\* Only pc changes.
LEMMA GotoType ==
  ASSUME TypeInv, RequestInv, NEW t \in Tasks, NEW label, Goto(t, label),
         label \in {"send", "recv", "convert", "close"},
         task[t].pc \notin {"none", "sleep", "done"}
  PROVE  task' \in [Tasks -> Task] /\ RequestInv'
<1> DEFINE s == [task[t] EXCEPT !.pc = label]
<1>1. s \in Task /\ s.pc = label /\ s.requests = task[t].requests
  BY DEF TypeInv, Task
<1>2. task' = [task EXCEPT ![t] = s]
  BY DEF Goto
<1> HIDE DEF s
<1> QED BY <1>1, <1>2, WithinType

\* The call of the HAL that a task makes is behind it.
LEMMA CallDoneType ==
  ASSUME NEW s \in Task, s.pc = "set"
  PROVE  /\ CallDone(s) \in Task
         /\ CallDone(s).requests = s.requests
         /\ CallDone(s).pc \in {"set", "close"}
<1>1. CASE s.call = "stamp"
  <2>1. CallDone(s) = [s EXCEPT !.lock = "no", !.call = "date"] BY <1>1 DEF CallDone
  <2> QED BY <2>1 DEF Task
<1>2. CASE s.call = "date"
  <2>1. CallDone(s) = [s EXCEPT !.lock = "no", !.call = "hour"] BY <1>2 DEF CallDone
  <2> QED BY <2>1 DEF Task
<1>3. CASE s.call = "hour"
  <2>1. CallDone(s) = [s EXCEPT !.lock = "no", !.pc = "close"] BY <1>3 DEF CallDone
  <2> QED BY <2>1 DEF Task
<1> QED BY <1>1, <1>2, <1>3 DEF Task

\* localtime fills its structure with an answer.
LEMMA ConvertType ==
  ASSUME TypeInv, RequestInv, NEW t \in Tasks, Convert(t)
  PROVE  TypeInv' /\ RequestInv'
<1> DEFINE f == NextField(task[t].field)
           s == [task[t] EXCEPT !.field = f,
                                !.answer = IF f = "date" THEN Boot ELSE @,
                                !.pc = IF f = "date" THEN "load" ELSE @]
<1>1. /\ task[t] \in Task /\ task[t].pc = "convert" /\ f \in Fields
      /\ tm \in [Fields -> Times] /\ task[t].answer \in Times /\ Boot \in Times
  BY DEF TypeInv, Task, Convert, Running, NextField, Fields, Times
<1>2. /\ tm' = [tm EXCEPT ![f] = task[t].answer]
      /\ task' = [task EXCEPT ![t] = s]
      /\ UNCHANGED <<netVars, rtcLock, setVars, displayVars, historyVars>>
  BY DEF Convert
<1> HIDE DEF f
<1>3. s \in Task /\ s.requests = task[t].requests /\ s.pc \in {"convert", "load"}
  BY <1>1 DEF Task
<1> HIDE DEF s
<1>4. task' \in [Tasks -> Task] /\ RequestInv'
  BY <1>1, <1>2, <1>3, WithinType
<1>5. tm' \in [Fields -> Times]
  BY <1>1, <1>2
<1> QED BY <1>2, <1>4, <1>5 DEF TypeInv, netVars, setVars, displayVars, historyVars

\* The arguments are loaded from what the structure then holds.
LEMMA LoadType ==
  ASSUME TypeInv, RequestInv, NEW t \in Tasks, Load(t)
  PROVE  TypeInv' /\ RequestInv'
<1> DEFINE f == NextField(task[t].field)
           s == [task[t] EXCEPT !.field = f, !.args[f] = tm[f],
                                !.pc = IF f = "date" THEN "set" ELSE @]
<1>1. /\ task[t] \in Task /\ task[t].pc = "load" /\ f \in Fields /\ tm[f] \in Times
  BY DEF TypeInv, Task, Load, Running, NextField, Fields
<1>2. /\ task' = [task EXCEPT ![t] = s]
      /\ UNCHANGED <<netVars, tm, rtcLock, setVars, displayVars, historyVars>>
  BY DEF Load
<1> HIDE DEF f
<1>3. s \in Task /\ s.requests = task[t].requests /\ s.pc \in {"load", "set"}
  BY <1>1 DEF Task
<1> HIDE DEF s
<1>4. task' \in [Tasks -> Task] /\ RequestInv'
  BY <1>1, <1>2, <1>3, WithinType
<1> QED BY <1>2, <1>4 DEF TypeInv, netVars, setVars, displayVars, historyVars

\* What the HAL writes is a date and an hour of 0 to 24.
LEMMA WrittenType ==
  ASSUME TypeInv, NEW s \in Task, Written(s)
  PROVE  calendar' \in Hours /\ due' \in Hours
<1>1. /\ s.args["date"] \in Times /\ s.args["hour"] \in Times
      /\ s.call \in {"stamp", "date", "hour"} /\ calendar \in Hours /\ due \in Hours
  BY DEF Task, Fields, TypeInv
<1>2. /\ s.args.date.date \in Nat \ {0} /\ s.args.hour.date \in Nat \ {0}
      /\ RtcHour(s.args.hour.hour) \in 0 .. 24
  BY <1>1, TimesType
<1> HIDE DEF RtcHour
<1>3. CASE s.call = "stamp" BY <1>1, <1>3 DEF Written
<1>4. CASE s.call = "date"
  <2>1. calendar' = [calendar EXCEPT !.date = s.args.date.date] /\ due' = due
    BY <1>4 DEF Written
  <2> QED BY <1>1, <1>2, <2>1 DEF Hours
<1>5. CASE s.call = "hour"
  <2>1. /\ calendar' = [calendar EXCEPT !.hour = RtcHour(s.args.hour.hour)]
        /\ due' = [date |-> s.args.hour.date, hour |-> RtcHour(s.args.hour.hour)]
    BY <1>5 DEF Written
  <2> QED BY <1>1, <1>2, <2>1 DEF Hours
<1> QED BY <1>1, <1>3, <1>4, <1>5

\* The three calls of RTC_TimeStampConfig.
LEMMA SetType ==
  ASSUME TypeInv, RequestInv, NEW t \in Tasks, LockTest(t) \/ LockTake(t) \/ Write(t)
  PROVE  TypeInv' /\ RequestInv'
<1>1. task[t] \in Task /\ task[t].pc = "set"
  BY DEF TypeInv, LockTest, LockTake, Write, Running
<1>2. CASE LockTest(t)
  <2> DEFINE s == IF rtcLock THEN CallDone(task[t]) ELSE [task[t] EXCEPT !.lock = "free"]
  <2>1. s \in Task /\ s.requests = task[t].requests /\ s.pc \in {"set", "close"}
    BY <1>1, CallDoneType DEF Task
  <2>2. /\ task' = [task EXCEPT ![t] = s]
        /\ UNCHANGED <<netVars, tm, rtcLock, setVars, displayVars, historyVars>>
    BY <1>2 DEF LockTest
  <2> HIDE DEF s
  <2>3. task' \in [Tasks -> Task] /\ RequestInv'
    BY <1>1, <2>1, <2>2, WithinType
  <2> QED BY <2>2, <2>3 DEF TypeInv, netVars, setVars, displayVars, historyVars
<1>3. CASE LockTake(t)
  <2> DEFINE s == [task[t] EXCEPT !.lock = "held"]
  <2>1. s \in Task /\ s.requests = task[t].requests /\ s.pc = "set"
    BY <1>1 DEF Task
  <2>2. /\ task' = [task EXCEPT ![t] = s] /\ rtcLock' = TRUE
        /\ UNCHANGED <<netVars, tm, setVars, displayVars, historyVars>>
    BY <1>3 DEF LockTake
  <2> HIDE DEF s
  <2>3. task' \in [Tasks -> Task] /\ RequestInv'
    BY <1>1, <2>1, <2>2, WithinType
  <2> QED BY <2>2, <2>3 DEF TypeInv, netVars, setVars, displayVars, historyVars
<1>4. CASE Write(t)
  <2> DEFINE s == CallDone(task[t])
  <2>1. s \in Task /\ s.requests = task[t].requests /\ s.pc \in {"set", "close"}
    BY <1>1, CallDoneType
  <2>2. /\ task' = [task EXCEPT ![t] = s] /\ rtcLock' = FALSE
        /\ failed' = failed \/ failed' = TRUE
        /\ Written(task[t]) \/ UNCHANGED setVars
        /\ UNCHANGED <<netVars, tm, displayVars, ticks, disturbed>>
    BY <1>4 DEF Write
  <2> HIDE DEF s
  <2>3. task' \in [Tasks -> Task] /\ RequestInv'
    BY <1>1, <2>1, <2>2, WithinType
  <2>4. calendar' \in Hours /\ due' \in Hours
    BY <1>1, <2>2, WrittenType DEF TypeInv, setVars
  <2> QED BY <2>2, <2>3, <2>4 DEF TypeInv, netVars, displayVars
<1> QED BY <1>2, <1>3, <1>4

\* The calls of lwIP that a request makes.
LEMMA RequestType ==
  ASSUME TypeInv, RequestInv, NEW t \in Tasks, Open(t) \/ Send(t) \/ Recv(t) \/ Close(t)
  PROVE  TypeInv' /\ RequestInv'
<1>1. task[t].pc \notin {"none", "sleep", "done"}
  BY DEF Open, Send, Recv, Close, Running
<1>2. task' \in [Tasks -> Task] /\ RequestInv'
  <2>1. Ended(t) \/ (\E label \in {"send", "recv", "convert", "close"} : Goto(t, label))
    BY DEF Open, Send, Recv, Close
  <2> QED BY <1>1, <2>1, EndedType, GotoType
<1>3. /\ UNCHANGED <<up, tm, rtcLock, setVars, displayVars, ticks, failed>>
      /\ \/ UNCHANGED reply
         \/ reply' = [reply EXCEPT ![t] = "due"]
         \/ reply' = [reply EXCEPT ![t] = "none"]
      /\ \/ UNCHANGED sockets
         \/ sockets > 0 /\ sockets' = sockets - 1
         \/ sockets' = sockets + 1
      /\ disturbed' = disturbed \/ disturbed' \in BOOLEAN
  BY DEF Open, Send, Recv, Close, historyVars
<1>4. sockets' \in Nat
  BY <1>3 DEF TypeInv
<1>5. reply' \in [Tasks -> {"none", "due", "answer", "other", "lost"}]
  BY <1>3 DEF TypeInv
<1>6. disturbed' \in BOOLEAN
  BY <1>3 DEF TypeInv
<1> QED BY <1>2, <1>3, <1>4, <1>5, <1>6 DEF TypeInv, setVars, displayVars

\* What becomes of a request on the network.
LEMMA ReplyType ==
  ASSUME TypeInv, RequestInv, NEW t \in Tasks, Reply(t)
  PROVE  TypeInv' /\ RequestInv'
<1>1. reply' \in [Tasks -> {"none", "due", "answer", "other", "lost"}]
  BY DEF Reply, TypeInv
<1>2. task' \in [Tasks -> Task] /\ RequestInv'
  <2>1. CASE UNCHANGED task
    BY <2>1 DEF TypeInv, RequestInv
  <2>2. ASSUME NEW a \in Answers, task' = [task EXCEPT ![t].answer = a]
        PROVE  task' \in [Tasks -> Task] /\ RequestInv'
    <3> DEFINE s == [task[t] EXCEPT !.answer = a]
    <3>1. task \in [Tasks -> Task] /\ task[t] \in Task /\ a \in Times
      BY DEF TypeInv, Times
    <3>2. s \in Task /\ s.pc = task[t].pc /\ s.requests = task[t].requests
      BY <3>1 DEF Task
    <3>3. task' = [task EXCEPT ![t] = s]
      BY <2>2
    <3> HIDE DEF s
    <3>4. \A u \in Tasks : task'[u].pc = task[u].pc /\ task'[u].requests = task[u].requests
      BY <3>1, <3>2, <3>3
    <3> QED BY <3>1, <3>2, <3>3, <3>4 DEF RequestInv, Tasks
  <2> QED BY <2>1, <2>2 DEF Reply
<1>3. UNCHANGED <<up, sockets, tm, rtcLock, setVars, displayVars, historyVars>>
  BY DEF Reply
<1> QED BY <1>1, <1>2, <1>3 DEF TypeInv, setVars, displayVars, historyVars

\* The RTC counts an hour.
LEMMA TickType == TypeInv /\ RequestInv /\ Tick => TypeInv' /\ RequestInv'
<1> SUFFICES ASSUME TypeInv, RequestInv, Tick PROVE TypeInv' /\ RequestInv'
  OBVIOUS
<1>1. ASSUME NEW c \in Hours PROVE NextHour(c) \in Hours
  <2>1. CASE c.hour < 23
    <3>1. NextHour(c) = [c EXCEPT !.hour = c.hour + 1] BY <2>1 DEF NextHour
    <3> QED BY <2>1, <3>1 DEF Hours
  <2>2. CASE ~(c.hour < 23)
    <3>1. NextHour(c) = [date |-> c.date + 1, hour |-> 0] BY <2>2 DEF NextHour
    <3>2. c.date + 1 \in Nat \ {0} /\ 0 \in 0 .. 24 BY DEF Hours
    <3> QED BY <3>1, <3>2 DEF Hours
  <2> QED BY <2>1, <2>2
<1>2. calendar' \in Hours /\ due' \in Hours
  BY <1>1 DEF TypeInv, Tick
<1>3. ticks' \in 0 .. MaxTicks /\ disturbed' \in BOOLEAN
  BY NtpRtcAssumption DEF TypeInv, Tick
<1> QED BY <1>2, <1>3 DEF TypeInv, RequestInv, Tick, netVars, displayVars

\* CLOCK_thread reads the RTC and displays it.
LEMMA ShowType == TypeInv /\ RequestInv /\ (Show \/ Draw) => TypeInv' /\ RequestInv'
<1> SUFFICES ASSUME TypeInv, RequestInv, Show \/ Draw PROVE TypeInv' /\ RequestInv'
  OBVIOUS
<1>1. Boot \in Hours
  BY DEF Boot, Hours
<1>2. UNCHANGED <<netVars, task, tm, rtcLock, setVars, historyVars>> /\ reads' \in 0 .. 2
  BY DEF TypeInv, Show, Draw
<1>3. shown' \in Hours /\ moment' \in Hours /\ shadow' \in Nat
  <2>1. calendar.date \in Nat \ {0} /\ calendar.hour \in 0 .. 24
    BY DEF TypeInv, Hours
  <2>2. CASE Draw BY <1>1, <2>2 DEF Draw, TypeInv
  <2>3. CASE Show
    <3>1. moment' \in Hours BY <2>3 DEF Show, TypeInv
    <3>2. CASE shown' = [shown EXCEPT !.hour = calendar.hour] /\ shadow' = calendar.date
      BY <2>1, <3>1, <3>2 DEF TypeInv, Hours
    <3>3. CASE shown' = [shown EXCEPT !.date = DateRegister] /\ shadow' = 0
      <4>1. DateRegister \in Nat \ {0} BY <2>1 DEF DateRegister, TypeInv
      <4> QED BY <3>1, <3>3, <4>1 DEF TypeInv, Hours
    <3> QED BY <2>3, <3>2, <3>3 DEF Show
  <2> QED BY <2>2, <2>3
<1> QED BY <1>2, <1>3 DEF TypeInv, RequestInv, netVars, setVars, historyVars

\* Every step keeps the types and the counts of the requests.
LEMMA NextType == TypeInv /\ RequestInv /\ [Next]_vars => TypeInv' /\ RequestInv'
<1> SUFFICES ASSUME TypeInv, RequestInv, [Next]_vars PROVE TypeInv' /\ RequestInv'
  OBVIOUS
<1>1. CASE DhcpWait
  <2> DEFINE s == [task["startup"] EXCEPT !.pc = "open"]
             n == [task["ntp"] EXCEPT !.pc = "open"]
  <2>1. /\ task' = [task EXCEPT !["startup"] = s, !["ntp"] = n]
        /\ task["startup"].pc = "dhcp"
        /\ UNCHANGED <<up, reply, sockets, tm, rtcLock, setVars, displayVars, historyVars>>
    BY <1>1 DEF DhcpWait, Running
  <2>2. /\ s \in Task /\ n \in Task /\ s.pc = "open" /\ n.pc = "open"
        /\ s.requests = task["startup"].requests /\ n.requests = task["ntp"].requests
    BY DEF TypeInv, Task, Tasks
  <2> HIDE DEF s, n
  <2>3. task' \in [Tasks -> Task] /\ task'["startup"] = s /\ task'["ntp"] = n
    BY <2>1, <2>2 DEF TypeInv, Tasks
  <2>4. RequestInv'
    BY <2>1, <2>2, <2>3 DEF RequestInv
  <2> QED BY <2>1, <2>3, <2>4 DEF TypeInv, setVars, displayVars, historyVars
<1>2. CASE Bound
  BY <1>2 DEF Bound, TypeInv, RequestInv, setVars, displayVars, historyVars
<1>3. CASE Wake
  <2> DEFINE n == [task["ntp"] EXCEPT !.pc = "open"]
  <2>1. /\ task' = [task EXCEPT !["ntp"] = n]
        /\ task["ntp"].pc = "sleep" /\ task["ntp"].requests < MaxRequests
        /\ UNCHANGED <<netVars, tm, rtcLock, setVars, displayVars, historyVars>>
    BY <1>3 DEF Wake, Goto, Running
  <2>2. n \in Task /\ n.pc = "open" /\ n.requests = task["ntp"].requests /\ n.requests \in Nat
    BY DEF TypeInv, Task, Tasks
  <2> HIDE DEF n
  <2>3. task' \in [Tasks -> Task] /\ task'["startup"] = task["startup"] /\ task'["ntp"] = n
    BY <2>1, <2>2 DEF TypeInv, Tasks
  <2>4. RequestInv'
    <3>1. n.requests <= MaxRequests
      BY <2>1, <2>2, NtpRtcAssumption
    <3>2. n.requests <= MaxRequests + 1
      BY <2>2, <3>1, NtpRtcAssumption
    <3> QED BY <2>1, <2>2, <2>3, <3>1, <3>2 DEF RequestInv
  <2> QED BY <2>1, <2>3, <2>4 DEF TypeInv, netVars, setVars, displayVars, historyVars
<1>4. ASSUME NEW t \in Tasks, Step(t) PROVE TypeInv' /\ RequestInv'
  BY <1>4, RequestType, ConvertType, LoadType, SetType DEF Step
<1>5. ASSUME NEW t \in Tasks, Reply(t) PROVE TypeInv' /\ RequestInv'
  BY <1>5, ReplyType
<1>6. CASE Tick BY <1>6, TickType
<1>7. CASE Show \/ Draw BY <1>7, ShowType
<1>8. CASE UNCHANGED vars
  BY <1>8 DEF vars, TypeInv, RequestInv, netVars, setVars, displayVars, historyVars
<1> QED BY <1>1, <1>2, <1>3, <1>4, <1>5, <1>6, <1>7, <1>8 DEF Next

-----------------------------------------------------------------------------
(* Sockets *)

Requesting == {"send", "recv", "convert", "load", "set", "close"}

\* The cardinality of a set of callers.
LEMMA TwoTasks ==
  ASSUME NEW S \in SUBSET Tasks
  PROVE  Cardinality(S) = (IF "startup" \in S THEN 1 ELSE 0) + (IF "ntp" \in S THEN 1 ELSE 0)
<1>1. CASE "startup" \in S /\ "ntp" \in S
  <2>1. S = {"startup"} \cup {"ntp"} BY <1>1 DEF Tasks
  <2>2. Cardinality({"startup"}) = 1 /\ IsFiniteSet({"startup"}) BY FS_Singleton
  <2>3. Cardinality({"startup"} \cup {"ntp"}) = 2 BY <2>2, FS_AddElement
  <2> QED BY <1>1, <2>1, <2>3
<1>2. CASE "startup" \in S /\ "ntp" \notin S
  <2>1. S = {"startup"} BY <1>2 DEF Tasks
  <2>2. Cardinality(S) = 1 BY <2>1, FS_Singleton
  <2> QED BY <1>2, <2>2
<1>3. CASE "startup" \notin S /\ "ntp" \in S
  <2>1. S = {"ntp"} BY <1>3 DEF Tasks
  <2>2. Cardinality(S) = 1 BY <2>1, FS_Singleton
  <2> QED BY <1>3, <2>2
<1>4. CASE "startup" \notin S /\ "ntp" \notin S
  <2>1. S = {} BY <1>4 DEF Tasks
  <2> QED BY <1>4, <2>1, FS_EmptySet
<1> QED BY <1>1, <1>2, <1>3, <1>4

Holds(pc) == IF pc \in Requesting THEN 1 ELSE 0

\* No path of sntp_request loses its socket, in terms of the two tasks.
SocketInv == sockets + Holds(task["startup"].pc) + Holds(task["ntp"].pc) = NUM_SOCKETS

\* The sockets counted by set and by caller.
LEMMA SocketsCounted == TypeInv => (SocketsConserved <=> SocketInv)
<1> DEFINE S == {t \in Tasks : task[t].pc \in
                   {"send", "recv", "convert", "load", "set", "close"}}
<1> SUFFICES ASSUME TypeInv PROVE SocketsConserved <=> SocketInv
  OBVIOUS
<1>1. Cardinality(S) = (IF "startup" \in S THEN 1 ELSE 0) + (IF "ntp" \in S THEN 1 ELSE 0)
  BY TwoTasks
<1>2. Cardinality(S) = Holds(task["startup"].pc) + Holds(task["ntp"].pc)
  BY <1>1 DEF Holds, Requesting, Tasks
<1>3. Holds(task["startup"].pc) \in Nat /\ Holds(task["ntp"].pc) \in Nat /\ sockets \in Nat
  BY DEF Holds, TypeInv
<1>4. SocketsConserved <=> sockets + Cardinality(S) = NUM_SOCKETS
  BY DEF SocketsConserved
<1> HIDE DEF S
<1> QED BY <1>2, <1>3, <1>4 DEF SocketInv

\* A step of one task counts its socket once.
LEMMA SocketStep ==
  ASSUME TypeInv, SocketInv, NEW t \in Tasks, NEW k \in {-1, 0, 1},
         task' \in [Tasks -> Task], \A u \in Tasks \ {t} : task'[u].pc = task[u].pc,
         sockets' = sockets + k, Holds(task'[t].pc) + k = Holds(task[t].pc)
  PROVE  SocketInv'
<1>1. /\ sockets \in Nat /\ Holds(task["startup"].pc) \in Nat /\ Holds(task["ntp"].pc) \in Nat
      /\ Holds(task'["startup"].pc) \in Nat /\ Holds(task'["ntp"].pc) \in Nat
  BY DEF TypeInv, Holds
<1>2. CASE t = "startup"
  <2>1. task'["ntp"].pc = task["ntp"].pc BY <1>2 DEF Tasks
  <2> HIDE DEF Holds
  <2> QED BY <1>1, <1>2, <2>1 DEF SocketInv
<1>3. CASE t = "ntp"
  <2>1. task'["startup"].pc = task["startup"].pc BY <1>3 DEF Tasks
  <2> HIDE DEF Holds
  <2> QED BY <1>1, <1>3, <2>1 DEF SocketInv
<1> QED BY <1>2, <1>3 DEF Tasks

\* Every step keeps the sockets.
LEMMA NextSocket == TypeInv /\ RequestInv /\ SocketInv /\ [Next]_vars => SocketInv'
<1> SUFFICES ASSUME TypeInv, RequestInv, SocketInv, [Next]_vars PROVE SocketInv'
  OBVIOUS
<1>1. task \in [Tasks -> Task] /\ task' \in [Tasks -> Task] /\ sockets \in Nat
  BY NextType DEF TypeInv
<1>2. ASSUME NEW t \in Tasks, NEW label, Goto(t, label)
      PROVE  task'[t].pc = label /\ \A u \in Tasks \ {t} : task'[u].pc = task[u].pc
  <2>1. task' = [task EXCEPT ![t] = [task[t] EXCEPT !.pc = label]]
    BY <1>2 DEF Goto
  <2>2. task[t] \in Task BY <1>1
  <2> QED BY <1>1, <2>1, <2>2 DEF Task
<1>3. ASSUME NEW t \in Tasks, Ended(t)
      PROVE  /\ task'[t].pc \in {"sleep", "open", "done"}
             /\ \A u \in Tasks \ {t} : task'[u].pc = task[u].pc
  <2>1. task[t] \in Task BY <1>1
  <2>2. AfterRequest(t) \in {"sleep", "open", "done"} BY DEF AfterRequest
  <2> HIDE DEF AfterRequest
  <2>3. task'[t].pc = AfterRequest(t) BY <1>1, <1>3, <2>1 DEF Ended, Task
  <2>4. \A u \in Tasks \ {t} : task'[u] = task[u] BY <1>1, <1>3 DEF Ended
  <2> QED BY <2>2, <2>3, <2>4
<1>4. ASSUME NEW t \in Tasks, Open(t) PROVE SocketInv'
  <2>1. CASE Goto(t, "send") /\ sockets > 0 /\ sockets' = sockets - 1
    <3>1. sockets' = sockets + (-1) BY <1>1, <2>1
    <3>2. Holds(task'[t].pc) + (-1) = Holds(task[t].pc)
      BY <1>2, <1>4, <2>1 DEF Open, Running, Holds, Requesting
    <3> QED BY <1>1, <1>2, <2>1, <3>1, <3>2, SocketStep
  <2>2. CASE Ended(t) /\ UNCHANGED sockets
    <3>1. Holds(task'[t].pc) + 0 = Holds(task[t].pc)
      BY <1>3, <1>4, <2>2 DEF Open, Running, Holds, Requesting
    <3>2. sockets' = sockets + 0 BY <1>1, <2>2
    <3> QED BY <1>1, <1>3, <2>2, <3>1, <3>2, SocketStep
  <2> QED BY <1>4, <2>1, <2>2 DEF Open
<1>5. ASSUME NEW t \in Tasks, Close(t) PROVE SocketInv'
  <2>1. Holds(task'[t].pc) + 1 = Holds(task[t].pc) /\ Ended(t) /\ sockets' = sockets + 1
    BY <1>3, <1>5 DEF Close, Running, Holds, Requesting
  <2> QED BY <1>1, <1>3, <2>1, SocketStep
<1>6. ASSUME NEW t \in Tasks, task[t].pc \in Requesting, task'[t].pc \in Requesting,
             \A u \in Tasks \ {t} : task'[u].pc = task[u].pc, UNCHANGED sockets
      PROVE  SocketInv'
  <2>1. Holds(task'[t].pc) + 0 = Holds(task[t].pc) BY <1>6 DEF Holds
  <2>2. sockets' = sockets + 0 BY <1>1, <1>6
  <2> QED BY <1>1, <1>6, <2>1, <2>2, SocketStep
<1>7. ASSUME NEW t \in Tasks, Send(t) \/ Recv(t) PROVE SocketInv'
  <2>1. /\ task[t].pc \in Requesting /\ UNCHANGED sockets
        /\ \E label \in Requesting : Goto(t, label)
    BY <1>7 DEF Send, Recv, Running, Requesting
  <2> QED BY <1>2, <1>6, <2>1
<1>8. ASSUME NEW t \in Tasks, NEW s \in Task, task' = [task EXCEPT ![t] = s],
             task[t].pc \in Requesting, s.pc \in Requesting, UNCHANGED sockets
      PROVE  SocketInv'
  <2>1. task'[t] = s /\ \A u \in Tasks \ {t} : task'[u] = task[u] BY <1>1, <1>8
  <2> QED BY <1>6, <1>8, <2>1
<1>9. ASSUME NEW t \in Tasks, Convert(t) \/ Load(t) PROVE SocketInv'
  <2>1. /\ task[t].pc \in {"convert", "load"} /\ task'[t].pc \in {"convert", "load", "set"}
        /\ \A u \in Tasks \ {t} : task'[u].pc = task[u].pc
        /\ UNCHANGED sockets
    BY <1>1, <1>9 DEF Convert, Load, Running, netVars, Task
  <2> QED BY <1>6, <2>1 DEF Requesting
<1>10. ASSUME NEW t \in Tasks, LockTest(t) \/ LockTake(t) \/ Write(t) PROVE SocketInv'
  <2>1. /\ task[t].pc = "set" /\ task[t] \in Task /\ UNCHANGED sockets
        /\ \/ task' = [task EXCEPT ![t] = CallDone(task[t])]
           \/ task' = [task EXCEPT ![t] = [task[t] EXCEPT !.lock = "free"]]
           \/ task' = [task EXCEPT ![t] = [task[t] EXCEPT !.lock = "held"]]
    BY <1>1, <1>10 DEF LockTest, LockTake, Write, Running, netVars
  <2>2. /\ CallDone(task[t]) \in Task /\ CallDone(task[t]).pc \in {"set", "close"}
        /\ [task[t] EXCEPT !.lock = "free"] \in Task /\ [task[t] EXCEPT !.lock = "free"].pc = "set"
        /\ [task[t] EXCEPT !.lock = "held"] \in Task /\ [task[t] EXCEPT !.lock = "held"].pc = "set"
    BY <2>1, CallDoneType DEF Task
  <2> QED BY <1>8, <2>1, <2>2 DEF Requesting
<1>11. ASSUME \A u \in Tasks : Holds(task'[u].pc) = Holds(task[u].pc), UNCHANGED sockets
       PROVE  SocketInv'
  BY <1>11 DEF SocketInv, Tasks
<1>12. CASE DhcpWait
  <2>1. \A u \in Tasks : task[u].pc \in {"dhcp", "none"} /\ task'[u].pc = "open"
    BY <1>1, <1>12 DEF DhcpWait, Running, RequestInv, Tasks, Task
  <2> QED BY <1>11, <1>12, <2>1 DEF DhcpWait, Holds, Requesting
<1>13. CASE Wake
  <2>1. \A u \in Tasks :
           \/ task'[u].pc = task[u].pc
           \/ task[u].pc = "sleep" /\ task'[u].pc = "open"
    <3>1. task["ntp"].pc = "sleep" /\ Goto("ntp", "open") /\ "ntp" \in Tasks
      BY <1>13 DEF Wake, Running, Tasks
    <3>2. task'["ntp"].pc = "open" /\ \A u \in Tasks \ {"ntp"} : task'[u].pc = task[u].pc
      BY <1>2, <3>1
    <3> QED BY <3>1, <3>2
  <2> QED BY <1>11, <1>13, <2>1 DEF Wake, netVars, Holds, Requesting
<1>14. ASSUME NEW t \in Tasks, Reply(t) PROVE SocketInv'
  <2>1. \A u \in Tasks : task'[u].pc = task[u].pc
    <3>1. CASE UNCHANGED task BY <3>1
    <3>2. ASSUME NEW a \in Answers, task' = [task EXCEPT ![t].answer = a]
          PROVE  \A u \in Tasks : task'[u].pc = task[u].pc
      <4>1. task' = [task EXCEPT ![t] = [task[t] EXCEPT !.answer = a]] BY <3>2
      <4>2. task[t] \in Task BY <1>1
      <4>3. [task[t] EXCEPT !.answer = a].pc = task[t].pc BY <4>2 DEF Task
      <4> QED BY <1>1, <4>1, <4>3
    <3> QED BY <1>14, <3>1, <3>2 DEF Reply
  <2> QED BY <1>11, <1>14, <2>1 DEF Reply
<1>15. CASE Bound \/ Tick \/ Show \/ Draw \/ UNCHANGED vars
  BY <1>15 DEF Bound, Tick, Show, Draw, vars, netVars, SocketInv
<1> QED
  BY <1>4, <1>5, <1>7, <1>9, <1>10, <1>12, <1>13, <1>14, <1>15 DEF Next, Step

-----------------------------------------------------------------------------
(* The display *)

\* Between the two reads the shadow register holds the date of the first.
ShownInv ==
  /\ reads = 1 => shown.hour = moment.hour /\ shadow = moment.date
  /\ reads = 2 => shown = moment

\* Every step keeps what the display has read together.
LEMMA NextShown == TypeInv /\ ShownInv /\ [Next]_vars => ShownInv'
<1> SUFFICES ASSUME TypeInv, ShownInv, [Next]_vars PROVE ShownInv'
  OBVIOUS
<1>1. /\ calendar.date \in Nat \ {0} /\ calendar.hour \in 0 .. 24
      /\ shown \in Hours /\ moment \in Hours /\ calendar \in Hours /\ reads \in 0 .. 2
  BY DEF TypeInv, Hours
<1>2. CASE Show
  <2>1. CASE reads = 0
    <3>1. ReadOrder[1] = "hour" /\ 0 + 1 = 1 BY DEF ReadOrder
    <3>2. /\ reads' = 1 /\ moment' = calendar /\ shadow' = calendar.date
          /\ shown' = [shown EXCEPT !.hour = calendar.hour]
      BY <1>2, <2>1, <3>1 DEF Show
    <3>3. shown'.hour = calendar.hour BY <1>1, <3>2 DEF Hours
    <3> QED BY <3>2, <3>3 DEF ShownInv
  <2>2. CASE reads = 1
    <3>1. ReadOrder[2] = "date" /\ 1 + 1 = 2 BY DEF ReadOrder
    <3>2. /\ reads' = 2 /\ moment' = moment
          /\ shown' = [shown EXCEPT !.date = DateRegister]
      BY <1>2, <2>2, <3>1 DEF Show
    <3>3. shown.hour = moment.hour /\ DateRegister = moment.date
      BY <1>1, <2>2 DEF ShownInv, DateRegister, Hours
    <3>4. shown' = moment BY <1>1, <3>2, <3>3 DEF Hours
    <3> QED BY <3>2, <3>4 DEF ShownInv
  <2> QED BY <1>1, <1>2, <2>1, <2>2 DEF Show
<1>3. CASE Draw
  BY <1>3 DEF Draw, ShownInv
<1>4. CASE UNCHANGED displayVars
  BY <1>4 DEF displayVars, ShownInv
<1>5. ASSUME NEW t \in Tasks, Step(t) \/ Reply(t) PROVE UNCHANGED displayVars
  BY <1>5 DEF Step, Open, Send, Recv, Close, Convert, Load, LockTest, LockTake, Write, Reply
<1>6. CASE DhcpWait \/ Bound \/ Wake \/ Tick \/ UNCHANGED vars
  BY <1>4, <1>6 DEF DhcpWait, Bound, Wake, Tick, vars, displayVars
<1> QED BY <1>2, <1>3, <1>4, <1>5, <1>6 DEF Next

-----------------------------------------------------------------------------
(* The answer in the RTC *)

\* A task that is not setting the RTC has nothing of it in its hands.
Calm(s, r) ==
  /\ s.lock # "no" => s.pc = "set"
  /\ s.pc \notin {"set", "close"} => s.call = "stamp"
  /\ s.pc \notin {"convert", "load"} => s.field = "date"
  /\ r # "none" => s.pc = "recv"

\* The handle is locked only by a task in a call of the HAL.
CalmInv ==
  /\ \A t \in Tasks : Calm(task[t], reply[t])
  /\ rtcLock => \E t \in Tasks : task[t].lock = "held"

\* What a task that sets the RTC has done so far is of one answer.
Prepared(s, fields, date) ==
  /\ s.pc = "convert" /\ s.field = "hour" => fields["hour"] = s.answer
  /\ s.pc = "load" => fields["hour"] = fields["date"]
  /\ s.pc = "load" /\ s.field = "hour" => s.args["hour"] = fields["hour"]
  /\ s.pc = "set" => s.args["hour"] = s.args["date"]
  /\ s.pc = "set" /\ s.call = "hour" => date = s.args["date"].date

Undisturbed ==
  /\ \A t, u \in Tasks : Setting(t) /\ Setting(u) => t = u
  /\ (\E t \in Tasks : Setting(t)) \/ calendar = due
  /\ \A t \in Tasks : Prepared(task[t], tm, calendar.date)

AnswerInv == disturbed \/ failed \/ Undisturbed

\* A step that moves no task into or within the setting of the RTC.
LEMMA QuietStep ==
  ASSUME Undisturbed, UNCHANGED <<tm, calendar, due>>,
         \A u \in Tasks : task'[u] = task[u] \/ (~Setting(u) /\ ~Setting(u)')
  PROVE  Undisturbed'
<1>1. \A u \in Tasks : Setting(u)' <=> Setting(u)
  BY DEF Setting
<1>2. ASSUME NEW u \in Tasks PROVE Prepared(task'[u], tm', calendar'.date)
  BY DEF Undisturbed, Prepared, Setting
<1> QED BY <1>1, <1>2 DEF Undisturbed

\* The calls before and after.
LEMMA RequestAnswer ==
  ASSUME TypeInv, CalmInv, AnswerInv, NEW t \in Tasks,
         Open(t) \/ Send(t) \/ Recv(t) \/ Close(t)
  PROVE  CalmInv' /\ AnswerInv'
<1>1. /\ task \in [Tasks -> Task] /\ task[t] \in Task /\ task[t].lock = "no"
      /\ task[t].field = "date" /\ ~Setting(t)
      /\ reply \in [Tasks -> {"none", "due", "answer", "other", "lost"}]
  BY DEF TypeInv, CalmInv, Calm, Open, Send, Recv, Close, Running, Setting
<1>2. ASSUME NEW label, Goto(t, label)
      PROVE  /\ \A u \in Tasks \ {t} : task'[u] = task[u]
             /\ task'[t] = [task[t] EXCEPT !.pc = label]
             /\ task'[t].pc = label /\ task'[t].lock = "no" /\ task'[t].field = "date"
             /\ task'[t].call = task[t].call
  <2>1. task' = [task EXCEPT ![t] = [task[t] EXCEPT !.pc = label]] BY <1>2 DEF Goto
  <2> QED BY <1>1, <2>1 DEF Task
<1>3. ASSUME Ended(t)
      PROVE  /\ \A u \in Tasks \ {t} : task'[u] = task[u]
             /\ task'[t].pc \in {"sleep", "open", "done"} /\ task'[t].lock = "no"
             /\ task'[t].field = "date" /\ task'[t].call = "stamp"
  <2>1. AfterRequest(t) \in {"sleep", "open", "done"} BY DEF AfterRequest
  <2> HIDE DEF AfterRequest
  <2> QED BY <1>1, <1>3, <2>1 DEF Ended, Task
<1>4. CASE Open(t)
  <2>1. /\ task[t].pc = "open" /\ task[t].call = "stamp" /\ reply[t] = "none"
        /\ UNCHANGED <<reply, tm, rtcLock, calendar, due, disturbed, failed>>
        /\ Goto(t, "send") \/ Ended(t)
    BY <1>4 DEF Open, Running, CalmInv, Calm, setVars, historyVars
  <2>2. /\ \A u \in Tasks \ {t} : task'[u] = task[u]
        /\ task'[t].pc \in {"send", "sleep", "open", "done"} /\ task'[t].lock = "no"
        /\ task'[t].field = "date" /\ task'[t].call = "stamp"
    BY <1>2, <1>3, <2>1
  <2>3. CalmInv' BY <1>1, <2>1, <2>2 DEF CalmInv, Calm
  <2>4. ~Setting(t)' BY <2>2 DEF Setting
  <2> QED BY <1>1, <2>1, <2>2, <2>3, <2>4, QuietStep DEF AnswerInv
<1>5. CASE Send(t)
  <2>1. /\ task[t].pc = "send" /\ task[t].call = "stamp" /\ reply[t] = "none"
        /\ UNCHANGED <<tm, rtcLock, calendar, due, disturbed, failed>>
        /\ \/ Goto(t, "recv") /\ reply' = [reply EXCEPT ![t] = "due"]
           \/ Goto(t, "close") /\ reply' = reply
    BY <1>5 DEF Send, Running, CalmInv, Calm, setVars, historyVars
  <2>2. /\ \A u \in Tasks \ {t} : task'[u] = task[u] /\ reply'[u] = reply[u]
        /\ task'[t].pc \in {"recv", "close"} /\ task'[t].lock = "no"
        /\ task'[t].field = "date" /\ task'[t].call = "stamp"
        /\ reply'[t] # "none" => task'[t].pc = "recv"
    BY <1>1, <1>2, <2>1
  <2>3. CalmInv' BY <1>1, <2>1, <2>2 DEF CalmInv, Calm
  <2>4. ~Setting(t)' BY <2>2 DEF Setting
  <2> QED BY <1>1, <2>1, <2>2, <2>3, <2>4, QuietStep DEF AnswerInv
<1>6. CASE Close(t)
  <2>1. /\ task[t].pc = "close" /\ reply[t] = "none" /\ Ended(t)
        /\ UNCHANGED <<reply, tm, rtcLock, calendar, due, disturbed, failed>>
    BY <1>6 DEF Close, Running, CalmInv, Calm, setVars, historyVars
  <2>2. CalmInv' BY <1>1, <1>3, <2>1 DEF CalmInv, Calm
  <2>3. ~Setting(t)' BY <1>3, <2>1 DEF Setting
  <2> QED BY <1>1, <1>3, <2>1, <2>2, <2>3, QuietStep DEF AnswerInv
<1>7. CASE Recv(t)
  <2>1. /\ task[t].pc = "recv" /\ task[t].call = "stamp"
        /\ UNCHANGED <<tm, rtcLock, calendar, due, failed>>
        /\ reply' = [reply EXCEPT ![t] = "none"]
        /\ Goto(t, "convert") \/ Goto(t, "close")
        /\ disturbed' = (disturbed \/ \E u \in Tasks : Setting(u))
    BY <1>7 DEF Recv, Running, CalmInv, Calm, setVars
  <2>2. /\ \A u \in Tasks \ {t} : task'[u] = task[u] /\ reply'[u] = reply[u]
        /\ task'[t].pc \in {"convert", "close"} /\ task'[t].lock = "no"
        /\ task'[t].field = "date" /\ task'[t].call = "stamp"
        /\ reply'[t] = "none"
    BY <1>1, <1>2, <2>1
  <2>3. CalmInv' BY <1>1, <2>1, <2>2 DEF CalmInv, Calm
  <2>4. ASSUME ~disturbed', ~failed' PROVE Undisturbed'
    <3>1. Undisturbed /\ \A u \in Tasks : ~Setting(u)
      BY <2>1, <2>4 DEF AnswerInv
    <3>2. \A u \in Tasks \ {t} : ~Setting(u)'
      BY <2>2, <3>1 DEF Setting
    <3>3. calendar' = due' BY <2>1, <3>1 DEF Undisturbed
    <3>4. ASSUME NEW u \in Tasks PROVE Prepared(task'[u], tm', calendar'.date)
      <4>1. task'[u].pc \notin {"load", "set"} /\ (task'[u].pc = "convert" => task'[u].field = "date")
        BY <2>2, <3>1 DEF Setting
      <4> QED BY <4>1 DEF Prepared
    <3> QED BY <3>2, <3>3, <3>4 DEF Undisturbed
  <2> QED BY <2>3, <2>4 DEF AnswerInv
<1> QED BY <1>4, <1>5, <1>6, <1>7

\* A step of the task that is setting the RTC.
LEMMA SettingStep ==
  ASSUME TypeInv, CalmInv, Undisturbed, NEW t \in Tasks, NEW s \in Task, Setting(t),
         task' = [task EXCEPT ![t] = s],
         s.pc \in {"convert", "load", "set"} => Prepared(s, tm', calendar'.date),
         s.pc \notin {"convert", "load", "set"} => s.pc = "close" /\ calendar' = due'
  PROVE  Undisturbed'
<1>1. \A u \in Tasks : task'[u] = IF u = t THEN s ELSE task[u]
  BY DEF TypeInv
<1>2. \A u \in Tasks \ {t} : ~Setting(u) /\ ~Setting(u)'
  BY <1>1 DEF Undisturbed, Setting
<1>3. \A u \in Tasks \ {t} : Prepared(task'[u], tm', calendar'.date)
  BY <1>2 DEF Prepared, Setting
<1>4. Prepared(task'[t], tm', calendar'.date)
  <2>1. task'[t] = s BY <1>1
  <2>2. CASE s.pc \in {"convert", "load", "set"} BY <2>1, <2>2 DEF Prepared
  <2>3. CASE s.pc = "close" BY <2>1, <2>3 DEF Prepared
  <2> QED BY <2>2, <2>3
<1>5. Setting(t)' \/ calendar' = due'
  BY <1>1 DEF Setting
<1> QED BY <1>2, <1>3, <1>4, <1>5 DEF Undisturbed

\* localtime, by the only caller that is setting the RTC.
LEMMA ConvertAnswer ==
  ASSUME TypeInv, CalmInv, AnswerInv, NEW t \in Tasks, Convert(t)
  PROVE  CalmInv' /\ AnswerInv'
<1> DEFINE f == NextField(task[t].field)
           s == [task[t] EXCEPT !.field = f,
                                !.answer = IF f = "date" THEN Boot ELSE @,
                                !.pc = IF f = "date" THEN "load" ELSE @]
<1>1. /\ task \in [Tasks -> Task] /\ task[t] \in Task /\ task[t].pc = "convert"
      /\ task[t].field \in Fields /\ tm \in [Fields -> Times]
      /\ task[t].answer \in Times /\ Boot \in Times
      /\ task[t].lock = "no" /\ task[t].call = "stamp" /\ reply[t] = "none" /\ Setting(t)
  BY DEF TypeInv, Task, Convert, Running, CalmInv, Calm, Setting, Times
<1>2. /\ tm' = [tm EXCEPT ![f] = task[t].answer]
      /\ task' = [task EXCEPT ![t] = s]
      /\ UNCHANGED <<reply, rtcLock, calendar, due, disturbed, failed>>
  BY DEF Convert, netVars, setVars, historyVars
<1>3. f = IF task[t].field = "date" THEN "hour" ELSE "date"
  BY DEF NextField
<1>4. f \in Fields BY <1>3 DEF Fields
<1> HIDE DEF f
<1>5. /\ s \in Task /\ s.field = f /\ s.lock = "no" /\ s.call = "stamp"
      /\ s.pc = (IF f = "date" THEN "load" ELSE "convert")
      /\ f = "hour" => s.answer = task[t].answer
  BY <1>1, <1>4 DEF Task
<1> HIDE DEF s
<1>6. CalmInv' BY <1>1, <1>2, <1>3, <1>5 DEF CalmInv, Calm
<1>7. ASSUME Undisturbed PROVE Undisturbed'
  <2>1. Prepared(s, tm', calendar'.date)
    <3>1. CASE f = "hour"
      <4>1. tm'["hour"] = s.answer BY <1>1, <1>2, <1>5, <3>1 DEF Fields
      <4> QED BY <1>5, <3>1, <4>1 DEF Prepared
    <3>2. CASE f = "date"
      <4>1. tm["hour"] = task[t].answer
        BY <1>1, <1>3, <1>7, <3>2 DEF Undisturbed, Prepared, Fields
      <4>2. tm'["hour"] = tm'["date"]
        BY <1>1, <1>2, <3>2, <4>1 DEF Fields
      <4> QED BY <1>5, <3>2, <4>2 DEF Prepared
    <3> QED BY <1>4, <3>1, <3>2 DEF Fields
  <2> QED BY <1>1, <1>2, <1>5, <1>7, <2>1, SettingStep
<1> QED BY <1>2, <1>6, <1>7 DEF AnswerInv

\* The arguments, by the only caller that is setting the RTC.
LEMMA LoadAnswer ==
  ASSUME TypeInv, CalmInv, AnswerInv, NEW t \in Tasks, Load(t)
  PROVE  CalmInv' /\ AnswerInv'
<1> DEFINE f == NextField(task[t].field)
           s == [task[t] EXCEPT !.field = f, !.args[f] = tm[f],
                                !.pc = IF f = "date" THEN "set" ELSE @]
<1>1. /\ task \in [Tasks -> Task] /\ task[t] \in Task /\ task[t].pc = "load"
      /\ task[t].field \in Fields /\ tm \in [Fields -> Times]
      /\ task[t].args \in [Fields -> Times]
      /\ task[t].lock = "no" /\ task[t].call = "stamp" /\ reply[t] = "none" /\ Setting(t)
  BY DEF TypeInv, Task, Load, Running, CalmInv, Calm, Setting
<1>2. /\ task' = [task EXCEPT ![t] = s]
      /\ UNCHANGED <<reply, tm, rtcLock, calendar, due, disturbed, failed>>
  BY DEF Load, netVars, setVars, historyVars
<1>3. f = IF task[t].field = "date" THEN "hour" ELSE "date"
  BY DEF NextField
<1>4. f \in Fields /\ tm[f] \in Times BY <1>1, <1>3 DEF Fields
<1> HIDE DEF f
<1>5. /\ s \in Task /\ s.field = f /\ s.lock = "no" /\ s.call = "stamp"
      /\ s.pc = (IF f = "date" THEN "set" ELSE "load")
      /\ s.args = [task[t].args EXCEPT ![f] = tm[f]]
  BY <1>1, <1>4 DEF Task
<1> HIDE DEF s
<1>6. CalmInv' BY <1>1, <1>2, <1>3, <1>5 DEF CalmInv, Calm
<1>7. ASSUME Undisturbed PROVE Undisturbed'
  <2>1. /\ tm["hour"] = tm["date"]
        /\ task[t].field = "hour" => task[t].args["hour"] = tm["hour"]
    BY <1>1, <1>7 DEF Undisturbed, Prepared
  <2>2. Prepared(s, tm', calendar'.date)
    <3>1. CASE f = "hour"
      <4>1. s.args["hour"] = tm["hour"] BY <1>1, <1>5, <3>1 DEF Fields
      <4> QED BY <1>2, <1>5, <2>1, <3>1, <4>1 DEF Prepared
    <3>2. CASE f = "date"
      <4>1. s.args["hour"] = s.args["date"]
        BY <1>1, <1>3, <1>5, <2>1, <3>2 DEF Fields
      <4> QED BY <1>5, <3>2, <4>1 DEF Prepared
    <3> QED BY <1>4, <3>1, <3>2 DEF Fields
  <2> QED BY <1>1, <1>2, <1>5, <1>7, <2>2, SettingStep
<1> QED BY <1>2, <1>6, <1>7 DEF AnswerInv

\* What CallDone leaves alone and where it goes.
LEMMA CallDoneSteps ==
  ASSUME NEW s \in Task, s.pc = "set"
  PROVE  /\ CallDone(s).lock = "no" /\ CallDone(s).field = s.field
         /\ CallDone(s).args = s.args
         /\ \/ /\ s.call # "hour" /\ CallDone(s).pc = "set"
               /\ CallDone(s).call = IF s.call = "stamp" THEN "date" ELSE "hour"
            \/ s.call = "hour" /\ CallDone(s).pc = "close"
<1>1. CASE s.call = "stamp"
  <2>1. CallDone(s) = [s EXCEPT !.lock = "no", !.call = "date"] BY <1>1 DEF CallDone
  <2> QED BY <1>1, <2>1 DEF Task
<1>2. CASE s.call = "date"
  <2>1. CallDone(s) = [s EXCEPT !.lock = "no", !.call = "hour"] BY <1>2 DEF CallDone
  <2> QED BY <1>2, <2>1 DEF Task
<1>3. CASE s.call = "hour"
  <2>1. CallDone(s) = [s EXCEPT !.lock = "no", !.pc = "close"] BY <1>3 DEF CallDone
  <2> QED BY <1>3, <2>1 DEF Task
<1> QED BY <1>1, <1>2, <1>3 DEF Task

\* An undisturbed caller never meets HAL_BUSY.
LEMMA LockAnswer ==
  ASSUME TypeInv, CalmInv, AnswerInv, NEW t \in Tasks, LockTest(t) \/ LockTake(t)
  PROVE  CalmInv' /\ AnswerInv'
<1>1. /\ task \in [Tasks -> Task] /\ task[t] \in Task /\ task[t].pc = "set"
      /\ task[t].field = "date" /\ reply[t] = "none" /\ task[t].lock \in {"no", "free"} /\ Setting(t)
  BY DEF TypeInv, LockTest, LockTake, Running, CalmInv, Calm, Setting
<1>2. CASE LockTest(t)
  <2> DEFINE s == IF rtcLock THEN CallDone(task[t]) ELSE [task[t] EXCEPT !.lock = "free"]
  <2>1. /\ task' = [task EXCEPT ![t] = s] /\ task[t].lock = "no"
        /\ UNCHANGED <<reply, tm, rtcLock, calendar, due, disturbed, failed>>
    BY <1>2 DEF LockTest, netVars, setVars, historyVars
  <2>2. CASE rtcLock
    <3>1. s = CallDone(task[t]) BY <2>2
    <3>2. s \in Task /\ s.lock = "no" /\ s.field = "date" /\ s.pc \in {"set", "close"}
      <4>1. task[t] \in Task /\ task[t].pc = "set" /\ task[t].field = "date" BY <1>1
      <4>2. CallDone(task[t]).lock = "no" /\ CallDone(task[t]).field = "date"
        BY <4>1, CallDoneSteps
      <4>3. CallDone(task[t]) \in Task /\ CallDone(task[t]).pc \in {"set", "close"}
        BY <4>1, CallDoneType
      <4> QED BY <3>1, <4>2, <4>3
    <3> HIDE DEF s
    <3>3. PICK u \in Tasks : task[u].lock = "held" BY <2>2 DEF CalmInv
    <3>4. u # t /\ task[u].pc = "set" BY <2>1, <3>3 DEF CalmInv, Calm
    <3>5. CalmInv' BY <1>1, <2>1, <3>2, <3>3, <3>4 DEF CalmInv, Calm
    <3>6. ~Undisturbed BY <1>1, <3>4 DEF Undisturbed, Setting
    <3> QED BY <2>1, <3>5, <3>6 DEF AnswerInv
  <2>3. CASE ~rtcLock
    <3>1. s = [task[t] EXCEPT !.lock = "free"] BY <2>3
    <3>2. /\ s \in Task /\ s.lock = "free" /\ s.field = "date" /\ s.pc = "set"
          /\ s.args = task[t].args /\ s.call = task[t].call
      BY <1>1, <3>1 DEF Task
    <3> HIDE DEF s
    <3>3. CalmInv' BY <1>1, <2>1, <2>3, <3>2 DEF CalmInv, Calm
    <3>4. Undisturbed => Prepared(s, tm', calendar'.date)
      BY <1>1, <2>1, <3>2 DEF Undisturbed, Prepared
    <3> QED BY <1>1, <2>1, <3>2, <3>3, <3>4, SettingStep DEF AnswerInv
  <2> QED BY <2>2, <2>3
<1>3. CASE LockTake(t)
  <2> DEFINE s == [task[t] EXCEPT !.lock = "held"]
  <2>1. /\ task' = [task EXCEPT ![t] = s]
        /\ UNCHANGED <<reply, tm, calendar, due, disturbed, failed>>
    BY <1>3 DEF LockTake, netVars, setVars, historyVars
  <2>2. /\ s \in Task /\ s.lock = "held" /\ s.field = "date" /\ s.pc = "set"
        /\ s.args = task[t].args /\ s.call = task[t].call
    BY <1>1 DEF Task
  <2> HIDE DEF s
  <2>3. CalmInv' BY <1>1, <2>1, <2>2 DEF CalmInv, Calm
  <2>4. Undisturbed => Prepared(s, tm', calendar'.date)
    BY <1>1, <2>1, <2>2 DEF Undisturbed, Prepared
  <2> QED BY <1>1, <2>1, <2>2, <2>3, <2>4, SettingStep DEF AnswerInv
<1> QED BY <1>2, <1>3

\* The date, then the hour of one answer; with the hour the RTC is as due.
LEMMA WriteAnswer ==
  ASSUME TypeInv, CalmInv, AnswerInv, NEW t \in Tasks, Write(t)
  PROVE  CalmInv' /\ AnswerInv'
<1> DEFINE s == CallDone(task[t])
<1>1. /\ task \in [Tasks -> Task] /\ task[t] \in Task /\ task[t].pc = "set"
      /\ task[t].field = "date" /\ reply[t] = "none" /\ Setting(t)
      /\ calendar \in Hours
  BY DEF TypeInv, Write, Running, CalmInv, Calm, Setting
<1>2. /\ task' = [task EXCEPT ![t] = s] /\ rtcLock' = FALSE
      /\ UNCHANGED <<reply, tm, disturbed>>
      /\ failed' \/ (failed' = failed /\ Written(task[t]))
  BY DEF Write, netVars
<1>3. /\ s \in Task /\ s.lock = "no" /\ s.field = "date" /\ s.args = task[t].args
      /\ \/ /\ task[t].call # "hour" /\ s.pc = "set"
            /\ s.call = IF task[t].call = "stamp" THEN "date" ELSE "hour"
         \/ task[t].call = "hour" /\ s.pc = "close"
  BY <1>1, CallDoneType, CallDoneSteps
<1> HIDE DEF s
<1>4. CalmInv' BY <1>1, <1>2, <1>3 DEF CalmInv, Calm
<1>5. ASSUME Undisturbed, ~failed' PROVE Undisturbed'
  <2>1. Written(task[t]) BY <1>2, <1>5
  <2>2. /\ task[t].args["hour"] = task[t].args["date"]
        /\ task[t].call = "hour" => calendar.date = task[t].args["date"].date
    BY <1>1, <1>5 DEF Undisturbed, Prepared
  <2>3. CASE task[t].call = "stamp"
    <3>1. s.pc = "set" /\ s.call = "date" BY <1>3, <2>3
    <3>2. Prepared(s, tm', calendar'.date) BY <1>3, <2>2, <3>1 DEF Prepared
    <3> QED BY <1>1, <1>2, <1>3, <1>5, <3>1, <3>2, SettingStep
  <2>4. CASE task[t].call = "date"
    <3>1. s.pc = "set" /\ s.call = "hour" BY <1>3, <2>4
    <3>2. calendar' = [calendar EXCEPT !.date = task[t].args["date"].date]
      BY <2>1, <2>4 DEF Written
    <3>3. calendar'.date = task[t].args["date"].date BY <1>1, <3>2 DEF Hours
    <3>4. Prepared(s, tm', calendar'.date) BY <1>3, <2>2, <3>1, <3>3 DEF Prepared
    <3> QED BY <1>1, <1>2, <1>3, <1>5, <3>1, <3>4, SettingStep
  <2>5. CASE task[t].call = "hour"
    <3>1. s.pc = "close" BY <1>3, <2>5
    <3>2. /\ calendar' = [calendar EXCEPT !.hour = RtcHour(task[t].args["hour"].hour)]
          /\ due' = [date |-> task[t].args["hour"].date,
                     hour |-> RtcHour(task[t].args["hour"].hour)]
      BY <2>1, <2>5 DEF Written
    <3>3. calendar.date = task[t].args["hour"].date BY <2>2, <2>5
    <3> HIDE DEF RtcHour
    <3>4. calendar' = due' BY <1>1, <3>2, <3>3 DEF Hours
    <3> QED BY <1>1, <1>2, <1>3, <1>5, <3>1, <3>4, SettingStep
  <2> QED BY <1>1, <2>3, <2>4, <2>5 DEF Task
<1> QED BY <1>2, <1>4, <1>5 DEF AnswerInv

\* The hours the RTC counts meanwhile.
LEMMA TickAnswer == TypeInv /\ CalmInv /\ AnswerInv /\ Tick => CalmInv' /\ AnswerInv'
<1> SUFFICES ASSUME TypeInv, CalmInv, AnswerInv, Tick PROVE CalmInv' /\ AnswerInv'
  OBVIOUS
<1>1. /\ UNCHANGED <<task, reply, tm, rtcLock, failed>>
      /\ calendar' = NextHour(calendar) /\ due' = NextHour(due)
      /\ disturbed' = (disturbed \/ (calendar.hour = 23 /\ \E t \in Tasks : task[t].call = "hour"))
      /\ calendar.hour <= 23 /\ calendar \in Hours
  BY DEF Tick, TypeInv, netVars
<1>2. CalmInv' BY <1>1 DEF CalmInv, Calm
<1>3. ASSUME Undisturbed, ~disturbed' PROVE Undisturbed'
  <2>1. \A t \in Tasks : Setting(t)' <=> Setting(t) BY <1>1 DEF Setting
  <2>2. (\E t \in Tasks : Setting(t)') \/ calendar' = due'
    BY <1>1, <1>3, <2>1 DEF Undisturbed
  <2>3. ASSUME NEW t \in Tasks PROVE Prepared(task'[t], tm', calendar'.date)
    <3>1. task[t].call = "hour" => calendar'.date = calendar.date
      <4>1. SUFFICES ASSUME task[t].call = "hour" PROVE calendar'.date = calendar.date
        OBVIOUS
      <4>2. calendar.hour # 23 BY <1>1, <1>3, <4>1
      <4>3. calendar.hour \in 0 .. 24 /\ calendar.hour <= 23 BY <1>1 DEF Hours
      <4>4. calendar.hour < 23 BY <4>2, <4>3
      <4>5. calendar' = [calendar EXCEPT !.hour = @ + 1] BY <1>1, <4>4 DEF NextHour
      <4> QED BY <1>1, <4>5 DEF Hours
    <3>2. Prepared(task[t], tm, calendar.date) BY <1>3 DEF Undisturbed
    <3> QED BY <1>1, <3>1, <3>2 DEF Prepared
  <2> QED BY <1>3, <2>1, <2>2, <2>3 DEF Undisturbed
<1> QED BY <1>1, <1>2, <1>3 DEF AnswerInv

\* Every step keeps what the RTC and the callers have of one answer.
LEMMA NextAnswer ==
  TypeInv /\ RequestInv /\ CalmInv /\ AnswerInv /\ [Next]_vars => CalmInv' /\ AnswerInv'
<1> SUFFICES ASSUME TypeInv, RequestInv, CalmInv, AnswerInv, [Next]_vars
             PROVE  CalmInv' /\ AnswerInv'
  OBVIOUS
<1>1. task \in [Tasks -> Task] BY DEF TypeInv
<1>2. ASSUME NEW t \in Tasks, Step(t) PROVE CalmInv' /\ AnswerInv'
  BY <1>2, RequestAnswer, ConvertAnswer, LoadAnswer, LockAnswer, WriteAnswer DEF Step
<1>3. CASE Tick BY <1>3, TickAnswer
<1>4. CASE Bound \/ Show \/ Draw \/ UNCHANGED vars
  <2>1. UNCHANGED <<task, reply, tm, rtcLock, calendar, due, disturbed, failed>>
    BY <1>4 DEF Bound, Show, Draw, vars, netVars, setVars, historyVars
  <2>2. CalmInv' BY <2>1 DEF CalmInv, Calm
  <2>3. Undisturbed => Undisturbed' BY <2>1, QuietStep
  <2> QED BY <2>1, <2>2, <2>3 DEF AnswerInv
<1>5. CASE DhcpWait
  <2> DEFINE s == [task["startup"] EXCEPT !.pc = "open"]
             n == [task["ntp"] EXCEPT !.pc = "open"]
  <2>1. /\ task' = [task EXCEPT !["startup"] = s, !["ntp"] = n]
        /\ task["startup"].pc = "dhcp" /\ task["ntp"].pc = "none"
        /\ UNCHANGED <<reply, tm, rtcLock, calendar, due, disturbed, failed>>
    BY <1>5 DEF DhcpWait, Running, setVars, historyVars, RequestInv
  <2>2. \A u \in Tasks : /\ task[u].lock = "no" /\ task[u].call = "stamp"
                         /\ task[u].field = "date" /\ reply[u] = "none"
    BY <2>1 DEF CalmInv, Calm, Tasks
  <2>3. /\ s.pc = "open" /\ s.lock = "no" /\ s.call = "stamp" /\ s.field = "date"
        /\ n.pc = "open" /\ n.lock = "no" /\ n.call = "stamp" /\ n.field = "date"
    BY <1>1, <2>2 DEF Tasks, Task
  <2>4. task'["startup"] = s /\ task'["ntp"] = n BY <1>1, <2>1 DEF Tasks
  <2> HIDE DEF s, n
  <2>5. CalmInv' BY <2>1, <2>2, <2>3, <2>4 DEF CalmInv, Calm, Tasks
  <2>6. \A u \in Tasks : ~Setting(u) /\ ~Setting(u)'
    BY <2>1, <2>3, <2>4 DEF Setting, Tasks
  <2>7. Undisturbed => Undisturbed' BY <2>1, <2>6, QuietStep
  <2> QED BY <2>1, <2>5, <2>7 DEF AnswerInv
<1>6. CASE Wake
  <2> DEFINE n == [task["ntp"] EXCEPT !.pc = "open"]
  <2>1. /\ task' = [task EXCEPT !["ntp"] = n] /\ task["ntp"].pc = "sleep" /\ "ntp" \in Tasks
        /\ UNCHANGED <<reply, tm, rtcLock, calendar, due, disturbed, failed>>
    BY <1>6 DEF Wake, Running, Goto, netVars, setVars, historyVars, Tasks
  <2>2. /\ task["ntp"].lock = "no" /\ task["ntp"].call = "stamp"
        /\ task["ntp"].field = "date" /\ reply["ntp"] = "none"
    BY <2>1 DEF CalmInv, Calm
  <2>3. n.pc = "open" /\ n.lock = "no" /\ n.call = "stamp" /\ n.field = "date"
    BY <1>1, <2>1, <2>2 DEF Task
  <2>4. \A u \in Tasks : task'[u] = IF u = "ntp" THEN n ELSE task[u]
    BY <1>1, <2>1
  <2> HIDE DEF n
  <2>5. CalmInv' BY <2>1, <2>2, <2>3, <2>4 DEF CalmInv, Calm
  <2>6. ~Setting("ntp") /\ ~Setting("ntp")' BY <2>1, <2>3, <2>4 DEF Setting
  <2>7. Undisturbed => Undisturbed' BY <2>1, <2>4, <2>6, QuietStep
  <2> QED BY <2>1, <2>5, <2>7 DEF AnswerInv
<1>7. ASSUME NEW t \in Tasks, Reply(t) PROVE CalmInv' /\ AnswerInv'
  <2>1. /\ task[t].pc = "recv" /\ reply \in [Tasks -> {"none", "due", "answer", "other", "lost"}]
        /\ \A u \in Tasks \ {t} : reply'[u] = reply[u]
        /\ UNCHANGED <<tm, rtcLock, calendar, due, disturbed, failed>>
    BY <1>7 DEF Reply, CalmInv, Calm, TypeInv, setVars, historyVars
  <2>2. /\ \A u \in Tasks \ {t} : task'[u] = task[u]
        /\ task'[t].pc = "recv" /\ task'[t].lock = task[t].lock
        /\ task'[t].call = task[t].call /\ task'[t].field = task[t].field
    <3>1. CASE UNCHANGED task BY <2>1, <3>1
    <3>2. ASSUME NEW a \in Answers, task' = [task EXCEPT ![t].answer = a]
          PROVE  /\ \A u \in Tasks \ {t} : task'[u] = task[u]
                 /\ task'[t].pc = "recv" /\ task'[t].lock = task[t].lock
                 /\ task'[t].call = task[t].call /\ task'[t].field = task[t].field
      <4>1. task' = [task EXCEPT ![t] = [task[t] EXCEPT !.answer = a]] BY <3>2
      <4>2. task[t] \in Task BY <1>1
      <4> QED BY <1>1, <2>1, <4>1, <4>2 DEF Task
    <3> QED BY <1>7, <3>1, <3>2 DEF Reply
  <2>3. CalmInv' BY <2>1, <2>2 DEF CalmInv, Calm
  <2>4. ~Setting(t) /\ ~Setting(t)' BY <2>1, <2>2 DEF Setting
  <2>5. Undisturbed => Undisturbed' BY <2>1, <2>2, <2>4, QuietStep
  <2> QED BY <2>1, <2>3, <2>5 DEF AnswerInv
<1> QED BY <1>2, <1>3, <1>4, <1>5, <1>6, <1>7 DEF Next

-----------------------------------------------------------------------------
(* The theorems *)

\* The types, how often each task asks, and the sockets.
THEOREM Invariance == Spec => [](TypeInv /\ RequestInv /\ SocketInv /\ ShownInv)
<1>1. Init => SocketInv
  BY NtpRtcAssumption DEF Init, SocketInv, Holds, Requesting, Tasks
<1>2. Init => ShownInv
  BY DEF Init, ShownInv
<1> QED BY <1>1, <1>2, InitType, NextType, NextSocket, NextShown, PTL DEF Spec

\* Types: sockets are neither lost nor given back twice, each task asks as often
\* as it should, and the RTC is set to hours of 0 to 24.
THEOREM TypeCorrect == Spec => []TypeOK
<1>1. TypeInv /\ RequestInv /\ SocketInv => TypeOK
  <2> SUFFICES ASSUME TypeInv, RequestInv, SocketInv PROVE TypeOK
    OBVIOUS
  <2>1. sockets \in 0 .. NUM_SOCKETS
    <3>1. Holds(task["startup"].pc) \in Nat /\ Holds(task["ntp"].pc) \in Nat /\ sockets \in Nat
      BY DEF Holds, TypeInv
    <3> QED BY <3>1, NtpRtcAssumption DEF SocketInv
  <2>2. \A t \in Tasks : task[t] \in Task /\ task[t].requests \in 0 .. MaxRequests + 2
    BY NtpRtcAssumption DEF TypeInv, RequestInv, Tasks, Task
  <2>3. task \in [Tasks ->
       [pc : {"none", "dhcp", "open", "send", "recv", "convert", "load", "set",
              "close", "sleep", "done"},
        requests : 0 .. MaxRequests + 2,
        answer : Answers \union {Boot}, field : Fields,
        args : [Fields -> Answers \union {Boot}],
        call : {"stamp", "date", "hour"}, lock : {"no", "free", "held"}]]
    BY <2>2 DEF TypeInv, Task, Times
  <2>4. Hours \subseteq [date : Nat, hour : 0 .. 24]
    BY DEF Hours
  <2> QED BY <2>1, <2>3, <2>4 DEF TypeInv, TypeOK, Times
<1> QED BY <1>1, Invariance, PTL

\* No path of sntp_request loses its socket.
THEOREM NoSocketLost == Spec => []SocketsConserved
BY Invariance, SocketsCounted, PTL

\* The date and hour displayed belong together, whenever the RTC counts.
THEOREM OneMoment == Spec => []ShownOneMoment
<1>1. ShownInv => ShownOneMoment BY DEF ShownInv, ShownOneMoment
<1> QED BY <1>1, Invariance, PTL

\* Whenever no caller is setting it, the RTC has the date and hour of one answer
\* and what it has counted since, unless it was disturbed or it failed.
THEOREM AnswerKept == Spec => []OneAnswer
<1>1. Init => CalmInv /\ AnswerInv
  BY DEF Init, CalmInv, Calm, AnswerInv, Undisturbed, Prepared, Setting, Tasks
<1>2. AnswerInv => OneAnswer
  BY DEF AnswerInv, Undisturbed, OneAnswer
<1> QED BY <1>1, <1>2, Invariance, NextAnswer, PTL DEF Spec

=============================================================================
