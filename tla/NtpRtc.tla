------------------------------- MODULE NtpRtc -------------------------------
(***************************************************************************)
(* The time of day: NETWORK_Init in startup_task and sntp_thread in the    *)
(* ntp task send SNTP requests and set the RTC; CLOCK_thread displays it.  *)
(*                                                                         *)
(* The two callers have one priority and are time-sliced.  CLOCK_thread is *)
(* below them, so it runs only while both are blocked, and reads the RTC   *)
(* in a critical section, so that only the RTC itself moves meanwhile.     *)
(*                                                                         *)
(* A time is a date and an hour.  localtime fills one static structure,    *)
(* whose fields RTC_TimeStampConfig is then given; a field is modelled by  *)
(* the answer it comes from.                                               *)
(***************************************************************************)
EXTENDS Integers, FiniteSets

CONSTANTS
  Answers,        \* the dates and hours the server may answer
  NUM_SOCKETS,    \* sockets left to the SNTP client
  MaxRequests,    \* bound: requests of the ntp task
  MaxTicks        \* bound: hours the RTC counts

ASSUME NtpRtcAssumption ==
  /\ Answers \subseteq [date : Nat \ {0}, hour : 0 .. 23]
  /\ NUM_SOCKETS \in Nat
  /\ MaxRequests \in Nat
  /\ MaxTicks \in Nat

VARIABLES
  up,          \* the interface has an address and is up
  task,        \* the callers of sntp_request: see TypeOK
  reply,       \* what the network holds for the request of each caller
  sockets,     \* free sockets
  tm,          \* the static result of localtime
  rtcLock,     \* RtcHandle.Lock
  calendar,    \* the RTC: date and hour
  due,         \* history: the calendar, had the last answer been set at once
  shadow,      \* date locked in the shadow register, 0 when not locked
  reads,       \* CLOCK_thread: registers read in this display
  shown,       \* the date and hour it read
  moment,      \* history: the calendar at the first read
  ticks,       \* hours counted
  disturbed,   \* history: another caller was setting the RTC at the same time,
               \* or midnight passed between its date and its hour
  failed       \* history: the RTC hardware timed out

netVars     == <<up, reply, sockets>>
displayVars == <<shadow, reads, shown, moment>>
setVars     == <<calendar, due>>
historyVars == <<ticks, disturbed, failed>>
vars == <<netVars, task, tm, rtcLock, setVars, displayVars, historyVars>>

Tasks   == {"startup", "ntp"}
Fields  == {"date", "hour"}
NextField(f) == IF f = "date" THEN "hour" ELSE "date"

\* RTC_Config set the first of January, midnight.
Boot == [date |-> 1, hour |-> 0]

\* The hour RTC_TimeStampConfig gives the RTC.
RtcHour(hour) == IF hour # 0 THEN hour + 1 ELSE 0

Init ==
  /\ up = FALSE
  /\ task = [t \in Tasks |->
       [pc |-> IF t = "startup" THEN "dhcp" ELSE "none", requests |-> 0,
        answer |-> Boot, field |-> "date", args |-> [f \in Fields |-> Boot],
        call |-> "stamp", lock |-> "no"]]
  /\ reply = [t \in Tasks |-> "none"] /\ sockets = NUM_SOCKETS
  /\ tm = [f \in Fields |-> Boot] /\ rtcLock = FALSE
  /\ calendar = Boot /\ due = Boot
  /\ shadow = 0 /\ reads = 0 /\ shown = Boot /\ moment = Boot
  /\ ticks = 0 /\ disturbed = FALSE /\ failed = FALSE

-----------------------------------------------------------------------------
(* NETWORK_Init and sntp_thread *)

\* CLOCK_thread's critical section stops the tasks.
Running(t, pc) == reads = 0 /\ task[t].pc = pc

Goto(t, pc) == task' = [task EXCEPT ![t].pc = pc]

\* networkDhcpStart waits for DHCPSEM for at most five seconds and ignores the
\* result; as the semaphore is created given, the wait does not block at all.
\* sntp_init then creates the ntp task.
DhcpWait ==
  /\ Running("startup", "dhcp")
  /\ task' = [task EXCEPT !["startup"].pc = "open", !["ntp"].pc = "open"]
  /\ UNCHANGED <<up, reply, sockets, tm, rtcLock, setVars, displayVars, historyVars>>

\* dhcp_bind (lwIP): the interface comes up.
Bound ==
  /\ reads = 0 /\ ~up
  /\ up' = TRUE
  /\ UNCHANGED <<reply, sockets, task, tm, rtcLock, setVars, displayVars, historyVars>>

\* Faulty variant: startup_task repeats the request.
AfterRequestRepeated(t) == IF t = "ntp" THEN "sleep" ELSE "open"

\* startup_task calls sntp_request twice and goes on to the HTTP server and to
\* its end; the ntp task sleeps for SNTP_UPDATE_DELAY.
AfterRequest(t) ==
  IF t = "ntp" THEN "sleep" ELSE IF task[t].requests = 0 THEN "open" ELSE "done"

Ended(t) ==
  task' = [task EXCEPT ![t].pc = AfterRequest(t),
                       ![t].requests = @ + 1,
                       ![t].answer = Boot, ![t].field = "date",
                       ![t].args = [f \in Fields |-> Boot], ![t].call = "stamp"]

Wake ==
  /\ Running("ntp", "sleep") /\ task["ntp"].requests < MaxRequests
  /\ Goto("ntp", "open")
  /\ UNCHANGED <<netVars, tm, rtcLock, setVars, displayVars, historyVars>>

-----------------------------------------------------------------------------
(* sntp_request *)

\* lwip_socket fails without a socket, or without the memory for its netconn,
\* which the HTTP server uses too.
Open(t) ==
  /\ Running(t, "open")
  /\ \/ sockets > 0 /\ Goto(t, "send") /\ sockets' = sockets - 1
     \/ Ended(t) /\ UNCHANGED sockets
  /\ UNCHANGED <<up, reply, tm, rtcLock, setVars, displayVars, historyVars>>

\* Faulty variant: the caller returns at once when nothing can be sent.
SendOrReturn(t) ==
  /\ Running(t, "send")
  /\ \/ up /\ Goto(t, "recv") /\ reply' = [reply EXCEPT ![t] = "due"]
     \/ Ended(t) /\ UNCHANGED reply
  /\ UNCHANGED <<up, sockets, tm, rtcLock, setVars, displayVars, historyVars>>

\* lwip_bind and lwip_sendto: without an interface that is up there is no
\* route, and memory may be short.
Send(t) ==
  /\ Running(t, "send")
  /\ \/ up /\ Goto(t, "recv") /\ reply' = [reply EXCEPT ![t] = "due"]
     \/ Goto(t, "close") /\ UNCHANGED reply
  /\ UNCHANGED <<up, sockets, tm, rtcLock, setVars, displayVars, historyVars>>

\* The network and the server: one answer, something else, or nothing.
Reply(t) ==
  /\ reads = 0 /\ reply[t] = "due"
  /\ \/ \E a \in Answers : reply' = [reply EXCEPT ![t] = "answer"]
                           /\ task' = [task EXCEPT ![t].answer = a]
     \/ \E r \in {"other", "lost"} : reply' = [reply EXCEPT ![t] = r]
                                     /\ UNCHANGED task
  /\ UNCHANGED <<up, sockets, tm, rtcLock, setVars, displayVars, historyVars>>

Setting(t) == task[t].pc \in {"convert", "load", "set"}

\* Faulty variant: after something else the caller waits on.
RecvAgain(t) ==
  /\ Running(t, "recv")
  /\ \/ reply[t] = "answer" /\ Goto(t, "convert")
     \/ reply[t] = "other" /\ UNCHANGED task
  /\ reply' = [reply EXCEPT ![t] = "none"]
  /\ disturbed' = (disturbed \/ \E u \in Tasks : Setting(u))
  /\ UNCHANGED <<up, sockets, tm, rtcLock, setVars, displayVars, ticks, failed>>

\* lwip_recvfrom returns what came; LWIP_SO_RCVTIMEO is 0, so setsockopt has
\* set no time-out and nothing else ends the wait.
Recv(t) ==
  /\ Running(t, "recv")
  /\ \/ reply[t] = "answer" /\ Goto(t, "convert")
     \/ reply[t] = "other" /\ Goto(t, "close")
  /\ reply' = [reply EXCEPT ![t] = "none"]
  /\ disturbed' = (disturbed \/ \E u \in Tasks : Setting(u))
  /\ UNCHANGED <<up, sockets, tm, rtcLock, setVars, displayVars, ticks, failed>>

Close(t) ==
  /\ Running(t, "close")
  /\ sockets' = sockets + 1
  /\ Ended(t)
  /\ UNCHANGED <<up, reply, tm, rtcLock, setVars, displayVars, historyVars>>

-----------------------------------------------------------------------------
(* SNTP_SET_SYSTEM_TIME *)

\* localtime fills its structure, first the time of the day, then the date ...
Convert(t) ==
  /\ Running(t, "convert")
  /\ LET f == NextField(task[t].field)
     IN  /\ tm' = [tm EXCEPT ![f] = task[t].answer]
         /\ task' = [task EXCEPT ![t].field = f,
                                 ![t].answer = IF f = "date" THEN Boot ELSE @,
                                 ![t].pc = IF f = "date" THEN "load" ELSE @]
  /\ UNCHANGED <<netVars, rtcLock, setVars, displayVars, historyVars>>

\* ... from which the arguments of RTC_TimeStampConfig are loaded.
Load(t) ==
  /\ Running(t, "load")
  /\ LET f == NextField(task[t].field)
     IN  task' = [task EXCEPT ![t].field = f, ![t].args[f] = tm[f],
                              ![t].pc = IF f = "date" THEN "set" ELSE @]
  /\ UNCHANGED <<netVars, tm, rtcLock, setVars, displayVars, historyVars>>

-----------------------------------------------------------------------------
(* RTC_TimeStampConfig: the time stamp, the date and the time are set by    *)
(* three calls of the HAL, whose results are ignored.  It leaves            *)
(* DayLightSaving and WeekDay of its structures uninitialised, which the    *)
(* HAL ORs into RTC_CR and, below the year, into RTC_DR; they are taken as  *)
(* RTC_DAYLIGHTSAVING_NONE and a day of the week.                           *)

\* The task with this call of the HAL behind it.
CallDone(s) ==
  CASE s.call = "stamp" -> [s EXCEPT !.lock = "no", !.call = "date"]
    [] s.call = "date"  -> [s EXCEPT !.lock = "no", !.call = "hour"]
    [] s.call = "hour"  -> [s EXCEPT !.lock = "no", !.pc = "close"]

\* __HAL_LOCK tests the lock: HAL_BUSY on a locked handle ...
LockTest(t) ==
  /\ Running(t, "set") /\ task[t].lock = "no"
  /\ task' = [task EXCEPT ![t] = IF rtcLock THEN CallDone(@)
                                 ELSE [@ EXCEPT !.lock = "free"]]
  /\ UNCHANGED <<netVars, tm, rtcLock, setVars, displayVars, historyVars>>

\* ... and then takes it.
LockTake(t) ==
  /\ Running(t, "set") /\ task[t].lock = "free"
  /\ rtcLock' = TRUE
  /\ task' = [task EXCEPT ![t].lock = "held"]
  /\ UNCHANGED <<netVars, tm, setVars, displayVars, historyVars>>

\* What a call writes: HAL_RTCEx_SetTimeStamp_IT nothing of the calendar.
Written(s) ==
  /\ calendar' = CASE s.call = "stamp" -> calendar
                   [] s.call = "date"  -> [calendar EXCEPT !.date = s.args.date.date]
                   [] s.call = "hour"  -> [calendar EXCEPT !.hour = RtcHour(s.args.hour.hour)]
  /\ due' = IF s.call = "hour"
            THEN [date |-> s.args.hour.date, hour |-> RtcHour(s.args.hour.hour)]
            ELSE due

\* Faulty variant: HAL_RTC_SetDate leaves the handle locked.
WriteKeepsLock(t) ==
  /\ Running(t, "set") /\ task[t].lock = "held"
  /\ Written(task[t]) /\ UNCHANGED failed
  /\ rtcLock' = (task[t].call = "date")
  /\ task' = [task EXCEPT ![t] = CallDone(@)]
  /\ UNCHANGED <<netVars, tm, displayVars, ticks, disturbed>>

\* The register is written and the handle unlocked; the RTC may time out before
\* the register is written or after.
Write(t) ==
  /\ Running(t, "set") /\ task[t].lock = "held"
  /\ \/ Written(task[t]) /\ UNCHANGED failed
     \/ /\ task[t].call # "stamp" /\ failed' = TRUE
        /\ Written(task[t]) \/ UNCHANGED setVars
  /\ rtcLock' = FALSE
  /\ task' = [task EXCEPT ![t] = CallDone(@)]
  /\ UNCHANGED <<netVars, tm, displayVars, ticks, disturbed>>

-----------------------------------------------------------------------------
(* The RTC (external) and CLOCK_thread *)

NextHour(c) == IF c.hour < 23 THEN [c EXCEPT !.hour = @ + 1]
               ELSE [date |-> c.date + 1, hour |-> 0]

Tick ==
  /\ ticks < MaxTicks /\ calendar.hour <= 23
  /\ ticks' = ticks + 1
  /\ calendar' = NextHour(calendar) /\ due' = NextHour(due)
  /\ disturbed' = (disturbed \/ (calendar.hour = 23 /\ \E t \in Tasks : task[t].call = "hour"))
  /\ UNCHANGED <<netVars, task, tm, rtcLock, displayVars, failed>>

\* Reading the time locks the date in its shadow register; reading the date
\* unlocks it.
DateRegister == IF shadow # 0 THEN shadow ELSE calendar.date

\* Faulty variant: the date is read before the time.
ReadOrderSwapped == [k \in 1 .. 2 |-> IF k = 1 THEN "date" ELSE "hour"]

\* RTC_CalendarShow calls HAL_RTC_GetTime, then HAL_RTC_GetDate.
ReadOrder == [k \in 1 .. 2 |-> IF k = 1 THEN "hour" ELSE "date"]

\* No task of a higher priority is ready.
Idle == \A t \in Tasks :
  \/ task[t].pc \in {"none", "sleep", "done"}
  \/ task[t].pc = "recv" /\ reply[t] \notin {"answer", "other"}

Show ==
  /\ reads = 0 => Idle
  /\ reads < 2
  /\ reads' = reads + 1
  /\ moment' = IF reads = 0 THEN calendar ELSE moment
  /\ \/ /\ ReadOrder[reads + 1] = "hour"
        /\ shown' = [shown EXCEPT !.hour = calendar.hour]
        /\ shadow' = calendar.date
     \/ /\ ReadOrder[reads + 1] = "date"
        /\ shown' = [shown EXCEPT !.date = DateRegister]
        /\ shadow' = 0
  /\ UNCHANGED <<netVars, task, tm, rtcLock, setVars, historyVars>>

\* Both are drawn and the critical section ends.
Draw ==
  /\ reads = 2
  /\ reads' = 0 /\ shown' = Boot /\ moment' = Boot
  /\ UNCHANGED <<shadow, netVars, task, tm, rtcLock, setVars, historyVars>>

-----------------------------------------------------------------------------
Step(t) == \/ Open(t) \/ Send(t) \/ Recv(t) \/ Close(t)
           \/ Convert(t) \/ Load(t) \/ LockTest(t) \/ LockTake(t) \/ Write(t)

Next ==
  \/ DhcpWait \/ Bound \/ Wake
  \/ \E t \in Tasks : Step(t) \/ Reply(t)
  \/ Tick \/ Show \/ Draw

Spec == Init /\ [][Next]_vars

\* Tasks of one priority get their time slices, CLOCK_thread leaves its
\* critical section, the wait for DHCP ends, and what the network will do
\* with a request it does.
FairSpec ==
  /\ Spec
  /\ WF_vars(DhcpWait)
  /\ WF_vars(Show /\ reads = 1) /\ WF_vars(Draw)
  /\ \A t \in Tasks : WF_vars(Step(t)) /\ SF_vars(Reply(t))

-----------------------------------------------------------------------------
(* Properties *)

TypeOK ==
  /\ up \in BOOLEAN
  /\ task \in [Tasks ->
       [pc : {"none", "dhcp", "open", "send", "recv", "convert", "load", "set",
              "close", "sleep", "done"},
        requests : 0 .. MaxRequests + 2,
        answer : Answers \union {Boot}, field : Fields,
        args : [Fields -> Answers \union {Boot}],
        call : {"stamp", "date", "hour"}, lock : {"no", "free", "held"}]]
  /\ reply \in [Tasks -> {"none", "due", "answer", "other", "lost"}]
  /\ sockets \in 0 .. NUM_SOCKETS
  /\ tm \in [Fields -> Answers \union {Boot}]
  /\ rtcLock \in BOOLEAN
  /\ calendar \in [date : Nat, hour : 0 .. 24]
  /\ due \in [date : Nat, hour : 0 .. 24]
  /\ shadow \in Nat /\ reads \in 0 .. 2
  /\ shown \in [date : Nat, hour : 0 .. 24] /\ moment \in [date : Nat, hour : 0 .. 24]
  /\ ticks \in 0 .. MaxTicks /\ disturbed \in BOOLEAN /\ failed \in BOOLEAN

\* No path of sntp_request loses its socket.
SocketsConserved ==
  sockets + Cardinality({t \in Tasks : task[t].pc \in
              {"send", "recv", "convert", "load", "set", "close"}}) = NUM_SOCKETS

\* "change system time and/or the update the RTC clock" (sntp.c:333): whenever
\* no caller is setting it, the RTC has the date and the hour of one answer and
\* what it has counted since, unless both callers were setting it at once,
\* midnight passed between its two calls, or the RTC failed.
OneAnswer ==
  disturbed \/ failed \/ (\E t \in Tasks : Setting(t)) \/ calendar = due

\* "Configure the current time and date" (rtc.c:31): the same even if it was
\* disturbed.
OneAnswerAlways ==
  failed \/ (\E t \in Tasks : Setting(t)) \/ calendar = due

\* The date and the hour displayed were the RTC's at one moment, although the
\* RTC goes on counting between the two reads, at midnight too.
ShownOneMoment == reads = 2 => shown = moment

\* NETWORK_Init comes to its end, so that the HTTP server runs, unless an
\* answer is lost on the way.
StartupEnds == <>(task["startup"].pc = "done" \/ reply["startup"] = "lost")

\* "SNTP receive timeout - in milliseconds ... Default is 3 seconds"
\* (sntp.c:142): the wait for an answer ends.
ReceiveEnds == \A t \in Tasks : task[t].pc = "recv" ~> task[t].pc # "recv"
=============================================================================
