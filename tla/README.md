# TLA+ models of the STM32F7 FreeRTOS/lwIP application

The program runs on an STM32F746 with one core. FreeRTOS schedules a handful of
tasks; lwIP, the ST Ethernet driver and a DMA controller move frames; small
services (SNTP, HTTP, a log on the LCD, a clock, an ADC reader) sit on top. The
code of its own is `core/`, `hardware/`, `protocols/`, `services/` and `utils/`;
`libs/` holds FreeRTOS, lwIP, the ST HAL, the board support and the LCD log.
Paths below are relative to `src/`.

## Inventory

| Part | State | Operations | Talks to | What makes it correct |
|---|---|---|---|---|
| Ethernet reception (`hardware/ethernet/ethernetif.c`, `stm32f7xx_hal_eth.c`) | descriptor ring (OWN, FS, LS, length), `heth.RxDesc`, `RxFrameInfos`, DMA status bits, `s_xSemaphore`, `heth.Lock` | DMA store, `HAL_ETH_IRQHandler`, `HAL_ETH_GetReceivedFrame_IT`, `low_level_input`, `ethernetif_input` | interrupt to eth0 by semaphore, eth0 to tcpip_thread by mailbox | each frame read once, whole, in order; no wake-up lost; no pbuf lost; reception goes on after the ring was full |
| Ethernet transmission (same files) | transmit ring, `heth.TxDesc`, TBUS, `heth.Lock` | `low_level_output`, `HAL_ETH_TransmitFrame`, DMA send and suspend | called by lwIP; shares the handle with the receive interrupt | accepted frames leave whole and in order; ring and DMA agree |
| Network bring-up (`protocols/lwip/network.c`) | `DHCPSEM`, the netif | `NETWORK_Init`, `networkDhcpStart`, `network_callback` | lwIP raw API from startup_task, tcpip_thread by callback | an address before the services start; lwIP used from one thread |
| SNTP and RTC (`services/ntp/sntp.c`, `hardware/rtc/rtc.c`) | static `tm`, RTC registers, `RtcHandle.Lock` | `sntp_request`, `sntp_process`, `RTC_TimeStampConfig` | two tasks write, CLOCK_thread reads | the RTC holds the time of one answer, in range |
| Tasks (`core/main.c`, `core/periodic.c`, the scheduler of `tasks.c`) | ready lists and their indices, the running task, pending switch and tick | startup task, CLOCK_thread, sensor_task; context switch, tick, wake-up, delay | scheduler | the highest ready task runs; tasks of one priority take turns; ended tasks are freed |
| CPU monitor (`utils/cpu_utils.c`) | idle start, idle total, usage | idle and tick hooks | scheduler and tick | usage between 0 and 100 and about the period it claims |
| Clock (`services/clock/`) | timestamp, tables | `clock_tick`, `clock_set_time`, date conversions | linked, not called | conversions inverse to each other; time never jumps back a little |
| HTTP (`services/httpd/`, with `api_lib.c` and `api_msg.c` of lwIP) | open-file slots; netconn state, write offset, mailboxes; pools of netconns and netbufs | `http_server_serve`, `fs_open`, `fs_close`; netconn accept, receive, write, close, delete; TCP's callbacks | lwIP netconn API; tcpip_thread by messages and a semaphore | slots, netconns and buffers given back on every path; a page goes out whole; the server never waits for a connection that is gone |
| LCD log (`libs/Log/lcd_log.c`) | line cache, top, bottom, inverted flag | put a character, update, scroll | called by every task, no lock | indices in range, the last lines shown in order |
| ADC (`hardware/adc/adc.c`) | last value | start, conversion callback | interrupt draws on the LCD | no drawing inside another's drawing |
| Memory pool (`CMSIS_RTOS/cmsis_os.c`) | markers, current index | `osPoolAlloc`, `osPoolFree` | any task or interrupt | a free block is found; none is given twice |
| FreeRTOS queues (`queue.c`, `tasks.c`, `list.c`) | messages, queue locks, event lists, delayed lists, pending ready list, tick, `xNextTaskUnblockTime` | send, receive, give from an interrupt, tick, suspend and resume the scheduler | every semaphore and mailbox of the program | no wake-up lost; a time-out neither early nor late; the higher priority first |
| The rest of the kernel and of lwIP, HAL, BSP | | | | third-party: used, not modelled on their own |

Hard behaviours: the DMA and the interrupt run between any two instructions of
the driver; a binary semaphore merges interrupts; the interrupt unlocks a lock
others hold; allocations and mailbox posts fail; tasks of equal priority are
time-sliced while they share unlocked state; a task that never blocks starves
those below it; a blocking kernel call passes through a dozen critical sections
with the tick between them; the tick wraps; a connection dies while the server
waits on it. `PROJECT.json` lists each hazard at its line.

Priorities: eth0 is `osPriorityRealtime`; tcpip_thread, startup_task, ntp_task
and the HTTP thread are all at priority 3 and time-sliced; clockd and
sensor_task are one below.

## Modules

* `RxChannel` is the abstract specification of reception: a bounded channel of
  frames, each read once, whole and in order, then handed over. It promises
  nothing after a failure to find a buffer.
* `EthRx` models reception. One action is one step between two points where the
  DMA, the interrupt or another task can interfere:
  - `DmaBegin`, `DmaContinue`, `DmaUnavailable`: the DMA (external; it is
    described by the driver's use of OWN, FS, LS and RBUS). It stores a frame a
    segment at a time, truncates one that finds no descriptor to go on, and
    sets RBUS, without an interrupt, when a frame finds none to begin with.
  - `IsrCallback`, `IsrClear`: `HAL_ETH_IRQHandler`. The receive flag is cleared
    after the callback, and the handle unlocked whoever holds it.
  - `SemTake` ... `TcpipInput`: eth0, i.e. `ethernetif_input`,
    `low_level_input`, `HAL_ETH_GetReceivedFrame_IT` and `tcpip_input`; `pc`
    says where it is.
  - `Start`, `TaskLock`, `TaskUnlock`, `TcpipFetch`, `TcpipDone`, `HeldFree`:
    what the lower tasks do to the handle lock, the mailbox and the pool. eth0
    preempts them, hence their guard `EthBlocked`.
  A frame is a number; a segment carries its frame's number and its place.
  Lengths are counted in descriptors; the four bytes of the CRC are not
  modelled. A pbuf chain is one unit of the pool.
* `EthRxInv` is the invariant of the receive ring (`RingInv`): from the oldest
  descriptor on, the CPU owns those scanned and not released, then those filled
  and not scanned, and nothing else; each group holds consecutive segments; what
  is whole and unread has an interrupt or a token under way.
* `EthRxProofs` has the theorems about types, the lock and the pool of `EthRx`,
  `EthRingProofs` those about the ring and the refinement of `RxChannel`.
* `EthTx` models transmission: `Begin` to `Unlock` are one call of
  `low_level_output` with the `HAL_ETH_TransmitFrame` it makes (`Lock` is
  `__HAL_LOCK` with its `HAL_BUSY`, `TestOwn` the test of OWN with its
  `HAL_ERROR`; the result of both is ignored), `RxInterrupt` is
  the receive interrupt as far as it concerns the handle (the lock, and the
  answer to a frame sent), `DmaSend` and `DmaSuspend` the transmit DMA
  (external). `First` and `Worker` are the tasks that output. `heth.TxDesc` is
  not volatile: `Advance` may use the value the task has in a register.
* `NtpRtc` models the time of day. `DhcpWait`, `AfterRequest` and `Wake` are
  the end of `NETWORK_Init` in startup_task and `sntp_thread` in the ntp task;
  `Open` to `Close` are one `sntp_request`, `Convert` and `Load` its conversion
  by `localtime`, `LockTest` to `Write` the three HAL calls of
  `RTC_TimeStampConfig`, split where another task may come between; `Show` and
  `Draw` are `RTC_CalendarShow`. `Bound` (DHCP has an address), `Reply` (the
  network and the server) and `Tick` (the RTC counts an hour) are external. A
  time is a date and an hour; minutes and seconds follow the hour in all the
  code and are left out. `due` is what the calendar would be, had the last
  answer been set in one step.
* `KernelQueue` models one FreeRTOS queue with the scheduler lists its callers
  block on. `Call` to `Return` are one `xQueueGenericSend` or
  `xQueueGenericReceive`; each action between them is one critical section or
  one statement between two: the first attempt (`TrySucceeds`, `TryFails`,
  `TryBlocks`), `SuspendAll`, `LockQueue`, `CheckForTimeOut`, `Examine` (is the
  queue still empty or full), `Place` (on the event list and the delayed list),
  `UnlockTx`, `UnlockRx`, `ResumeAll`. `GiveFromISR` and `Tick` (with the
  processing of the delayed list, or a pended tick while the scheduler is
  suspended) may come before each of them. The task with the highest priority
  that is ready runs, the scheduler's suspension apart (`Running`). A queue is
  its number of messages. EthRx takes its semaphore, its mailbox and its waits
  from here: that a give is not lost is `NoLostWakeup` of this module.
* `Tasks` models the scheduler as the program uses it: `Create`, `Block`,
  `Delay`, `EnterCritical`, `ExitCritical`, `Terminate` are what the running
  task may do next, `SwitchContext`, `SysTick`, `IncrementTick` the kernel's
  part, `Wake` an event another task or an interrupt signals. The index of a
  ready list is modelled with the list, since the order of turns depends on it.
* `Httpd` models the web server and the part of lwIP's sequential API it runs
  on. `Accept`, `Recv`, `Fetch`, `Request`, `Write`, `FsClose`, `Close`,
  `NetbufDelete`, `Delete` are the steps of `http_server_netconn_thread` and
  `http_server_serve`; `DoWritemore` and `DoCloseInternal` what tcpip_thread
  goes on with when TCP calls back (`Ack`, `Poll`). `Connect`, `Receive`, `Fin`,
  `Abort` are TCP's other callbacks and what they put into the mailboxes; the
  SNTP client's socket and datagrams take entries of the same pools
  (`OpenSocket`, `CloseSocket`, `ReceiveDatagram`). TCP's own failures (no
  memory for a segment or a FIN) are the parameter `memory`. `FsOpen` has both
  ways in which `fs_open` returns NULL, no entry of `fs_memory` and a name that
  is not in `FS_ROOT`; `FilesAssumption` says that `fsdata.c` holds the pages
  the server opens.
* `LcdLog` models `LCD_LOG_PUTCHAR` statement by statement for several writers:
  `Begin`; `Char`, `CharStore`; `EndLine`, `Uninvert`, `GiveUp`; `Index`, `Pad`,
  `PadStore`, `Padded`; `UpdateDisplay`; `Advance`, `NextLine`, `Wrap`. An
  increment of the cursor or of a line number is a load and a store, between
  which the tick may switch to another writer. `recent` is the abstract log, the
  last lines that ended, and `WindowShown` compares the screen with it.
* `EthTxProofs`, `HttpdProofs`, `KernelQueueProofs`, `LcdLogProofs`,
  `NtpRtcProofs` and `TasksProofs` have the theorems about `EthTx`, `Httpd`,
  `KernelQueue`, `LcdLog`, `NtpRtc` and `Tasks`.
* The modules `MC...` are the ones TLC runs; where a constant is a function they
  define its value.

RxChannel <- (refinement) EthRx <- EthRxInv <- MCEthRx; EthRx <- EthRxProofs;
EthRxInv, EthRxProofs <- EthRingProofs; EthTx <- EthTxProofs; Httpd <-
HttpdProofs; KernelQueue <- KernelQueueProofs; LcdLog <- LcdLogProofs; NtpRtc <-
NtpRtcProofs; Tasks <- TasksProofs. The modules meet at the kernel's queue: what EthRx, NtpRtc and Httpd take as one step (take a token, post a
message, wait for tcpip_thread's semaphore) is a call of `KernelQueue`, and the
guards for priorities in EthRx (`EthBlocked`) and the fairness of all are what
`Tasks` checks (`HighestRuns`, `TakesTurns`).

## Runs

| Run | Shows | Bounds |
|---|---|---|
| `eth_rx` | types; whole frames and no descriptor released unread until an allocation fails; no lost wake-up; `HAL_BUSY` never met; no pbuf leaked or freed twice; `RingInv`; `EthRx` implements `RxChannel`; reception resumes | 4 descriptors (the code's), frames of 1 to 3, so that first, middle and last segments occur, 5 frames: the ring wraps, with every mix of lengths. 3 pbufs, fewer than the ring, so allocations fail. A mailbox of 1, so posts are refused |
| `eth_rx_intact` (violation) | after a failed allocation `low_level_input` hands over another frame than the one `HAL_ETH_GetReceivedFrame_IT` found: in the run frame 3, of one segment, whose allocation failed, in place of frame 4. `FramesIntact` allows the frame that found no memory to be lost ("NULL on memory error", `ethernetif.c:406`) and asks that a pbuf that is handed over holds the frame found, whole | 3 descriptors, 2 pbufs, 4 frames |
| `eth_rx_stall` (violation) | after failed allocations reception may stop for ever | the same |
| `eth_tx` | frames accepted go out whole, in order, and all do; `HAL_ETH_TransmitFrame`, whose result is ignored, meets neither `HAL_BUSY` nor `HAL_ERROR` | 3 descriptors, frames of 1 or 2, 5 frames, refused and accepted, one caller; 5,130 states |
| `eth_tx_shared` (violation) | with two callers a frame reported sent may stay in the ring | 4 descriptors, 3 frames of 1 descriptor, what lwIP sends here |
| `ntp_rtc` | no path of a request loses its socket; the RTC keeps the time of one answer unless both callers set it at once, midnight passes between its two calls or it fails; what is displayed is one moment's time; `NETWORK_Init` ends unless its answer is lost | both callers, startup's two requests and two or more of the ntp task, which overlap in every way; 2 sockets; an answer just before and one just after midnight; one hour counted, at any time, midnight included |
| `ntp_lost` (violation) | a lost answer is waited for without end | the same, one wake-up of the ntp task fewer |
| `ntp_mixed` (violation) | two callers at once leave a date and an hour that belong to no answer | the same |
| `kernel_queue` | the scheduler lists and event lists agree; no task waits for what is there; `xNextTaskUnblockTime` is never later than the first wake-up; no call sleeps past its time or gives up before it; a timed call of the highest-priority task returns; the waiter of the higher priority is served first | a queue of one message (a semaphore; a full and an empty queue are one step apart); two receivers of different priorities, one of which may wait without end or for 2 ticks, the other 2 ticks or none, and a sender that waits without end; ticks modulo 4, so every wait may pass the wrap; 1 pended tick; 262,438 states |
| `lcd_log` | the window shows the last lines in order, before and after the cache wraps, as long as writers do not interleave inside a character | lines of 2 characters, a window of 3 rows, a cache of 5 lines, 11 lines, so that the cache wraps twice; two writers, who may interleave at every load and store; 2,042,288 states |
| `httpd` | nothing leaks from the pools; the file is open when its contents are sent; the server never waits for a connection that is gone, nor deletes one that still has a pcb; pages go out whole; every connection is served | two clients, a pool of 3 netconns (one listens) and 2 netbufs shared with the SNTP client, one file slot, mailboxes of 2, a send buffer of 2 units with a page of 3 (so that a write is split) and a page of two writes; 330,024 states |
| `tasks` | the highest ready task runs; a ready task is passed over at most twice by each of its equals; sensor_task goes on when the services are quiet | the four tasks of the start, and tcpip_thread, eth0 and httpd created by startup_task at their priorities; a delay of 2 ticks; 159,560 states. With a fourth service there are more than 5 million states, the first 5 million without a violation |

With both buffer sizes at 1524 bytes, a frame spans two receive descriptors only
when it is oversize (up to 2048 bytes pass the watchdog) and lwIP's frames need
one transmit descriptor. The driver has code for more, and the passing runs take
it. `MaxFrames` bounds the frames of a behaviour; five are enough to wrap the
ring with one frame outstanding from before the wrap.

Deadlock is checked except in the runs of `NtpRtc`, whose requests and hours are
bounded, and of `LcdLog`, whose lines are: a behaviour may rightly stop after
them.

What the passing runs say that a reader might not expect:

* `TakesTurns` has the bound 2, not 1: `uxListRemove` moves the index back from
  the task that leaves, and a task woken before the next switch enters the list
  ahead of the one next in line. That one may be passed over twice: equal shares
  are not exact.
* `HighestRuns` has a price: CLOCK_thread never blocks, so the idle task never
  runs (theorem `IdleNeverRuns`). The memory of startup_task, which deletes
  itself, is never freed, against the NOTE at
  `libs/FreeRTOS/Source/include/task.h:474` ("It is therefore important that the
  idle task is not starved of microcontroller processing time if your application
  makes any calls to vTaskDelete ()"), and the CPU usage shown stays 100.
* `WindowShown` speaks of writers that take turns. When two interleave inside
  `LCD_LOG_PUTCHAR` there is no bound left to state: a cursor loaded before another
  writer reset it is stored after, again and again, and passes the 128 of `line[]`
  (the display has 68 columns); a line number stored late passes
  `LCD_CACHE_DEPTH`, to which it is then never equal again. `LcdLog` has these
  steps; no property is about them.
* `TransmitNeverFails` needs two facts the driver nowhere states: a call ends with
  the handle unlocked, and the copy into the ring has found a descriptor of the CPU
  for every segment, the first of which is `heth.TxDesc`.
* `EveryoneIsServed` assumes that a connected client speaks or fails.
  `http_server_serve` has no receive time-out: a silent client holds the one
  server thread, and everybody else waits.
* An answer at 23 h sets the hour to 24 (`rtc.c:60`): `RtcHour` keeps it, and
  `TypeOK` of `NtpRtc` allows hours of 0 to 24. Nothing else depends on it.

Fairness. `EthRx`: the interrupt preempts every task and eth0 is the
highest-priority task, so each runs whenever it can (`WF_vars(Isr)`,
`WF_vars(Eth0)`); a frame that began to arrive ends (`WF_vars(DmaContinue)`).
No frame has to come, and none of the lower tasks has to run. `EthTx`: tasks of
one priority get time slices (`WF_vars(Output(t))`) and the transmit DMA runs;
no call has to be made. `NtpRtc`: the two callers are time-sliced with all of
their priority (`WF_vars(Step(t))`), CLOCK_thread leaves its critical section,
the wait for DHCP ends, and what becomes of a request is settled
(`SF_vars(Reply(t))`, strong because the display's critical section stands for
the whole processor). No address has to come and no answer has to be good.
`KernelQueue`: the tick comes (`WF_vars(Tick)`) and each task that is able to
run again and again runs (`SF_vars(CallStep(t))`, strong because a task is
preempted and resumed); no call has to be made and the interrupt need not give.
`Httpd`: the server and tcpip_thread run (`WF_vars(Serve)`); the client of the
connection the server waits for speaks or its connection fails; a client reads
what is sent or fails; and lack of memory is temporary, as the comment at the
poll callbacks says ("only a temporary error", `api_msg.c:1300`), so that a poll that comes again
and again finds memory at last (`SF_vars(Poll(c, TRUE))`). `Tasks`: the tick,
the switch and the running task go on; no event has to come. `LcdLog` has none.

The findings of the violation runs, with the lines they contradict, are in
`PROJECT.json`. The remedies: release the descriptors and clear
`SegCount` also when `pbuf_alloc` fails; call `netifapi_dhcp_start` and
`netifapi_netif_set_up` instead of the raw functions; define `LWIP_SO_RCVTIMEO`;
set the RTC from one task, hour and date together.

## Theorems

All hold for every value of the constants that the named assumption of the
module allows, and under the hypothesis a theorem states. TLC checked each
strengthening as an invariant first.

`EthRxProofs` (`EthRxAssumption`):

* `TypeCorrect`: `Spec => []TypeOK`. `TypeInv` adds to `TypeOK` that a frame
  being received has segments to come, without which the DMA could pass the
  longest frame.
* `NeverBusy`: `Spec => []RxNeverBusy`, by `LockInv`: whenever no interrupt is
  being handled and eth0 has a token or is past its wait and not scanning, the
  handle is unlocked. The lower tasks take the lock only while eth0 is blocked,
  and only the interrupt, which unlocks, ends that.
* `NoPbufLost`: `Spec => []PoolConserved`, by `HandInv`: eth0 holds a chain
  exactly from the copy to `tcpip_input`. It rests on every last segment having
  a length, so that the copied frame is not empty.

`EthRingProofs` (`EthRxAssumption`): `RingCorrect` (`[]RingInv`), `FramesWhole`
(`[]FramesIntactUntilFailure`), `WakeUpKept` (`[]NoLostWakeup`),
`ReadBeforeRelease` (`NoUnreadRelease`) and `ImplementsChannelSafely`
(`Spec => Channel!Spec`: every step of `EthRx` is a step or a stutter of
`RxChannel`), for every size of the ring, every pool and mailbox, and frames of
any number and length. `RingInv` is not inductive: it says which segments follow
one another, not that frames come in order along the ring, nor that a scan of a
frame not whole stays below the longest frame, nor what the lock and the hand
of eth0 have to do with it. `ReceptionInv` names each descriptor by its place
after the oldest one and says that there is a place t such that

* the CPU owns exactly the places before t, and the DMA is at t (`Lies`);
* the first `Scanned` hold the frame eth0 is reading (`Read`);
* those from there to t are filled, each with what follows the one before, the
  numbers of the frames rising by at most one a place (`Filled`);
* the DMA goes on where the newest one ends (`GoesOn`);
* an interrupt not yet cleared has given the semaphore, and no whole frame waits
  while eth0 is blocked without an interrupt.

Each step of the DMA and of eth0 moves t, or the oldest descriptor, by one; a
lemma on the ring and one on its contents says what that does, for any ring.
With `LockInv` the scan is never refused, with `HandInv` and `HandTaken` the
chain in eth0's hand is that of the frame read last.

`EthTxProofs` (`EthTxAssumption`):

* `TypeCorrect`: `Spec => []TypeOK`, whoever outputs.
* With `First = Worker` (one task outputs all frames, lwIP's rule): `WireCorrect`
  (`[]WireIntact`) and `RingCorrect` (`[]RingAgreed`), by `OneInv`. After the
  DMA's descriptor lie k that are the DMA's, then those the task has filled, with
  the segments of its frame in order. `heth.TxDesc` is at the first of these, and
  so is the register. What the wire carries and what the DMA has yet to send are
  one chain of segments, and its last one is where the task's frame goes on.
  `WireIntact` alone says nothing of what is still in the ring. The hypothesis
  is needed: `eth_tx_shared` shows what two tasks do.
* Under the same hypothesis `TransmitSucceeds` (`[]TransmitNeverFails`): when the
  task locks the handle it is unlocked, and `heth.TxDesc`, whose segment the copy
  has filled, is still the CPU's when OWN is tested.

`HttpdProofs` (`HttpdAssumption`, `AcceptAssumption`, `FilesAssumption`), for any number of
clients, any pool sizes, any page: `TypeCorrect`, `NoLeak`
(`[]NothingLeaked`), `FilesOpen` (`[]FileIsOpen`), `NoDeadWait`
(`[]NeverWaitsOnTheDead`) and `CleanDelete` (`[]DeleteIsClean`). One invariant
gives them all (`Invariance`). Its parts: each entry of a pool in use has an
owner, the server, a mailbox, the listening connection or the SNTP client; the
server's control state says what it owns, and `conn->state` is "write" or
"close" exactly while the server waits for that call; a netconn that is
allocated has a pcb or a fatal error, never both, and the connection in the
accept mailbox is idle. The last part is what `NoDeadWait` needs: an abort
finds the server waiting and wakes it, or finds it elsewhere and leaves the
error for its next call. `PageWhole` (`[]WholePage`) takes also that a page of the
file system is one `netconn_write` and a page made for a request two
(`WritesAssumption`, `httpserver-netconn.c`). Its `SentInv` says, during a write,
what the client has been sent: the writes that are done, then of this one as many
units as `conn->write_offset`. `WholePage` looks only at the end, and says nothing
of a write that was cut and goes on in a callback.

`NtpRtcProofs` (`NtpRtcAssumption`), for any set of answers, any number of
requests and sockets: `TypeCorrect`, `NoSocketLost` (`[]SocketsConserved`),
`OneMoment` (`[]ShownOneMoment`) and `AnswerKept` (`[]OneAnswer`).

* `SocketInv` counts the sockets of the two callers by where they are.
* `ShownInv`: between the two reads the RTC's shadow register holds the date of
  the moment of the first, whatever midnight does.
* `CalmInv`: the handle of the RTC is locked only by a task inside a HAL call.
* `AnswerInv`: unless the setting was disturbed or failed, at most one task is
  between the conversion and the last write, its fields are of one answer, and
  it never meets `HAL_BUSY`. `OneAnswer` alone is not inductive: it says nothing
  of a setting half done.

`TasksProofs` (`TasksAssumption`, `DistinctAssumption`), for any number of
services, any delay and any priorities that keep the idle task lowest and
startup_task above CLOCK_thread, sensor_task and it: `TypeCorrect`,
`HighestRunning` (`[]HighestRuns`), `IdleNeverRuns` (`[]IdleNeverChosen`) and
`EveryoneInTurn` (`[]TakesTurns`). The
lemmas `Insertion` and `Removal` say what `vListInsertEnd` and `uxListRemove` do
to a list seen as the set of its tasks, wherever the index is; `TopReady`, that
the scheduler's search ends at the highest list that is not empty. `Sched` is
what makes `HighestRuns` and `IdleNeverChosen` inductive: CLOCK_thread is always ready, so a
lower task never is the choice; a service not created yet is not ready, and
sensor_task is ready exactly while it is not delayed, so that no task enters a
list twice; the critical section is CLOCK_thread's; and, unless a switch is
pending, the running task is ready and none that is ready is above it.
`EveryoneInTurn` needs `TurnInv` besides, which compares each
task's place in its list with the index. A task at or before the index is reached
once the index has gone round past the end marker: until then those after the
index have not passed it, and any other once. A task after the index is reached
before the marker: those in between have passed it once at most. `vListInsertEnd`
puts a task behind the index, so never in between, and `uxListRemove` moves the
index back with what is behind it; so the marker is passed once at most, and with
it a second turn is all another task can get (`TurnsInserted`, `TurnsRemoved`,
`TurnTaken`).

`KernelQueueProofs` (`QueueAssumption`), for any number of tasks that send and
receive, any priorities, any length of the queue, any block times and any width
of the tick: `TypeCorrect`, `ListsRight` (`[]ListsAgree`), `WakeUpKept`
(`[]NoLostWakeup`), `WakeUpInTime` (`[]NextUnblockSound`), `NotOverslept`
(`[]NeverOversleeps`), `NotEarly` (`[]NeverGivesUpEarly`) and the action property
`HigherFirst`. Lemmas first say what each piece of the kernel does to the lists:
`Left` and `Inserted` for a removal from an event list and an insertion by
priority, `UnblockExpiredDoes`, `IncrementTickDoes`, `PendedTicksDo`, `PlaceDoes`,
`RemoveDoes`. A removal keeps a prefix of the list and shifts the rest, and the
ticks pended are handled one after the other: both are inductions, stated for a
set of naturals and made with the library's lemma on well-founded orders
(`Induct`). One invariant (`Invariant`) then gives all. Its parts:

* the event lists are sorted by priority and hold each task once; a task that is
  not ready waits on one or was woken, and was on its way to block; what is
  pended is empty unless the scheduler is suspended (`Listed`, `Blocked`, `Woke`,
  `Idle`);
* only an interrupt uses a queue that is locked, so the count of the lock says
  which messages no task was woken for (`Locks`, `Nothing`);
* for each task that waits, the messages there are, or the places, are no more
  than the tasks of its priority or higher that are awake and will try, and what
  the lock counts (`Wakeups`). `NoLostWakeup` alone is not inductive: a woken task
  of a lower priority could leave while one of a higher waits;
* what a task has slept and the distance to its wake-up, across the wrap, is no
  longer than its wait and the ticks pended (`Sleeps`);
* the time a call believes it has spent never exceeds the time it has spent
  (`Clocks`).

`LcdLogProofs` (`LogAssumption`), for any number of writers, any width and height
of the window and any cache deeper than it: `LastLinesShown` (`[]WindowShown`).
`WindowInv` says, for each place in the call of the one writer there is, where the
two line numbers and the flag are, before the cache has wrapped and after, which
lines of the cache hold the last lines, how much of the line that ends has been
padded and what the window shows; `DisplayedIs` is the arithmetic of
`LCD_LOG_UpdateDisplay`.

Only model-checked: liveness, the fairness of `RxChannel` (`ImplementsChannel`)
included. The provers installed do not handle fairness and `ENABLED`.

## Not modelled

* `services/clock/`: linked, called by nothing, and it computes with the
  addresses of table entries (`clock_lib.c:200`), so that its results are the
  linker's.
* `osPoolAlloc` and its companions: nothing creates a pool.
* `utils/cpu_utils.c`: its hooks never count, since the idle task never runs.
* The drawing of the ADC value by its interrupt: only pixels and the colours of
  the BSP are shared.
* Of the kernel: mutexes and priority inheritance, queue sets,
  `xQueueReceiveFromISR`, notifications, event groups, the timer task, the heap,
  the copying of messages. The program's synchronisation is by binary
  semaphores and mailboxes.
* Of the log: scrolling (called by nothing), colours, header and footer.
* Of the setting of the RTC: `DayLightSaving` and `WeekDay`, which
  `RTC_TimeStampConfig` leaves uninitialised (`rtc.c:50`, `rtc.c:65`) and the HAL
  ORs into `RTC_CR` and `RTC_DR`. What the stack holds is not in the source;
  `NtpRtc` takes `RTC_DAYLIGHTSAVING_NONE` and a day of the week.
* Of bring-up: the status callback, a failed `dhcp_start`, `networkDhcpStop`.
* The protocols of lwIP, register access and clock set-up of the vendor drivers,
  the PHY and link changes (`ethernetif_set_link` is started by nobody), the
  contents of frames, the transmit underflow branch (store-and-forward mode
  rules it out) and the receive time-out of `osSemaphoreWait` (it changes
  nothing in the loop).

Most of the repository's lines are vendor code: tables and transforms of the DSP
library, register headers, HAL drivers of peripherals that are not used. The
models map the program's own control and the kernel and lwIP code it runs
through, which is a small share of them.

## Plan

1. `NetUp`: the status callback, a failed `dhcp_start`, what runs before an
   address is there.
