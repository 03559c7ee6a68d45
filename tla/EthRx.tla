------------------------------- MODULE EthRx -------------------------------
(***************************************************************************)
(* Reception of Ethernet frames: the DMA ring, the interrupt handler, the  *)
(* binary semaphore, the eth0 thread (ethernetif_input) and the hand-over  *)
(* to tcpip_thread.                                                        *)
(*                                                                         *)
(* One core runs everything but the DMA.  An interrupt preempts every      *)
(* task; eth0 (osPriorityRealtime) preempts every other task, so the       *)
(* tasks below it (tcpip_thread, startup_task, ntp, httpd at priority 3)   *)
(* move only while eth0 is blocked on its semaphore (EthBlocked).          *)
(* The 100 ms timeout of osSemaphoreWait changes nothing: the loop acts    *)
(* only on osOK.                                                           *)
(***************************************************************************)
EXTENDS Integers, Sequences

CONSTANTS
  ETH_RXBUFNB,               \* receive descriptors in the ring
  PBUF_POOL_SIZE,            \* pbuf chains the pool can hand out (one a frame)
  MBOX_LENGTH,               \* archMESG_QUEUE_LENGTH
  MEMP_NUM_TCPIP_MSG_INPKT,  \* TCPIP_MSG_INPKT messages
  MaxSegs,                   \* descriptors the longest frame spans
  MaxFrames                  \* bound: frames the DMA stores in a behaviour

ASSUME EthRxAssumption ==
  /\ ETH_RXBUFNB \in Nat \ {0}
  /\ PBUF_POOL_SIZE \in Nat
  /\ MBOX_LENGTH \in Nat
  /\ MEMP_NUM_TCPIP_MSG_INPKT \in Nat
  /\ MaxSegs \in 1 .. ETH_RXBUFNB
  /\ MaxFrames \in Nat

VARIABLES
  own,       \* OWN bit of each descriptor: "dma" or "cpu"
  desc,      \* what the DMA last wrote in each descriptor and its buffer
  dma,       \* the DMA's current descriptor
  arriving,  \* the frame being received: segments stored and its length
  sent,      \* number of frames the DMA has begun to store
  rbus,      \* DMASR.RBUS: the DMA found no free descriptor
  rs,        \* DMASR.RS: a frame was received
  started,   \* HAL_ETH_Start has enabled the DMA
  isr,       \* "idle", or "clear" after the callback of the handler
  sem,       \* s_xSemaphore, a binary semaphore
  lock,      \* heth.Lock
  pc,        \* where eth0 is
  count,     \* loop counter of eth0: descriptorscancounter, then i
  rxDesc,    \* heth.RxDesc
  fsDesc,    \* heth.RxFrameInfos.FSRxDesc
  segCount,  \* heth.RxFrameInfos.SegCount
  length,    \* heth.RxFrameInfos.length, in descriptors
  relDesc,   \* dmarxdesc of the release loop
  hand,      \* contents of the pbuf p of low_level_input, <<>> for NULL
  pool,      \* free pbuf chains
  mbox,      \* tcpip mailbox: number of frames posted and not fetched
  busy,      \* tcpip_thread is processing a frame
  held,      \* chains kept by lwIP (TCP and netconn queues, reassembly)
  taken,     \* history: frames copied out of the ring
  failed     \* history: a pbuf_alloc of eth0 has returned NULL

dmaVars  == <<own, desc, dma, arriving, sent, rbus>>
irqVars  == <<rs, started, isr, sem>>
hethVars == <<rxDesc, fsDesc, segCount, length, count>>
ethVars  == <<pc, relDesc, hand, taken, failed>>
lwipVars == <<mbox, busy, held>>
vars == <<dmaVars, irqVars, hethVars, ethVars, lwipVars, lock, pool>>

Desc == 0 .. ETH_RXBUFNB - 1

\* Faulty variant: the last descriptor is not chained to the first.
NextDescUnchained(d) == d + 1

\* Buffer2NextDescAddr: the descriptors are chained in a ring.
NextDesc(d) == IF d = ETH_RXBUFNB - 1 THEN 0 ELSE d + 1

\* The k-th descriptor after d.
Plus(d, k) == IF d + k < ETH_RXBUFNB THEN d + k ELSE d + k - ETH_RXBUFNB

\* A segment in a descriptor: the frame it belongs to, its place in the
\* frame, and the FS and LS bits.  The LS descriptor's FL field gives the
\* length of the frame, here the place of its last segment.
Segment == [id : 0 .. MaxFrames, seg : 0 .. MaxSegs, fs : BOOLEAN, ls : BOOLEAN]

NoSegment == [id |-> 0, seg |-> 0, fs |-> FALSE, ls |-> FALSE]

\* HAL_ETH_DMARxDescListInit gives every descriptor to the DMA; the binary
\* semaphore is created given (osSemaphoreCreate with count 1).
Init ==
  /\ own = [d \in Desc |-> "dma"]
  /\ desc = [d \in Desc |-> NoSegment]
  /\ dma = 0 /\ arriving = [seg |-> 0, size |-> 0] /\ sent = 0
  /\ rbus = FALSE /\ rs = FALSE /\ started = FALSE
  /\ isr = "idle" /\ sem = 1 /\ lock = FALSE
  /\ pc = "wait" /\ count = 0
  /\ rxDesc = 0 /\ fsDesc = 0 /\ segCount = 0 /\ length = 0 /\ relDesc = 0
  /\ hand = <<>> /\ pool = PBUF_POOL_SIZE
  /\ mbox = 0 /\ busy = FALSE /\ held = 0
  /\ taken = 0 /\ failed = FALSE

-----------------------------------------------------------------------------
(* The Ethernet DMA (external) *)

\* The DMA stores the next segment of a frame of size segments in its current
\* descriptor and clears OWN.  A frame that finds no free descriptor to go on
\* is truncated: its last stored segment is closed with LS.
Store(size) ==
  LET k    == arriving.seg + 1
      last == k = size \/ own[NextDesc(dma)] # "dma" \/ NextDesc(dma) = dma
      id   == IF k = 1 THEN sent + 1 ELSE sent
  IN  /\ own[dma] = "dma"
      /\ own' = [own EXCEPT ![dma] = "cpu"]
      /\ desc' = [desc EXCEPT ![dma] =
                    [id |-> id, seg |-> k, fs |-> k = 1, ls |-> last]]
      /\ dma' = NextDesc(dma)
      /\ sent' = id
      /\ arriving' = IF last THEN [seg |-> 0, size |-> 0]
                             ELSE [seg |-> k, size |-> size]
      /\ rs' = (rs \/ last)
      /\ UNCHANGED <<rbus, started, isr, sem, hethVars, ethVars, lwipVars, lock, pool>>

DmaBegin ==
  /\ started /\ arriving.seg = 0 /\ sent < MaxFrames
  /\ \E size \in 1 .. MaxSegs : Store(size)

DmaContinue == arriving.seg > 0 /\ Store(arriving.size)

\* A frame arrives and the current descriptor is not the DMA's: the frame is
\* flushed, RBUS is set and no receive interrupt follows.
DmaUnavailable ==
  /\ started /\ arriving.seg = 0 /\ own[dma] # "dma"
  /\ rbus' = TRUE
  /\ UNCHANGED <<own, desc, dma, arriving, sent, irqVars, hethVars, ethVars, lwipVars, lock, pool>>

-----------------------------------------------------------------------------
(* Interrupt handler: ETH_IRQHandler -> HAL_ETH_IRQHandler *)

\* HAL_ETH_RxCpltCallback gives the semaphore; giving a full one is an error
\* nobody looks at.
IsrCallback ==
  /\ isr = "idle" /\ rs
  /\ sem' = 1
  /\ isr' = "clear"
  /\ UNCHANGED <<dmaVars, rs, started, hethVars, ethVars, lwipVars, lock, pool>>

\* Faulty variant: the handler leaves the lock alone.
IsrClearKeepsLock ==
  /\ isr = "clear"
  /\ rs' = FALSE
  /\ isr' = "idle"
  /\ UNCHANGED <<dmaVars, started, sem, hethVars, ethVars, lwipVars, lock, pool>>

\* The handler then clears the RS bit, and with it the RS of a frame that
\* ended in between, and unlocks the handle whoever has locked it.
IsrClear ==
  /\ isr = "clear"
  /\ rs' = FALSE
  /\ lock' = FALSE
  /\ isr' = "idle"
  /\ UNCHANGED <<dmaVars, started, sem, hethVars, ethVars, lwipVars, pool>>

-----------------------------------------------------------------------------
(* eth0: ethernetif_input and low_level_input *)

\* osSemaphoreWait returns osOK.
SemTake ==
  /\ isr = "idle" /\ pc = "wait" /\ sem = 1
  /\ sem' = 0
  /\ pc' = "enter"
  /\ UNCHANGED <<dmaVars, rs, started, isr, hethVars, relDesc, hand, taken, failed, lwipVars, lock, pool>>

\* HAL_ETH_GetReceivedFrame_IT: __HAL_LOCK returns HAL_BUSY on a locked
\* handle, low_level_input then returns NULL and the input loop ends.
GetLock ==
  /\ isr = "idle" /\ pc = "enter"
  /\ IF lock
     THEN pc' = "wait" /\ UNCHANGED <<lock, count>>
     ELSE pc' = "scan" /\ lock' = TRUE /\ count' = 0
  /\ UNCHANGED <<dmaVars, irqVars, rxDesc, fsDesc, segCount, length, relDesc, hand, taken, failed, lwipVars, pool>>

\* Faulty variant: one descriptor a call.
ScannableOnce == own[rxDesc] = "cpu" /\ count < 1

Scannable == own[rxDesc] = "cpu" /\ count < ETH_RXBUFNB

\* One turn of the scan loop: a first segment restarts the frame, an
\* intermediate one is counted, the last one ends the call with HAL_OK.
ScanFirst ==
  /\ isr = "idle" /\ pc = "scan" /\ Scannable
  /\ desc[rxDesc].fs /\ ~desc[rxDesc].ls
  /\ fsDesc' = rxDesc
  /\ segCount' = 1
  /\ rxDesc' = NextDesc(rxDesc)
  /\ count' = count + 1
  /\ UNCHANGED <<dmaVars, irqVars, length, ethVars, lwipVars, lock, pool>>

ScanMiddle ==
  /\ isr = "idle" /\ pc = "scan" /\ Scannable
  /\ ~desc[rxDesc].fs /\ ~desc[rxDesc].ls
  /\ segCount' = segCount + 1
  /\ rxDesc' = NextDesc(rxDesc)
  /\ count' = count + 1
  /\ UNCHANGED <<dmaVars, irqVars, fsDesc, length, ethVars, lwipVars, lock, pool>>

ScanLast ==
  /\ isr = "idle" /\ pc = "scan" /\ Scannable
  /\ desc[rxDesc].ls
  /\ segCount' = segCount + 1
  /\ fsDesc' = IF segCount + 1 = 1 THEN rxDesc ELSE fsDesc
  /\ length' = desc[rxDesc].seg
  /\ rxDesc' = NextDesc(rxDesc)
  /\ count' = count + 1
  /\ lock' = FALSE
  /\ pc' = "alloc"
  /\ UNCHANGED <<dmaVars, irqVars, relDesc, hand, taken, failed, lwipVars, pool>>

\* HAL_ERROR: no complete frame; low_level_input returns NULL at once.
ScanNothing ==
  /\ isr = "idle" /\ pc = "scan" /\ ~Scannable
  /\ lock' = FALSE
  /\ pc' = "wait"
  /\ UNCHANGED <<dmaVars, irqVars, hethVars, relDesc, hand, taken, failed, lwipVars, pool>>

\* pbuf_alloc succeeds: the bytes of length descriptors, from FSRxDesc on,
\* are copied into the chain.
AllocCopy ==
  /\ isr = "idle" /\ pc = "alloc" /\ pool > 0
  /\ pool' = pool - 1
  /\ hand' = [k \in 1 .. length |-> desc[Plus(fsDesc, k - 1)]]
  /\ taken' = taken + 1
  /\ relDesc' = fsDesc
  /\ count' = 0
  /\ pc' = "release"
  /\ UNCHANGED <<dmaVars, irqVars, rxDesc, fsDesc, segCount, length, failed, lwipVars, lock>>

\* pbuf_alloc returns NULL: descriptors and SegCount stay as they are.
AllocFail ==
  /\ isr = "idle" /\ pc = "alloc" /\ pool = 0
  /\ failed' = TRUE
  /\ pc' = "resume"
  /\ UNCHANGED <<dmaVars, irqVars, hethVars, relDesc, hand, taken, lwipVars, lock, pool>>

\* Faulty variant: the loop runs once too often.
ReleaseDescTooMany ==
  /\ isr = "idle" /\ pc = "release" /\ count <= segCount
  /\ own' = [own EXCEPT ![relDesc] = "dma"]
  /\ relDesc' = NextDesc(relDesc)
  /\ count' = count + 1
  /\ UNCHANGED <<desc, dma, arriving, sent, rbus, irqVars, rxDesc, fsDesc, segCount, length, pc, hand, taken, failed, lwipVars, lock, pool>>

\* The release loop gives SegCount descriptors back, one at a time, then
\* clears SegCount.
ReleaseDesc ==
  /\ isr = "idle" /\ pc = "release" /\ count < segCount
  /\ own' = [own EXCEPT ![relDesc] = "dma"]
  /\ relDesc' = NextDesc(relDesc)
  /\ count' = count + 1
  /\ UNCHANGED <<desc, dma, arriving, sent, rbus, irqVars, rxDesc, fsDesc, segCount, length, pc, hand, taken, failed, lwipVars, lock, pool>>

\* Faulty variant: SegCount is not cleared.
ReleaseEndKeepsSegCount ==
  /\ isr = "idle" /\ pc = "release" /\ count = segCount
  /\ pc' = "resume"
  /\ UNCHANGED <<dmaVars, irqVars, hethVars, relDesc, hand, taken, failed, lwipVars, lock, pool>>

ReleaseEnd ==
  /\ isr = "idle" /\ pc = "release" /\ count = segCount
  /\ segCount' = 0
  /\ pc' = "resume"
  /\ UNCHANGED <<dmaVars, irqVars, rxDesc, fsDesc, length, count, relDesc, hand, taken, failed, lwipVars, lock, pool>>

\* Faulty variant: reception is resumed only when no frame was read.
ResumeIfNull ==
  /\ isr = "idle" /\ pc = "resume"
  /\ rbus' = (rbus /\ hand # <<>>)
  /\ pc' = IF hand = <<>> THEN "wait" ELSE "input"
  /\ UNCHANGED <<own, desc, dma, arriving, sent, irqVars, hethVars, relDesc, hand, taken, failed, lwipVars, lock, pool>>

\* RBUS is cleared and the DMA polled again; p is returned.
Resume ==
  /\ isr = "idle" /\ pc = "resume"
  /\ rbus' = FALSE
  /\ pc' = IF hand = <<>> THEN "wait" ELSE "input"
  /\ UNCHANGED <<own, desc, dma, arriving, sent, irqVars, hethVars, relDesc, hand, taken, failed, lwipVars, lock, pool>>

\* The message of a fetched packet goes back to its pool when processed.
InpktFree == mbox + (IF busy THEN 1 ELSE 0) < MEMP_NUM_TCPIP_MSG_INPKT

\* Faulty variant: one frame for each semaphore token.
TcpipInputOnce ==
  /\ isr = "idle" /\ pc = "input"
  /\ IF InpktFree /\ mbox < MBOX_LENGTH
     THEN mbox' = mbox + 1 /\ UNCHANGED pool
     ELSE pool' = pool + 1 /\ UNCHANGED mbox
  /\ hand' = <<>>
  /\ pc' = "wait"
  /\ UNCHANGED <<dmaVars, irqVars, hethVars, relDesc, taken, failed, busy, held, lock>>

\* Faulty variant: the pbuf of a frame tcpip_input refuses is not freed.
TcpipInputLeak ==
  /\ isr = "idle" /\ pc = "input"
  /\ mbox' = IF InpktFree /\ mbox < MBOX_LENGTH THEN mbox + 1 ELSE mbox
  /\ hand' = <<>>
  /\ pc' = "enter"
  /\ UNCHANGED <<dmaVars, irqVars, hethVars, relDesc, taken, failed, busy, held, lock, pool>>

\* netif->input is tcpip_input: it needs a message and room in the mailbox,
\* else the pbuf is freed.
TcpipInput ==
  /\ isr = "idle" /\ pc = "input"
  /\ IF InpktFree /\ mbox < MBOX_LENGTH
     THEN mbox' = mbox + 1 /\ UNCHANGED pool
     ELSE pool' = pool + 1 /\ UNCHANGED mbox
  /\ hand' = <<>>
  /\ pc' = "enter"
  /\ UNCHANGED <<dmaVars, irqVars, hethVars, relDesc, taken, failed, busy, held, lock>>

-----------------------------------------------------------------------------
(* The tasks eth0 preempts *)

EthBlocked == isr = "idle" /\ pc = "wait" /\ sem = 0

\* HAL_ETH_Start, called by low_level_init after eth0 was created.
Start ==
  /\ EthBlocked /\ ~started /\ ~lock
  /\ started' = TRUE
  /\ lock' = TRUE
  /\ UNCHANGED <<dmaVars, rs, isr, sem, hethVars, ethVars, lwipVars, pool>>

\* HAL_ETH_TransmitFrame of another task takes the handle's lock ...
TaskLock ==
  /\ EthBlocked /\ started /\ ~lock
  /\ lock' = TRUE
  /\ UNCHANGED <<dmaVars, irqVars, hethVars, ethVars, lwipVars, pool>>

\* ... and releases it.
TaskUnlock ==
  /\ EthBlocked /\ lock
  /\ lock' = FALSE
  /\ UNCHANGED <<dmaVars, irqVars, hethVars, ethVars, lwipVars, pool>>

TcpipFetch ==
  /\ EthBlocked /\ ~busy /\ mbox > 0
  /\ busy' = TRUE
  /\ mbox' = mbox - 1
  /\ UNCHANGED <<dmaVars, irqVars, hethVars, ethVars, held, lock, pool>>

\* ethernet_input frees the pbuf or leaves it in a queue of lwIP.
TcpipDone ==
  /\ EthBlocked /\ busy
  /\ busy' = FALSE
  /\ \/ pool' = pool + 1 /\ UNCHANGED held
     \/ held' = held + 1 /\ UNCHANGED pool
  /\ UNCHANGED <<dmaVars, irqVars, hethVars, ethVars, mbox, lock>>

HeldFree ==
  /\ EthBlocked /\ held > 0
  /\ held' = held - 1
  /\ pool' = pool + 1
  /\ UNCHANGED <<dmaVars, irqVars, hethVars, ethVars, mbox, busy, lock>>

-----------------------------------------------------------------------------
Dma   == DmaBegin \/ DmaContinue \/ DmaUnavailable
Isr   == IsrCallback \/ IsrClear
Eth0  == \/ SemTake \/ GetLock
         \/ ScanFirst \/ ScanMiddle \/ ScanLast \/ ScanNothing
         \/ AllocCopy \/ AllocFail \/ ReleaseDesc \/ ReleaseEnd
         \/ Resume \/ TcpipInput
Tasks == Start \/ TaskLock \/ TaskUnlock \/ TcpipFetch \/ TcpipDone \/ HeldFree

Next == Dma \/ Isr \/ Eth0 \/ Tasks

Spec == Init /\ [][Next]_vars

\* The interrupt preempts every task and eth0 is the highest-priority task:
\* both run when they can.  A started frame ends; frames need not come.
FairSpec == Spec /\ WF_vars(Isr) /\ WF_vars(Eth0) /\ WF_vars(DmaContinue)

-----------------------------------------------------------------------------
(* Properties *)

TypeOK ==
  /\ own \in [Desc -> {"dma", "cpu"}]
  /\ desc \in [Desc -> Segment]
  /\ dma \in Desc
  /\ arriving \in [seg : 0 .. MaxSegs, size : 0 .. MaxSegs]
  /\ sent \in 0 .. MaxFrames
  /\ rbus \in BOOLEAN /\ rs \in BOOLEAN /\ started \in BOOLEAN
  /\ isr \in {"idle", "clear"} /\ sem \in 0 .. 1 /\ lock \in BOOLEAN
  /\ pc \in {"wait", "enter", "scan", "alloc", "release", "resume", "input"}
  /\ count \in Nat
  /\ rxDesc \in Desc /\ fsDesc \in Desc /\ relDesc \in Desc
  /\ segCount \in Nat /\ length \in 0 .. MaxSegs
  /\ hand \in Seq(Segment)
  /\ pool \in Nat /\ held \in Nat
  /\ mbox \in Nat /\ busy \in BOOLEAN
  /\ taken \in Nat /\ failed \in BOOLEAN

\* The frame in the pbuf is the next frame of the wire, whole: the segments of
\* frame number taken, in order, from its first to its last.
IsWholeFrame ==
  \A k \in 1 .. Len(hand) :
    /\ hand[k].id = taken
    /\ hand[k].seg = k
    /\ hand[k].ls <=> k = Len(hand)

\* A pbuf holds the frame whose last descriptor the scan has just found, whole:
\* low_level_input returns "a pbuf filled with the received packet (including
\* MAC header)", and NULL, the frame dropped, "on memory error"
\* (ethernetif.c:405), which leaves the frames after it as they came.
FramesIntact ==
  LET found == desc[Plus(rxDesc, ETH_RXBUFNB - 1)]
  IN  pc = "release" /\ count = 0 =>
        /\ Len(hand) = found.seg
        /\ \A k \in 1 .. Len(hand) : hand[k].id = found.id /\ hand[k].seg = k

\* Until a pbuf allocation fails, the frame in the pbuf is the next one of the
\* wire: multi-segment frames whose segments arrive across several calls included.
FramesIntactUntilFailure == failed \/ IsWholeFrame

\* Until a pbuf allocation fails, low_level_input never gives the DMA a
\* descriptor whose segment has not been copied into a pbuf.
NoUnreadRelease ==
  [][~failed => \A d \in Desc :
       own[d] = "cpu" /\ own'[d] = "dma" => desc[d].id <= taken]_vars

\* The frames stored completely and not yet copied out.
Unread == {d \in Desc : own[d] = "cpu" /\ desc[d].ls /\ desc[d].id > taken}

\* No lost wake-up: while eth0 sleeps with no interrupt on its way, no whole
\* frame waits in the ring.  Interrupts coalesce, and the handler clears RS
\* after its callback; the inner loop of ethernetif_input makes up for both.
NoLostWakeup == failed \/ (EthBlocked /\ ~rs => Unread = {})

\* HAL_ETH_GetReceivedFrame_IT never returns HAL_BUSY to eth0, although the
\* tasks it preempts hold the lock while they transmit: the handler that woke
\* eth0 unlocked the handle.
RxNeverBusy == pc = "enter" /\ isr = "idle" => ~lock

\* Every pbuf chain is in the pool, in eth0's hand, in the mailbox, with
\* tcpip_thread or kept by lwIP: the error paths neither leak nor double-free.
PoolConserved ==
  pool + (IF hand = <<>> THEN 0 ELSE 1) + mbox
       + (IF busy THEN 1 ELSE 0) + held = PBUF_POOL_SIZE

\* The number of the frame in the pbuf, if it is whole.
HandFrame == IF hand = <<>> THEN 0 ELSE IF IsWholeFrame THEN taken ELSE -1

Channel == INSTANCE RxChannel WITH
  Capacity <- ETH_RXBUFNB,
  received <- IF failed THEN 0 ELSE IF arriving.seg > 0 THEN sent - 1 ELSE sent,
  read     <- IF failed THEN 0 ELSE taken,
  frame    <- IF failed THEN 0 ELSE HandFrame,
  broken   <- failed

\* Ring, interrupt, semaphore and eth0 together are a channel of frames: until
\* an allocation fails, every frame stored whole is read, once, whole and in
\* the order of the wire, and none stays in the ring.
ImplementsChannel == Channel!FairSpec

\* "When Rx Buffer unavailable flag is set: clear it and resume reception"
\* (ethernetif.c:477).
ReceptionResumes == rbus ~> ~rbus

\* The same, unless an allocation fails.
ReceptionResumesUntilFailure == rbus ~> (~rbus \/ failed)

=============================================================================
