------------------------------- MODULE EthTx -------------------------------
(***************************************************************************)
(* Transmission of Ethernet frames: low_level_output, the transmit ring,   *)
(* HAL_ETH_TransmitFrame and the handle lock that the receive interrupt    *)
(* opens.                                                                  *)
(*                                                                         *)
(* lwIP wants every frame output by one thread, tcpip_thread ("This thread *)
(* has exclusive access to lwIP core functions").  NETWORK_Init outputs    *)
(* the first frames, the gratuitous ARP of netif_set_up and the DISCOVER   *)
(* of dhcp_start, from startup_task, of the same priority; tcpip_thread    *)
(* outputs from the OFFER on.  First and Worker are the two tasks; with    *)
(* First = Worker they keep lwIP's rule.  Tasks of one priority are        *)
(* time-sliced, so they interleave at every step.                          *)
(***************************************************************************)
EXTENDS Integers, Sequences

CONSTANTS
  ETH_TXBUFNB,    \* transmit descriptors in the ring
  MaxSegs,        \* descriptors the longest frame needs
  MaxFrames,      \* bound: frames output in a behaviour
  FirstFrames,    \* frames output before the answer to the last of them
  First, Worker   \* the tasks that output these and the other frames

ASSUME EthTxAssumption ==
  /\ ETH_TXBUFNB \in Nat \ {0}
  /\ MaxSegs \in 1 .. ETH_TXBUFNB
  /\ MaxFrames \in Nat
  /\ FirstFrames \in 1 .. MaxFrames

VARIABLES
  own,      \* OWN bit of each descriptor: "dma" or "cpu"
  buf,      \* the frame and segment last copied to each buffer
  last,     \* LS bit of each descriptor
  dma,      \* the DMA's current descriptor
  tbus,     \* DMASR.TBUS: the DMA found no frame and is suspended
  lock,     \* heth.Lock
  txDesc,   \* heth.TxDesc
  pc,       \* where each task is
  frame,    \* the frame each task outputs
  size,     \* its length, in descriptors
  count,    \* segments copied, then descriptors given
  cur,      \* DmaTxDesc, then the value of heth.TxDesc kept in a register
  calls,    \* number of calls of low_level_output
  offer,    \* the answer to frame FirstFrames has been received
  ok,       \* history: frames low_level_output returned ERR_OK for
  refused,  \* history: frames it returned ERR_USE for
  wire      \* history: the segments transmitted

ringVars == <<own, buf, last, txDesc>>
dmaVars  == <<dma, tbus, wire>>
taskVars == <<frame, size, calls, offer>>
vars == <<ringVars, dmaVars, taskVars, lock, pc, count, cur, ok, refused>>

Tasks == {First, Worker}
Desc  == 0 .. ETH_TXBUFNB - 1

\* Faulty variant: the last descriptor is not chained to the first.
NextDescUnchained(d) == d + 1

\* Buffer2NextDescAddr: the descriptors are chained in a ring.
NextDesc(d) == IF d = ETH_TXBUFNB - 1 THEN 0 ELSE d + 1

\* HAL_ETH_DMATxDescListInit; the DMA, started, finds the ring empty.
Init ==
  /\ own = [d \in Desc |-> "cpu"]
  /\ buf = [d \in Desc |-> [id |-> 0, seg |-> 0]]
  /\ last = [d \in Desc |-> FALSE]
  /\ dma = 0 /\ tbus = TRUE /\ lock = FALSE /\ txDesc = 0
  /\ pc = [t \in Tasks |-> "idle"]
  /\ frame = [t \in Tasks |-> 0] /\ size = [t \in Tasks |-> 1]
  /\ count = [t \in Tasks |-> 0] /\ cur = [t \in Tasks |-> 0]
  /\ calls = 0 /\ offer = FALSE /\ ok = {} /\ refused = {} /\ wire = <<>>

-----------------------------------------------------------------------------
(* low_level_output *)

Begin(t) ==
  /\ pc[t] = "idle" /\ calls < MaxFrames
  /\ IF calls < FirstFrames THEN t = First ELSE t = Worker /\ offer
  /\ calls' = calls + 1
  /\ frame' = [frame EXCEPT ![t] = calls + 1]
  /\ \E s \in 1 .. MaxSegs : size' = [size EXCEPT ![t] = s]
  /\ cur' = [cur EXCEPT ![t] = txDesc]
  /\ count' = [count EXCEPT ![t] = 0]
  /\ pc' = [pc EXCEPT ![t] = "copy"]
  /\ UNCHANGED <<ringVars, dmaVars, offer, lock, ok, refused>>

\* The next segment goes to the buffer of the next descriptor.
Copied(t) ==
  /\ buf' = [buf EXCEPT ![cur[t]] = [id |-> frame[t], seg |-> count[t] + 1]]
  /\ cur' = [cur EXCEPT ![t] = NextDesc(cur[t])]
  /\ count' = [count EXCEPT ![t] = count[t] + 1]

\* Faulty variant: the copy does not look at OWN.
CopyUnchecked(t) ==
  /\ pc[t] = "copy" /\ count[t] < size[t]
  /\ Copied(t) /\ UNCHANGED <<pc, refused>>
  /\ UNCHANGED <<own, last, txDesc, dmaVars, taskVars, lock, ok>>

\* A descriptor of the DMA ends the call with ERR_USE.
Copy(t) ==
  /\ pc[t] = "copy" /\ count[t] < size[t]
  /\ IF own[cur[t]] = "dma"
     THEN /\ pc' = [pc EXCEPT ![t] = "idle"]
          /\ refused' = refused \union {frame[t]}
          /\ UNCHANGED <<buf, cur, count>>
     ELSE Copied(t) /\ UNCHANGED <<pc, refused>>
  /\ UNCHANGED <<own, last, txDesc, dmaVars, taskVars, lock, ok>>

-----------------------------------------------------------------------------
(* HAL_ETH_TransmitFrame; low_level_output ignores its result *)

\* __HAL_LOCK: a locked handle ends the call with HAL_BUSY.
Lock(t) ==
  /\ pc[t] = "copy" /\ count[t] = size[t]
  /\ count' = [count EXCEPT ![t] = 0]
  /\ \/ /\ lock
        /\ ok' = ok \union {frame[t]}
        /\ pc' = [pc EXCEPT ![t] = "idle"]
        /\ UNCHANGED lock
     \/ /\ ~lock
        /\ lock' = TRUE
        /\ pc' = [pc EXCEPT ![t] = "test"]
        /\ UNCHANGED ok
  /\ UNCHANGED <<ringVars, dmaVars, taskVars, cur, refused>>

\* When the DMA owns heth.TxDesc the handle is unlocked and the call ends with
\* HAL_ERROR.
TestOwn(t) ==
  /\ pc[t] = "test"
  /\ \/ /\ own[txDesc] = "dma"
        /\ lock' = FALSE
        /\ ok' = ok \union {frame[t]}
        /\ pc' = [pc EXCEPT ![t] = "idle"]
     \/ /\ own[txDesc] = "cpu"
        /\ pc' = [pc EXCEPT ![t] = "give"]
        /\ UNCHANGED <<lock, ok>>
  /\ UNCHANGED <<ringVars, dmaVars, taskVars, count, cur, refused>>

\* Faulty variant: LS is left to the descriptor's earlier use.
GiveKeepsLast(t) ==
  /\ pc[t] = "give" /\ count[t] < size[t]
  /\ own' = [own EXCEPT ![txDesc] = "dma"]
  /\ cur' = [cur EXCEPT ![t] = txDesc]
  /\ count' = [count EXCEPT ![t] = count[t] + 1]
  /\ pc' = [pc EXCEPT ![t] = "advance"]
  /\ UNCHANGED <<buf, last, txDesc, dmaVars, taskVars, lock, ok, refused>>

\* FS and LS, then OWN of heth.TxDesc.
Give(t) ==
  /\ pc[t] = "give" /\ count[t] < size[t]
  /\ last' = [last EXCEPT ![txDesc] = (count[t] + 1 = size[t])]
  /\ own' = [own EXCEPT ![txDesc] = "dma"]
  /\ cur' = [cur EXCEPT ![t] = txDesc]
  /\ count' = [count EXCEPT ![t] = count[t] + 1]
  /\ pc' = [pc EXCEPT ![t] = "advance"]
  /\ UNCHANGED <<buf, txDesc, dmaVars, taskVars, lock, ok, refused>>

\* Faulty variant: heth.TxDesc stays at the last descriptor of a frame.
AdvanceWithinFrame(t) ==
  /\ pc[t] = "advance"
  /\ txDesc' = IF count[t] < size[t] THEN NextDesc(txDesc) ELSE txDesc
  /\ pc' = [pc EXCEPT ![t] = "give"]
  /\ UNCHANGED <<own, buf, last, dmaVars, taskVars, lock, count, cur, ok, refused>>

\* heth.TxDesc is not volatile: the compiler reads it again or uses the
\* pointer it has in a register.
Advance(t) ==
  /\ pc[t] = "advance"
  /\ \E d \in {txDesc, cur[t]} : txDesc' = NextDesc(d)
  /\ pc' = [pc EXCEPT ![t] = "give"]
  /\ UNCHANGED <<own, buf, last, dmaVars, taskVars, lock, count, cur, ok, refused>>

\* Faulty variant: the DMA is not polled again.
PollNever(t) ==
  /\ pc[t] = "give" /\ count[t] = size[t]
  /\ pc' = [pc EXCEPT ![t] = "unlock"]
  /\ UNCHANGED <<ringVars, dmaVars, taskVars, lock, count, cur, ok, refused>>

\* TBUS is cleared and the DMA resumes.
Poll(t) ==
  /\ pc[t] = "give" /\ count[t] = size[t]
  /\ tbus' = FALSE
  /\ pc' = [pc EXCEPT ![t] = "unlock"]
  /\ UNCHANGED <<ringVars, dma, wire, taskVars, lock, count, cur, ok, refused>>

Unlock(t) ==
  /\ pc[t] = "unlock"
  /\ lock' = FALSE
  /\ ok' = ok \union {frame[t]}
  /\ pc' = [pc EXCEPT ![t] = "idle"]
  /\ UNCHANGED <<ringVars, dmaVars, taskVars, count, cur, refused>>

-----------------------------------------------------------------------------
(* What happens around the tasks *)

Transmitted(i) == \E k \in 1 .. Len(wire) : wire[k].id = i /\ wire[k].ls

\* A receive interrupt, and eth0 behind it, leave the handle unlocked.
RxInterrupt ==
  /\ lock' = FALSE
  /\ offer' = (offer \/ Transmitted(FirstFrames))
  /\ UNCHANGED <<ringVars, dmaVars, frame, size, calls, pc, count, cur, ok, refused>>

\* The DMA (external) transmits its current descriptor ...
DmaSend ==
  /\ ~tbus /\ own[dma] = "dma"
  /\ wire' = Append(wire, [id |-> buf[dma].id, seg |-> buf[dma].seg, ls |-> last[dma]])
  /\ own' = [own EXCEPT ![dma] = "cpu"]
  /\ dma' = NextDesc(dma)
  /\ UNCHANGED <<buf, last, txDesc, tbus, taskVars, lock, pc, count, cur, ok, refused>>

\* ... or, when it is not its own, suspends.
DmaSuspend ==
  /\ ~tbus /\ own[dma] = "cpu"
  /\ tbus' = TRUE
  /\ UNCHANGED <<ringVars, dma, wire, taskVars, lock, pc, count, cur, ok, refused>>

-----------------------------------------------------------------------------
Output(t) ==
  \/ Copy(t) \/ Lock(t) \/ TestOwn(t)
  \/ Give(t) \/ Advance(t) \/ Poll(t) \/ Unlock(t)
Dma == DmaSend \/ DmaSuspend

Next ==
  \/ \E t \in Tasks : Begin(t) \/ Output(t)
  \/ RxInterrupt
  \/ Dma

Spec == Init /\ [][Next]_vars

\* Tasks of one priority get their time slices, and the DMA runs.
FairSpec == Spec /\ WF_vars(Dma) /\ \A t \in Tasks : WF_vars(Output(t))

-----------------------------------------------------------------------------
(* Properties *)

Frames == 1 .. MaxFrames

TypeOK ==
  /\ own \in [Desc -> {"dma", "cpu"}]
  /\ buf \in [Desc -> [id : 0 .. MaxFrames, seg : 0 .. MaxSegs]]
  /\ last \in [Desc -> BOOLEAN]
  /\ dma \in Desc /\ txDesc \in Desc
  /\ tbus \in BOOLEAN /\ lock \in BOOLEAN
  /\ pc \in [Tasks -> {"idle", "copy", "test", "give", "advance", "unlock"}]
  /\ frame \in [Tasks -> 0 .. MaxFrames]
  /\ size \in [Tasks -> 1 .. MaxSegs]
  /\ count \in [Tasks -> 0 .. MaxSegs]
  /\ cur \in [Tasks -> Desc]
  /\ calls \in 0 .. MaxFrames /\ offer \in BOOLEAN
  /\ ok \in SUBSET Frames /\ refused \in SUBSET Frames
  /\ wire \in Seq([id : 0 .. MaxFrames, seg : 0 .. MaxSegs, ls : BOOLEAN])

\* The wire carries the frames whole and in the order of the calls, all but
\* those low_level_output refused: the copy into the ring, the hand-over of
\* the descriptors and the DMA never mix two frames.
WireIntact ==
  \A k \in 1 .. Len(wire) :
    LET s == wire[k]
        p == IF k = 1 THEN [id |-> 0, seg |-> 0, ls |-> TRUE] ELSE wire[k - 1]
    IN  IF p.ls THEN /\ s.seg = 1 /\ s.id > p.id
                     /\ p.id + 1 .. s.id - 1 \subseteq refused
                ELSE s.id = p.id /\ s.seg = p.seg + 1

\* low_level_output returns "ERR_OK if the packet could be sent"
\* (ethernetif.c:315), so such a packet reaches the wire.
OkFrameSent ==
  \A i \in Frames : i \in ok ~> Transmitted(i)

\* Between two calls the DMA owns nothing, or the descriptors from its own
\* up to heth.TxDesc: the CPU and the DMA agree on where the next frame goes.
RingAgreed ==
  (\A t \in Tasks : pc[t] \in {"idle", "copy"}) /\ own[dma] = "cpu"
    => dma = txDesc /\ \A d \in Desc : own[d] = "cpu"

\* HAL_ETH_TransmitFrame, whose result low_level_output ignores
\* (ethernetif.c:382), has no reason to fail: when it is called the handle is
\* unlocked and, when it looks, heth.TxDesc is not the DMA's, since the copy has
\* found a descriptor free for every segment.
TransmitNeverFails ==
  \A t \in Tasks : /\ pc[t] = "copy" /\ count[t] = size[t] => ~lock
                  /\ pc[t] = "test" => own[txDesc] = "cpu"

=============================================================================
