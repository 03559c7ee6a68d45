---------------------------- MODULE EthRxProofs ----------------------------
(***************************************************************************)
(* Proofs about module EthRx, for every size of the ring, of the pool and  *)
(* of the mailbox, and every number and length of frames.                  *)
(***************************************************************************)
EXTENDS EthRx, TLAPS

\* The walk along the ring stays in the ring.
LEMMA NextDescType == \A d \in Desc : NextDesc(d) \in Desc
BY EthRxAssumption DEF NextDesc, Desc

LEMMA PlusType == \A d \in Desc, k \in 0 .. MaxSegs - 1 : Plus(d, k) \in Desc
BY EthRxAssumption DEF Plus, Desc

-----------------------------------------------------------------------------
(* Types *)

\* A frame being received has segments to come.
TypeInv ==
  /\ TypeOK
  /\ arriving.seg > 0 => arriving.seg < arriving.size

LEMMA InitType == Init => TypeInv
BY EthRxAssumption DEF Init, TypeInv, TypeOK, Desc, Segment, NoSegment

LEMMA StoreType ==
  ASSUME TypeInv, NEW size \in 1 .. MaxSegs, Store(size),
         arriving.seg < size, arriving.seg = 0 => sent < MaxFrames
  PROVE  TypeInv'
<1> DEFINE k    == arriving.seg + 1
           id   == IF k = 1 THEN sent + 1 ELSE sent
           last == k = size \/ own[NextDesc(dma)] # "dma" \/ NextDesc(dma) = dma
<1>1. /\ k \in 1 .. MaxSegs /\ id \in 0 .. MaxFrames /\ last \in BOOLEAN
      /\ ~last => k < size
  BY EthRxAssumption DEF TypeInv, TypeOK
<1>2. [id |-> id, seg |-> k, fs |-> k = 1, ls |-> last] \in Segment
  BY <1>1, EthRxAssumption DEF Segment
<1>3. own' \in [Desc -> {"dma", "cpu"}] /\ desc' \in [Desc -> Segment]
  BY <1>2 DEF Store, TypeInv, TypeOK
<1>4. dma' \in Desc /\ sent' \in 0 .. MaxFrames
  BY <1>1, NextDescType DEF Store, TypeInv, TypeOK
<1>5. /\ arriving' \in [seg : 0 .. MaxSegs, size : 0 .. MaxSegs]
      /\ arriving'.seg > 0 => arriving'.seg < arriving'.size
  BY <1>1, EthRxAssumption DEF Store, TypeInv, TypeOK
<1>6. rs' \in BOOLEAN
  BY <1>1 DEF Store, TypeInv, TypeOK
<1> QED
  BY <1>3, <1>4, <1>5, <1>6
     DEF Store, TypeInv, TypeOK, hethVars, ethVars, lwipVars

LEMMA NextType == TypeInv /\ [Next]_vars => TypeInv'
<1> SUFFICES ASSUME TypeInv, [Next]_vars PROVE TypeInv'
  OBVIOUS
<1> USE DEF TypeInv, TypeOK, dmaVars, irqVars, hethVars, ethVars, lwipVars
<1>1. CASE DmaBegin
  <2> PICK size \in 1 .. MaxSegs : Store(size)
    BY <1>1 DEF DmaBegin
  <2> QED BY <1>1, StoreType, EthRxAssumption DEF DmaBegin
<1>2. CASE DmaContinue
  BY <1>2, StoreType, EthRxAssumption DEF DmaContinue
<1>3. CASE DmaUnavailable  BY <1>3 DEF DmaUnavailable
<1>4. CASE Isr
  <2>1. CASE IsrCallback   BY <2>1 DEF IsrCallback
  <2>2. CASE IsrClear      BY <2>2 DEF IsrClear
  <2> QED BY <1>4, <2>1, <2>2 DEF Isr
<1>5. CASE SemTake         BY <1>5 DEF SemTake
<1>6. CASE GetLock
  <2>1. CASE lock          BY <1>6, <2>1 DEF GetLock
  <2>2. CASE ~lock         BY <1>6, <2>2 DEF GetLock
  <2> QED BY <2>1, <2>2
<1>7. CASE ScanFirst       BY <1>7, NextDescType DEF ScanFirst
<1>8. CASE ScanMiddle      BY <1>8, NextDescType DEF ScanMiddle
<1>9. CASE ScanLast
  <2>1. length' \in 0 .. MaxSegs /\ segCount' \in Nat
    BY <1>9 DEF ScanLast, Segment
  <2>2. rxDesc' \in Desc /\ fsDesc' \in Desc
    BY <1>9, NextDescType DEF ScanLast
  <2>3. /\ lock' = FALSE /\ pc' = "alloc" /\ count' \in Nat
        /\ UNCHANGED <<dmaVars, irqVars, relDesc, hand, taken, failed, lwipVars, pool>>
    BY <1>9 DEF ScanLast
  <2> QED BY <2>1, <2>2, <2>3
<1>10. CASE ScanNothing    BY <1>10 DEF ScanNothing
<1>11. CASE AllocCopy
  <2>1. hand' \in Seq(Segment)
    BY <1>11, PlusType, EthRxAssumption DEF AllocCopy
  <2> QED BY <1>11, <2>1 DEF AllocCopy
<1>12. CASE AllocFail      BY <1>12 DEF AllocFail
<1>13. CASE ReleaseDesc    BY <1>13, NextDescType DEF ReleaseDesc
<1>14. CASE ReleaseEnd     BY <1>14 DEF ReleaseEnd
<1>15. CASE Resume         BY <1>15 DEF Resume
<1>16. CASE TcpipInput     BY <1>16 DEF TcpipInput
<1>17. CASE Tasks
  <2>1. CASE Start         BY <2>1 DEF Start
  <2>2. CASE TaskLock      BY <2>2 DEF TaskLock
  <2>3. CASE TaskUnlock    BY <2>3 DEF TaskUnlock
  <2>4. CASE TcpipFetch    BY <2>4 DEF TcpipFetch
  <2>5. CASE TcpipDone
    <3>1. pool' \in Nat /\ held' \in Nat BY <2>5 DEF TcpipDone
    <3> QED BY <2>5, <3>1 DEF TcpipDone
  <2>6. CASE HeldFree      BY <2>6 DEF HeldFree
  <2> QED BY <1>17, <2>1, <2>2, <2>3, <2>4, <2>5, <2>6 DEF Tasks
<1>18. CASE UNCHANGED vars BY <1>18 DEF vars
<1> QED
  BY <1>1, <1>2, <1>3, <1>4, <1>5, <1>6, <1>7, <1>8, <1>9, <1>10, <1>11,
     <1>12, <1>13, <1>14, <1>15, <1>16, <1>17, <1>18 DEF Next, Dma, Eth0

\* Every variable keeps its type.
THEOREM TypeCorrect == Spec => []TypeOK
<1>1. TypeInv => TypeOK BY DEF TypeInv
<1> QED BY <1>1, InitType, NextType, PTL DEF Spec

-----------------------------------------------------------------------------
(* The lock of the handle *)

\* Between two interrupts the handle is unlocked whenever eth0 is about to
\* lock it: eth0 has a token, or is past the wait and not in the scan.
LockInv ==
  isr = "idle" /\ pc # "scan" /\ (pc = "wait" => sem = 1) => ~lock

LEMMA NextLock == TypeOK /\ LockInv /\ [Next]_vars => LockInv'
<1> SUFFICES ASSUME TypeOK, LockInv, [Next]_vars PROVE LockInv'
  OBVIOUS
<1> USE DEF TypeOK, LockInv, dmaVars, irqVars, hethVars, ethVars, lwipVars
<1>1. CASE Dma
  <2>1. UNCHANGED <<isr, pc, sem, lock>>
    BY <1>1 DEF Dma, DmaBegin, DmaContinue, DmaUnavailable, Store
  <2> QED BY <2>1
<1>2. CASE Isr             BY <1>2 DEF Isr, IsrCallback, IsrClear
<1>3. CASE SemTake         BY <1>3 DEF SemTake
<1>4. CASE GetLock         BY <1>4 DEF GetLock
<1>5. CASE ScanFirst \/ ScanMiddle
  BY <1>5 DEF ScanFirst, ScanMiddle
<1>6. CASE ScanLast
  <2>1. lock' = FALSE BY <1>6 DEF ScanLast
  <2> QED BY <2>1
<1>7. CASE ScanNothing     BY <1>7 DEF ScanNothing
<1>8. CASE AllocCopy \/ AllocFail
  <2>1. pc = "alloc" /\ UNCHANGED <<isr, lock>>
    BY <1>8 DEF AllocCopy, AllocFail
  <2> QED BY <2>1
<1>9. CASE ReleaseDesc \/ ReleaseEnd \/ Resume \/ TcpipInput
  <2>1. pc \in {"release", "resume", "input"} /\ UNCHANGED <<isr, lock>>
    BY <1>9 DEF ReleaseDesc, ReleaseEnd, Resume, TcpipInput
  <2> QED BY <2>1
<1>10. CASE Tasks
  <2>1. EthBlocked /\ UNCHANGED <<isr, pc, sem>>
    BY <1>10 DEF Tasks, Start, TaskLock, TaskUnlock, TcpipFetch, TcpipDone, HeldFree
  <2> QED BY <2>1 DEF EthBlocked
<1>11. CASE UNCHANGED vars BY <1>11 DEF vars
<1> QED
  BY <1>1, <1>2, <1>3, <1>4, <1>5, <1>6, <1>7, <1>8, <1>9, <1>10, <1>11
     DEF Next, Eth0

\* eth0 never finds the handle locked.
THEOREM NeverBusy == Spec => []RxNeverBusy
<1>1. Init => LockInv BY DEF Init, LockInv
<1>2. LockInv => RxNeverBusy BY DEF LockInv, RxNeverBusy
<1> QED BY <1>1, <1>2, TypeCorrect, NextLock, PTL DEF Spec

-----------------------------------------------------------------------------
(* The pool of pbufs *)

\* A descriptor with LS holds a segment; eth0 has a pbuf exactly between the
\* copy and tcpip_input, and the frame it copied is not empty.
HandInv ==
  /\ \A d \in Desc : desc[d].ls => desc[d].seg > 0
  /\ pc = "alloc" => length > 0
  /\ pc \in {"wait", "enter", "scan", "alloc"} => hand = <<>>
  /\ pc \in {"release", "input"} => hand # <<>>
  /\ PoolConserved

LEMMA NextHand == TypeOK /\ HandInv /\ [Next]_vars => HandInv'
<1> SUFFICES ASSUME TypeOK, HandInv, [Next]_vars PROVE HandInv'
  OBVIOUS
<1> USE DEF TypeOK, HandInv, PoolConserved, dmaVars, irqVars, hethVars, ethVars, lwipVars
<1>1. CASE Dma
  <2>1. UNCHANGED <<pc, length, hand, pool, mbox, busy, held>>
    BY <1>1 DEF Dma, DmaBegin, DmaContinue, DmaUnavailable, Store
  <2>2. \A d \in Desc : desc'[d].ls => desc'[d].seg > 0
    <3>1. ASSUME NEW size, Store(size)
          PROVE  \A d \in Desc : desc'[d].ls => desc'[d].seg > 0
      BY <3>1 DEF Store
    <3> QED BY <1>1, <3>1 DEF Dma, DmaBegin, DmaContinue, DmaUnavailable
  <2> QED BY <2>1, <2>2
<1>2. CASE Isr
  <2>1. UNCHANGED <<desc, length, ethVars, lwipVars, pool>>
    BY <1>2 DEF Isr, IsrCallback, IsrClear
  <2> QED BY <2>1
<1>3. CASE SemTake         BY <1>3 DEF SemTake
<1>4. CASE GetLock         BY <1>4 DEF GetLock
<1>5. CASE ScanFirst \/ ScanMiddle \/ ScanNothing
  <2>1. /\ pc = "scan" /\ pc' \in {"scan", "wait"}
        /\ UNCHANGED <<desc, length, hand, lwipVars, pool>>
    BY <1>5 DEF ScanFirst, ScanMiddle, ScanNothing
  <2> QED BY <2>1
<1>6. CASE ScanLast
  <2>1. length' > 0 /\ pc' = "alloc" /\ hand = <<>> /\ UNCHANGED <<desc, hand, pool, lwipVars>>
    BY <1>6 DEF ScanLast, Segment
  <2> QED BY <2>1
<1>7. CASE AllocCopy
  <2>1. pc' = "release" /\ pool > 0 /\ pool' = pool - 1 /\ hand = <<>> /\ UNCHANGED <<desc, lwipVars>>
    BY <1>7 DEF AllocCopy
  <2>2. hand' # <<>>
    BY <1>7 DEF AllocCopy
  <2> QED BY <2>1, <2>2
<1>8. CASE AllocFail       BY <1>8 DEF AllocFail
<1>9. CASE ReleaseDesc \/ ReleaseEnd
  <2>1. /\ pc = "release" /\ pc' \in {"release", "resume"}
        /\ UNCHANGED <<desc, length, hand, lwipVars, pool>>
    BY <1>9 DEF ReleaseDesc, ReleaseEnd
  <2> QED BY <2>1
<1>10. CASE Resume         BY <1>10 DEF Resume
<1>11. CASE TcpipInput
  <2>1. /\ pc = "input" /\ hand # <<>> /\ pc' = "enter" /\ hand' = <<>>
        /\ UNCHANGED <<desc, length, busy, held>>
        /\ \/ mbox' = mbox + 1 /\ pool' = pool
           \/ pool' = pool + 1 /\ mbox' = mbox
    BY <1>11 DEF TcpipInput
  <2>2. PoolConserved'
    <3>1. CASE mbox' = mbox + 1 /\ pool' = pool  BY <2>1, <3>1
    <3>2. CASE pool' = pool + 1 /\ mbox' = mbox  BY <2>1, <3>2
    <3> QED BY <2>1, <3>1, <3>2
  <2> QED BY <2>1, <2>2
<1>12. CASE Tasks
  <2>1. CASE Start         BY <2>1 DEF Start
  <2>2. CASE TaskLock      BY <2>2 DEF TaskLock
  <2>3. CASE TaskUnlock    BY <2>3 DEF TaskUnlock
  <2>4. CASE TcpipFetch    BY <2>4 DEF TcpipFetch
  <2>5. CASE TcpipDone
    <3>1. /\ busy /\ ~busy' /\ UNCHANGED <<desc, length, ethVars, mbox>>
          /\ \/ pool' = pool + 1 /\ held' = held
             \/ held' = held + 1 /\ pool' = pool
      BY <2>5 DEF TcpipDone
    <3>2. CASE pool' = pool + 1 /\ held' = held  BY <3>1, <3>2, SMTT(20)
    <3>3. CASE held' = held + 1 /\ pool' = pool  BY <3>1, <3>3
    <3> QED BY <3>1, <3>2, <3>3
  <2>6. CASE HeldFree      BY <2>6 DEF HeldFree
  <2> QED BY <1>12, <2>1, <2>2, <2>3, <2>4, <2>5, <2>6 DEF Tasks
<1>13. CASE UNCHANGED vars BY <1>13 DEF vars
<1> QED
  BY <1>1, <1>2, <1>3, <1>4, <1>5, <1>6, <1>7, <1>8, <1>9, <1>10, <1>11,
     <1>12, <1>13 DEF Next, Eth0

\* No path of eth0 or of lwIP leaks a pbuf or frees one twice.
THEOREM NoPbufLost == Spec => []PoolConserved
<1>1. Init => HandInv
  BY EthRxAssumption DEF Init, HandInv, PoolConserved, NoSegment
<1>2. HandInv => PoolConserved BY DEF HandInv
<1> QED BY <1>1, <1>2, TypeCorrect, NextHand, PTL DEF Spec

=============================================================================
