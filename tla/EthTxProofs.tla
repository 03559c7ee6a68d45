---------------------------- MODULE EthTxProofs ----------------------------
(***************************************************************************)
(* Proofs about module EthTx, for every size of the ring and every number  *)
(* and length of frames: its types whoever outputs, and, when one task     *)
(* outputs all frames (First = Worker), what reaches the wire.             *)
(*                                                                         *)
(* Descriptors are named by their place after the DMA's current one.       *)
(***************************************************************************)
EXTENDS EthTx, TLAPS

-----------------------------------------------------------------------------
(* Types *)

\* The walk along the ring stays in the ring.
LEMMA NextDescType == \A d \in Desc : NextDesc(d) \in Desc
BY EthTxAssumption DEF NextDesc, Desc

\* A task that outputs has a frame.
TypeInv ==
  /\ TypeOK
  /\ \A t \in Tasks : pc[t] # "idle" => frame[t] > 0

LEMMA InitType == Init => TypeInv
<1> SUFFICES ASSUME Init PROVE TypeInv
  OBVIOUS
<1> USE EthTxAssumption DEF Init
<1>1. own \in [Desc -> {"dma", "cpu"}] /\ last \in [Desc -> BOOLEAN] /\ 0 \in Desc
  BY DEF Desc
<1>2. buf \in [Desc -> [id : 0 .. MaxFrames, seg : 0 .. MaxSegs]]
  BY DEF Desc
<1>3. /\ frame \in [Tasks -> 0 .. MaxFrames] /\ size \in [Tasks -> 1 .. MaxSegs]
      /\ count \in [Tasks -> 0 .. MaxSegs]
  OBVIOUS
<1>4. cur \in [Tasks -> Desc] /\ pc \in [Tasks -> {"idle", "copy", "test", "give", "advance", "unlock"}]
  BY <1>1
<1>5. ok \in SUBSET Frames /\ refused \in SUBSET Frames
      /\ wire \in Seq([id : 0 .. MaxFrames, seg : 0 .. MaxSegs, ls : BOOLEAN])
  OBVIOUS
<1>6. calls \in 0 .. MaxFrames /\ \A t \in Tasks : pc[t] = "idle"
  OBVIOUS
<1> QED BY <1>1, <1>2, <1>3, <1>4, <1>5, <1>6 DEF TypeInv, TypeOK

LEMMA BusyFrame ==
  ASSUME TypeInv, NEW t \in Tasks, pc[t] # "idle"
  PROVE  frame[t] \in 1 .. MaxFrames
BY EthTxAssumption DEF TypeInv, TypeOK

LEMMA NextType == TypeInv /\ [Next]_vars => TypeInv'
<1> SUFFICES ASSUME TypeInv, [Next]_vars PROVE TypeInv'
  OBVIOUS
<1> USE DEF TypeInv, TypeOK, ringVars, dmaVars, taskVars, Frames
<1>1. ASSUME NEW t \in Tasks, Begin(t) PROVE TypeInv'
  <2>1. calls' \in 0 .. MaxFrames /\ calls + 1 \in 1 .. MaxFrames
    BY <1>1, EthTxAssumption DEF Begin
  <2>2. frame' \in [Tasks -> 0 .. MaxFrames] /\ size' \in [Tasks -> 1 .. MaxSegs]
    BY <1>1, <2>1, EthTxAssumption DEF Begin
  <2>3. count' \in [Tasks -> 0 .. MaxSegs] /\ cur' \in [Tasks -> Desc]
    BY <1>1, EthTxAssumption DEF Begin
  <2>4. \A u \in Tasks : pc'[u] # "idle" => frame'[u] > 0
    BY <1>1, <2>1, EthTxAssumption DEF Begin
  <2>5. pc' \in [Tasks -> {"idle", "copy", "test", "give", "advance", "unlock"}]
        /\ UNCHANGED <<ringVars, dmaVars, offer, lock, ok, refused>>
    BY <1>1 DEF Begin
  <2> QED BY <2>1, <2>2, <2>3, <2>4, <2>5
<1>2. ASSUME NEW t \in Tasks, Copy(t) PROVE TypeInv'
  <2>1. /\ pc[t] = "copy" /\ count[t] < size[t]
        /\ UNCHANGED <<own, last, txDesc, dmaVars, taskVars, lock, ok>>
    BY <1>2 DEF Copy
  <2>2. frame[t] \in 1 .. MaxFrames /\ count[t] + 1 \in 1 .. MaxSegs
    <3>1. pc[t] # "idle" /\ count[t] \in 0 .. MaxSegs /\ size[t] \in 1 .. MaxSegs
      BY <2>1
    <3>2. MaxSegs \in Nat
      BY EthTxAssumption
    <3> HIDE DEF TypeInv, TypeOK
    <3>3. frame[t] \in 1 .. MaxFrames
      BY <3>1, BusyFrame
    <3> QED BY <2>1, <3>1, <3>2, <3>3
  <2>3. CASE own[cur[t]] = "dma"
    <3>1. /\ pc' = [pc EXCEPT ![t] = "idle"] /\ refused' = refused \union {frame[t]}
          /\ UNCHANGED <<buf, cur, count>>
      BY <1>2, <2>3 DEF Copy
    <3> QED BY <2>1, <2>2, <3>1
  <2>4. CASE own[cur[t]] # "dma"
    <3>1. Copied(t) /\ UNCHANGED <<pc, refused>>
      BY <1>2, <2>4 DEF Copy
    <3>2. buf' \in [Desc -> [id : 0 .. MaxFrames, seg : 0 .. MaxSegs]]
      <4>1. [id |-> frame[t], seg |-> count[t] + 1] \in [id : 0 .. MaxFrames, seg : 0 .. MaxSegs]
        BY <2>2, EthTxAssumption
      <4> QED BY <3>1, <4>1 DEF Copied
    <3>3. cur' \in [Tasks -> Desc]
      BY <3>1, NextDescType DEF Copied
    <3>4. count' \in [Tasks -> 0 .. MaxSegs]
      BY <2>2, <3>1, EthTxAssumption DEF Copied
    <3> QED BY <2>1, <3>1, <3>2, <3>3, <3>4
  <2> QED BY <2>3, <2>4
<1>3. ASSUME NEW t \in Tasks, Lock(t) PROVE TypeInv'
  <2>1. /\ pc[t] = "copy" /\ count' = [count EXCEPT ![t] = 0]
        /\ UNCHANGED <<ringVars, dmaVars, taskVars, cur, refused>>
    BY <1>3 DEF Lock
  <2>2. frame[t] \in 1 .. MaxFrames
    BY <2>1, BusyFrame
  <2>3. \/ pc' = [pc EXCEPT ![t] = "idle"] /\ ok' = ok \union {frame[t]} /\ lock' = lock
        \/ pc' = [pc EXCEPT ![t] = "test"] /\ ok' = ok /\ lock' = TRUE
    BY <1>3 DEF Lock
  <2>4. count' \in [Tasks -> 0 .. MaxSegs]
    BY <2>1, EthTxAssumption
  <2>5. CASE pc' = [pc EXCEPT ![t] = "idle"] /\ ok' = ok \union {frame[t]} /\ lock' = lock
    BY <2>1, <2>2, <2>4, <2>5
  <2>6. CASE pc' = [pc EXCEPT ![t] = "test"] /\ ok' = ok /\ lock' = TRUE
    BY <2>1, <2>4, <2>6
  <2> QED BY <2>3, <2>5, <2>6
<1>4. ASSUME NEW t \in Tasks, Give(t) PROVE TypeInv'
  <2>1. own' \in [Desc -> {"dma", "cpu"}] /\ last' \in [Desc -> BOOLEAN]
    BY <1>4 DEF Give
  <2>2. count' \in [Tasks -> 0 .. MaxSegs] /\ cur' \in [Tasks -> Desc]
    BY <1>4, EthTxAssumption DEF Give
  <2>3. /\ pc' = [pc EXCEPT ![t] = "advance"] /\ pc[t] = "give"
        /\ UNCHANGED <<buf, txDesc, dmaVars, taskVars, lock, ok, refused>>
    BY <1>4 DEF Give
  <2> QED BY <2>1, <2>2, <2>3
<1>5. ASSUME NEW t \in Tasks, Advance(t) PROVE TypeInv'
  <2>1. PICK d \in {txDesc, cur[t]} : txDesc' = NextDesc(d)
    BY <1>5 DEF Advance
  <2>2. txDesc' \in Desc
    BY <2>1, NextDescType
  <2>3. /\ pc' = [pc EXCEPT ![t] = "give"] /\ pc[t] = "advance"
        /\ UNCHANGED <<own, buf, last, dmaVars, taskVars, lock, count, cur, ok, refused>>
    BY <1>5 DEF Advance
  <2>4. \A u \in Tasks : pc'[u] # "idle" => frame'[u] > 0
    BY <2>3
  <2>5. pc' \in [Tasks -> {"idle", "copy", "test", "give", "advance", "unlock"}]
    BY <2>3
  <2> QED BY <2>2, <2>3, <2>4, <2>5
<1>6. ASSUME NEW t \in Tasks, Poll(t) PROVE TypeInv'
  BY <1>6 DEF Poll
<1>7. ASSUME NEW t \in Tasks, Unlock(t) PROVE TypeInv'
  <2>1. frame[t] \in 1 .. MaxFrames
    BY <1>7, BusyFrame DEF Unlock
  <2> QED BY <1>7, <2>1 DEF Unlock
<1>8. CASE RxInterrupt
  <2>1. offer' \in BOOLEAN /\ lock' \in BOOLEAN
    BY <1>8 DEF RxInterrupt
  <2> QED BY <1>8, <2>1 DEF RxInterrupt
<1>9. CASE DmaSend
  <2>1. [id |-> buf[dma].id, seg |-> buf[dma].seg, ls |-> last[dma]]
          \in [id : 0 .. MaxFrames, seg : 0 .. MaxSegs, ls : BOOLEAN]
    <3>1. buf[dma].id \in 0 .. MaxFrames /\ buf[dma].seg \in 0 .. MaxSegs /\ last[dma] \in BOOLEAN
      OBVIOUS
    <3> QED BY <3>1
  <2>2. wire' \in Seq([id : 0 .. MaxFrames, seg : 0 .. MaxSegs, ls : BOOLEAN])
    BY <1>9, <2>1 DEF DmaSend
  <2>3. own' \in [Desc -> {"dma", "cpu"}] /\ dma' \in Desc
    BY <1>9, NextDescType DEF DmaSend
  <2> QED BY <1>9, <2>2, <2>3 DEF DmaSend
<1>10. CASE DmaSuspend      BY <1>10 DEF DmaSuspend
<1>11. CASE UNCHANGED vars  BY <1>11 DEF vars
<1>12. ASSUME NEW t \in Tasks, TestOwn(t) PROVE TypeInv'
  <2>1. pc[t] = "test" /\ UNCHANGED <<ringVars, dmaVars, taskVars, count, cur, refused>>
    BY <1>12 DEF TestOwn
  <2>2. frame[t] \in 1 .. MaxFrames
    BY <2>1, BusyFrame
  <2>3. CASE pc' = [pc EXCEPT ![t] = "idle"] /\ ok' = ok \union {frame[t]} /\ lock' = FALSE
    BY <2>1, <2>2, <2>3
  <2>4. CASE pc' = [pc EXCEPT ![t] = "give"] /\ ok' = ok /\ lock' = lock
    BY <2>1, <2>4
  <2> QED BY <1>12, <2>3, <2>4 DEF TestOwn
<1> QED
  BY <1>1, <1>2, <1>3, <1>4, <1>5, <1>6, <1>7, <1>8, <1>9, <1>10, <1>11, <1>12
     DEF Next, Output, Dma

\* Every variable keeps its type, one task outputting or two.
THEOREM TypeCorrect == Spec => []TypeOK
<1>1. TypeInv => TypeOK BY DEF TypeInv
<1> QED BY <1>1, InitType, NextType, PTL DEF Spec

-----------------------------------------------------------------------------
(* One task outputs *)

\* The place k steps after descriptor d, and back.
Plus(d, k) == IF d + k < ETH_TXBUFNB THEN d + k ELSE d + k - ETH_TXBUFNB
Dist(d, e) == IF e >= d THEN e - d ELSE e - d + ETH_TXBUFNB

\* From the DMA's descriptor d on, k descriptors are the DMA's, and no more;
\* the next one to be given is h.
Pending(d, k, h, ow) ==
  /\ k <= ETH_TXBUFNB
  /\ h = Plus(d, k)
  /\ \A j \in 0 .. ETH_TXBUFNB - 1 : ow[Plus(d, j)] = "dma" <=> j < k

\* After these lie m segments of frame f, from segment g + 1 on.
Prepared(d, k, m, f, g, b) ==
  /\ k + m <= ETH_TXBUFNB
  /\ \A j \in k .. k + m - 1 :
       b[Plus(d, j)].id = f /\ b[Plus(d, j)].seg = g + 1 + (j - k)

\* What the DMA will send from place j.
Item(d, j, b, l) == [id |-> b[Plus(d, j)].id, seg |-> b[Plus(d, j)].seg, ls |-> l[Plus(d, j)]]

\* What the wire carries before place j: the end of an imagined frame 0, when
\* nothing has been sent.
Nothing == [id |-> 0, seg |-> 0, ls |-> TRUE]
Before(d, j, b, l, w) ==
  IF j > 0 THEN Item(d, j - 1, b, l) ELSE IF w = <<>> THEN Nothing ELSE w[Len(w)]

\* Segment s may follow p on the wire.
Succeeds(s, p, r) ==
  IF p.ls THEN s.seg = 1 /\ s.id > p.id /\ p.id + 1 .. s.id - 1 \subseteq r
  ELSE s.id = p.id /\ s.seg = p.seg + 1

Carried(w, r) ==
  \A i \in 1 .. Len(w) : Succeeds(w[i], IF i = 1 THEN Nothing ELSE w[i - 1], r)

Chained(d, k, b, l, w, r) ==
  \A j \in 0 .. k - 1 : Succeeds(Item(d, j, b, l), Before(d, j, b, l, w), r)

\* The last segment given, x, as the task at p finds it, with g of the n
\* segments of frame f given and cl frames begun.
Newest(x, p, f, n, g, cl, r) ==
  /\ p # "idle" => f = cl
  /\ p = "idle" => x.ls /\ x.id <= cl /\ x.id + 1 .. cl \subseteq r
  /\ p \in {"copy", "test"} \/ (p = "give" /\ g = 0) => x.ls /\ x.id < f /\ x.id + 1 .. f - 1 \subseteq r
  /\ p \in {"give", "advance"} /\ g > 0 => x.id = f /\ x.seg = g /\ x.ls = (g = n)
  /\ p = "unlock" => x.id = f /\ x.ls

NextGiven  == IF pc[Worker] = "advance" THEN NextDesc(txDesc) ELSE txDesc
Given == IF pc[Worker] = "copy" THEN 0 ELSE count[Worker]
Ready == CASE pc[Worker] = "copy" -> count[Worker]
           [] pc[Worker] \in {"test", "give", "advance"} -> size[Worker] - count[Worker]
           [] OTHER -> 0

LocalInv ==
  /\ lock => pc[Worker] \in {"test", "give", "advance", "unlock"}
  /\ pc[Worker] \in {"copy", "test", "give", "advance"} => count[Worker] <= size[Worker]
  /\ pc[Worker] = "test" => count[Worker] = 0
  /\ pc[Worker] = "copy" => cur[Worker] = Plus(txDesc, count[Worker])
  /\ pc[Worker] = "advance" => cur[Worker] = txDesc /\ count[Worker] > 0

Ring(k) ==
  /\ Pending(dma, k, NextGiven, own)
  /\ Prepared(dma, k, Ready, frame[Worker], Given, buf)
  /\ Chained(dma, k, buf, last, wire, refused)
  /\ Newest(Before(dma, k, buf, last, wire), pc[Worker], frame[Worker],
            size[Worker], Given, calls, refused)

\* The invariant of transmission by one task.
Single ==
  /\ LocalInv
  /\ Carried(wire, refused)
  /\ \E k \in 0 .. ETH_TXBUFNB : Ring(k)

OneInv == TypeInv /\ Single


-----------------------------------------------------------------------------
(* The walk along the ring *)

LEMMA PlusInDesc ==
  \A d \in Desc, k \in 0 .. ETH_TXBUFNB : Plus(d, k) \in Desc
BY EthTxAssumption DEF Plus, Desc

\* Both ends of the walk are where it began.
LEMMA PlusEnds == \A d \in Desc : Plus(d, 0) = d /\ Plus(d, ETH_TXBUFNB) = d
BY EthTxAssumption DEF Plus, Desc

\* The places after d are different descriptors ...
LEMMA PlusInjective ==
  \A d \in Desc, j, k \in 0 .. ETH_TXBUFNB - 1 : Plus(d, j) = Plus(d, k) => j = k
BY EthTxAssumption DEF Plus, Desc

\* ... and all of them.
LEMMA PlusOnto ==
  \A d, e \in Desc : \E k \in 0 .. ETH_TXBUFNB - 1 : Plus(d, k) = e
<1> SUFFICES ASSUME NEW d \in Desc, NEW e \in Desc
             PROVE  \E k \in 0 .. ETH_TXBUFNB - 1 : Plus(d, k) = e
  OBVIOUS
<1>1. Dist(d, e) \in 0 .. ETH_TXBUFNB - 1 /\ Plus(d, Dist(d, e)) = e
  BY EthTxAssumption DEF Plus, Dist, Desc
<1> QED BY <1>1

LEMMA NextPlus ==
  \A d \in Desc, k \in 0 .. ETH_TXBUFNB - 1 :
    /\ NextDesc(Plus(d, k)) = Plus(d, k + 1)
    /\ Plus(NextDesc(d), k) = Plus(d, k + 1)
BY EthTxAssumption DEF Plus, NextDesc, Desc

\* Walks add up.
LEMMA PlusPlus ==
  \A d \in Desc, j, k \in 0 .. ETH_TXBUFNB :
    j + k <= ETH_TXBUFNB => Plus(Plus(d, j), k) = Plus(d, j + k)
BY EthTxAssumption DEF Plus, Desc

-----------------------------------------------------------------------------
(* What the steps do to the ring and its contents *)

Bufs == [id : Nat, seg : Nat]
Segs == [id : Nat, seg : Nat, ls : BOOLEAN]

\* Function new is old but for its value y at x.
Changed(new, old, x, y) == new = [old EXCEPT ![x] = y]

\* The task gives the DMA the next descriptor.
LEMMA GiveRing ==
  ASSUME NEW d \in Desc, NEW k \in Nat, NEW h, NEW ow \in [Desc -> {"dma", "cpu"}],
         Pending(d, k, h, ow), k < ETH_TXBUFNB,
         NEW new, Changed(new, ow, h, "dma")
  PROVE  Pending(d, k + 1, NextDesc(h), new)
<1>1. ETH_TXBUFNB \in Nat \ {0}
  BY EthTxAssumption
<1>2. h = Plus(d, k) /\ h \in Desc /\ NextDesc(h) = Plus(d, k + 1)
  BY <1>1, PlusInDesc, NextPlus DEF Pending
<1>3. ASSUME NEW j \in 0 .. ETH_TXBUFNB - 1
      PROVE  new[Plus(d, j)] = "dma" <=> j < k + 1
  <2>1. Plus(d, j) \in Desc
    BY <1>1, PlusInDesc
  <2>2. CASE j = k  BY <2>2, <1>1, <1>2 DEF Changed
  <2>3. CASE j # k
    <3>1. Plus(d, j) # h
      BY <1>1, <1>2, <2>3, PlusInjective
    <3> QED BY <1>1, <2>1, <2>3, <3>1 DEF Changed, Pending
  <2> QED BY <2>2, <2>3
<1> QED BY <1>1, <1>2, <1>3 DEF Pending

\* The DMA gives its descriptor back.
LEMMA SendRing ==
  ASSUME NEW d \in Desc, NEW k \in Nat, NEW h, NEW ow \in [Desc -> {"dma", "cpu"}],
         Pending(d, k, h, ow), ow[d] = "dma",
         NEW new, Changed(new, ow, d, "cpu")
  PROVE  k > 0 /\ Pending(NextDesc(d), k - 1, h, new)
<1>1. ETH_TXBUFNB \in Nat \ {0} /\ k <= ETH_TXBUFNB /\ d = Plus(d, 0)
      /\ d = Plus(d, ETH_TXBUFNB)
  BY EthTxAssumption, PlusEnds DEF Pending
<1>2. k > 0
  BY <1>1 DEF Pending
<1>3. h = Plus(NextDesc(d), k - 1)
  BY <1>1, <1>2, NextPlus DEF Pending
<1>4. ASSUME NEW j \in 0 .. ETH_TXBUFNB - 1
      PROVE  new[Plus(NextDesc(d), j)] = "dma" <=> j < k - 1
  <2>1. Plus(NextDesc(d), j) = Plus(d, j + 1) /\ Plus(d, j + 1) \in Desc
    BY <1>1, NextPlus, PlusInDesc
  <2>2. CASE j = ETH_TXBUFNB - 1
    <3>1. Plus(NextDesc(d), j) = d
      BY <1>1, <2>1, <2>2
    <3> QED BY <1>1, <2>2, <3>1 DEF Changed
  <2>3. CASE j < ETH_TXBUFNB - 1
    <3>1. Plus(d, j + 1) # Plus(d, 0)
      BY <1>1, <2>3, PlusInjective
    <3>2. ow[Plus(d, j + 1)] = "dma" <=> j + 1 < k
      BY <1>1, <2>3 DEF Pending
    <3> QED BY <1>1, <2>1, <3>1, <3>2 DEF Changed
  <2> QED BY <1>1, <2>2, <2>3
<1> QED BY <1>1, <1>2, <1>3, <1>4 DEF Pending

\* The task copies segment m + 1 of frame f behind those prepared: nothing
\* the DMA has yet to send changes.
LEMMA CopyContent ==
  ASSUME NEW d \in Desc, NEW k \in Nat, NEW m \in Nat, k + m < ETH_TXBUFNB,
         NEW f \in Nat, NEW b \in [Desc -> Bufs], NEW l, NEW w, NEW r,
         Prepared(d, k, m, f, 0, b), Chained(d, k, b, l, w, r),
         NEW new, Changed(new, b, Plus(d, k + m), [id |-> f, seg |-> m + 1])
  PROVE  /\ Prepared(d, k, m + 1, f, 0, new)
         /\ Chained(d, k, new, l, w, r)
         /\ Before(d, k, new, l, w) = Before(d, k, b, l, w)
<1>1. ETH_TXBUFNB \in Nat \ {0} /\ Plus(d, k + m) \in Desc
  BY EthTxAssumption, PlusInDesc
<1>2. ASSUME NEW j \in 0 .. k + m - 1 PROVE new[Plus(d, j)] = b[Plus(d, j)]
  <2>1. Plus(d, j) # Plus(d, k + m) /\ Plus(d, j) \in Desc
    BY <1>1, PlusInjective, PlusInDesc
  <2> QED BY <2>1 DEF Changed
<1>3. new[Plus(d, k + m)].id = f /\ new[Plus(d, k + m)].seg = m + 1
  BY <1>1 DEF Changed
<1>4. Prepared(d, k, m + 1, f, 0, new)
  <2> SUFFICES ASSUME NEW j \in k .. k + m
               PROVE  new[Plus(d, j)].id = f /\ new[Plus(d, j)].seg = 0 + 1 + (j - k)
    BY <1>1 DEF Prepared
  <2>1. CASE j = k + m  BY <2>1, <1>3
  <2>2. CASE j < k + m  BY <2>2, <1>2 DEF Prepared
  <2> QED BY <2>1, <2>2
<1>5. \A j \in 0 .. k - 1 : Item(d, j, new, l) = Item(d, j, b, l)
  BY <1>2 DEF Item
<1>6. ASSUME NEW j \in 0 .. k PROVE Before(d, j, new, l, w) = Before(d, j, b, l, w)
  <2>1. j > 0 => Item(d, j - 1, new, l) = Item(d, j - 1, b, l)
    BY <1>5
  <2> QED BY <2>1 DEF Before
<1>7. Chained(d, k, new, l, w, r)
  <2> SUFFICES ASSUME NEW j \in 0 .. k - 1
               PROVE  Succeeds(Item(d, j, new, l), Before(d, j, new, l, w), r)
    BY DEF Chained
  <2>1. Item(d, j, new, l) = Item(d, j, b, l)
    BY <1>5
  <2>2. Before(d, j, new, l, w) = Before(d, j, b, l, w)
    BY <1>6
  <2>3. Succeeds(Item(d, j, b, l), Before(d, j, b, l, w), r)
    BY DEF Chained
  <2> QED BY <2>1, <2>2, <2>3
<1> QED BY <1>4, <1>6, <1>7

\* The task marks the first segment prepared, and it joins those of the DMA.
LEMMA GiveContent ==
  ASSUME NEW d \in Desc, NEW k \in Nat, NEW m \in Nat \ {0},
         NEW f \in Nat, NEW n \in Nat, NEW g \in Nat, NEW cl, NEW r,
         NEW b \in [Desc -> Bufs], NEW l \in [Desc -> BOOLEAN], NEW w \in Seq(Segs),
         Prepared(d, k, m, f, g, b), Chained(d, k, b, l, w, r), g < n,
         Newest(Before(d, k, b, l, w), "give", f, n, g, cl, r),
         NEW new, Changed(new, l, Plus(d, k), g + 1 = n)
  PROVE  /\ Prepared(d, k + 1, m - 1, f, g + 1, b)
         /\ Chained(d, k + 1, b, new, w, r)
         /\ Newest(Before(d, k + 1, b, new, w), "advance", f, n, g + 1, cl, r)
<1>1. /\ ETH_TXBUFNB \in Nat \ {0} /\ k + m <= ETH_TXBUFNB /\ k < ETH_TXBUFNB
      /\ Plus(d, k) \in Desc
  BY EthTxAssumption, PlusInDesc DEF Prepared
<1>2. Prepared(d, k + 1, m - 1, f, g + 1, b)
  BY <1>1 DEF Prepared
<1>3. Item(d, k, b, new) = [id |-> f, seg |-> g + 1, ls |-> (g + 1 = n)]
  <2>1. b[Plus(d, k)].id = f /\ b[Plus(d, k)].seg = g + 1
    BY <1>1 DEF Prepared
  <2>2. new[Plus(d, k)] = (g + 1 = n)
    BY <1>1 DEF Changed
  <2> QED BY <2>1, <2>2 DEF Item
<1>4. ASSUME NEW j \in 0 .. k - 1 PROVE Item(d, j, b, new) = Item(d, j, b, l)
  <2>1. Plus(d, j) # Plus(d, k) /\ Plus(d, j) \in Desc
    BY <1>1, PlusInjective, PlusInDesc
  <2> QED BY <2>1 DEF Changed, Item
<1>5. ASSUME NEW j \in 0 .. k PROVE Before(d, j, b, new, w) = Before(d, j, b, l, w)
  <2>1. j > 0 => Item(d, j - 1, b, new) = Item(d, j - 1, b, l)
    BY <1>4
  <2> QED BY <2>1 DEF Before
<1>6. Succeeds(Item(d, k, b, new), Before(d, k, b, l, w), r)
  <2>1. PICK x, y : x = Before(d, k, b, l, w) /\ y = Item(d, k, b, new)
    OBVIOUS
  <2>2. y.id = f /\ y.seg = g + 1
    BY <1>3, <2>1
  <2>3. x.id \in Nat
    <3>1. w # <<>> => w[Len(w)] \in Segs
      OBVIOUS
    <3>2. k > 0 => b[Plus(d, k - 1)] \in Bufs
      BY <1>1, PlusInDesc
    <3> QED BY <2>1, <3>1, <3>2 DEF Before, Item, Nothing, Segs, Bufs
  <2>4. /\ g = 0 => x.ls /\ x.id < f /\ x.id + 1 .. f - 1 \subseteq r
        /\ g > 0 => x.id = f /\ x.seg = g /\ x.ls = (g = n)
    BY <2>1 DEF Newest
  <2>5. (g = n) = FALSE
    OBVIOUS
  <2>6. g > 0 => ~x.ls
    BY <2>4, <2>5, Zenon
  <2>7. Succeeds(y, x, r)
    BY <2>2, <2>3, <2>4, <2>6 DEF Succeeds
  <2> QED BY <2>1, <2>7, Zenon
<1>7. Chained(d, k + 1, b, new, w, r)
  <2> SUFFICES ASSUME NEW j \in 0 .. k + 1 - 1
               PROVE  Succeeds(Item(d, j, b, new), Before(d, j, b, new, w), r)
    BY DEF Chained
  <2>1. Before(d, j, b, new, w) = Before(d, j, b, l, w)
    BY <1>5
  <2>2. CASE j = k  BY <2>1, <2>2, <1>6
  <2>3. CASE j < k
    <3>1. Item(d, j, b, new) = Item(d, j, b, l)
      BY <2>3, <1>4
    <3>2. Succeeds(Item(d, j, b, l), Before(d, j, b, l, w), r)
      BY <2>3 DEF Chained
    <3> QED BY <2>1, <3>1, <3>2
  <2> QED BY <2>2, <2>3
<1>8. Before(d, k + 1, b, new, w) = [id |-> f, seg |-> g + 1, ls |-> (g + 1 = n)]
  BY <1>3 DEF Before
<1>9. f = cl
  BY DEF Newest
<1>10. Newest(Before(d, k + 1, b, new, w), "advance", f, n, g + 1, cl, r)
  <2>1. PICK x : x = Before(d, k + 1, b, new, w)
    OBVIOUS
  <2>2. x.id = f /\ x.seg = g + 1 /\ x.ls = (g + 1 = n)
    BY <1>8, <2>1
  <2>3. Newest(x, "advance", f, n, g + 1, cl, r)
    BY <1>9, <2>2 DEF Newest
  <2> QED BY <2>1, <2>3
<1> QED BY <1>2, <1>7, <1>10

\* The DMA sends its descriptor: every place is one less.
LEMMA SendContent ==
  ASSUME NEW d \in Desc, NEW k \in Nat \ {0}, NEW m \in Nat, NEW f, NEW g, NEW r,
         NEW b \in [Desc -> Bufs], NEW l \in [Desc -> BOOLEAN], NEW w,
         Prepared(d, k, m, f, g, b), Chained(d, k, b, l, w, r),
         NEW sent, sent # <<>>, sent[Len(sent)] = Item(d, 0, b, l)
  PROVE  /\ Prepared(NextDesc(d), k - 1, m, f, g, b)
         /\ Chained(NextDesc(d), k - 1, b, l, sent, r)
         /\ Before(NextDesc(d), k - 1, b, l, sent) = Before(d, k, b, l, w)
<1>1. ETH_TXBUFNB \in Nat \ {0} /\ k + m <= ETH_TXBUFNB
  BY EthTxAssumption DEF Prepared
<1>2. \A j \in 0 .. ETH_TXBUFNB - 1 : Plus(NextDesc(d), j) = Plus(d, j + 1)
  BY NextPlus
<1>3. Prepared(NextDesc(d), k - 1, m, f, g, b)
  <2> SUFFICES ASSUME NEW j \in k - 1 .. k - 1 + m - 1
               PROVE  /\ b[Plus(NextDesc(d), j)].id = f
                      /\ b[Plus(NextDesc(d), j)].seg = g + 1 + (j - (k - 1))
    BY <1>1 DEF Prepared
  <2>1. Plus(NextDesc(d), j) = Plus(d, j + 1) /\ j + 1 \in k .. k + m - 1
    BY <1>1, <1>2
  <2>2. b[Plus(d, j + 1)].id = f /\ b[Plus(d, j + 1)].seg = g + 1 + (j + 1 - k)
    BY <2>1 DEF Prepared
  <2>3. j + 1 - k = j - (k - 1)
    OBVIOUS
  <2> QED BY <2>1, <2>2, <2>3
<1>4. ASSUME NEW j \in 0 .. k - 1 PROVE Item(NextDesc(d), j, b, l) = Item(d, j + 1, b, l)
  <2>1. Plus(NextDesc(d), j) = Plus(d, j + 1)
    BY <1>1, <1>2
  <2> QED BY <2>1 DEF Item
<1>5. ASSUME NEW j \in 0 .. k - 1
      PROVE  Before(NextDesc(d), j, b, l, sent) = Before(d, j + 1, b, l, w)
  <2>1. CASE j = 0  BY <2>1 DEF Before
  <2>2. CASE j > 0
    <3>1. Item(NextDesc(d), j - 1, b, l) = Item(d, j - 1 + 1, b, l)
      BY <2>2, <1>4
    <3> QED BY <2>2, <3>1 DEF Before
  <2> QED BY <2>1, <2>2
<1>6. Chained(NextDesc(d), k - 1, b, l, sent, r)
  <2> SUFFICES ASSUME NEW j \in 0 .. k - 1 - 1
               PROVE  Succeeds(Item(NextDesc(d), j, b, l), Before(NextDesc(d), j, b, l, sent), r)
    BY DEF Chained
  <2>1. Item(NextDesc(d), j, b, l) = Item(d, j + 1, b, l)
    BY <1>4
  <2>2. Before(NextDesc(d), j, b, l, sent) = Before(d, j + 1, b, l, w)
    BY <1>5
  <2>3. Succeeds(Item(d, j + 1, b, l), Before(d, j + 1, b, l, w), r)
    BY DEF Chained
  <2> QED BY <2>1, <2>2, <2>3
<1>7. Before(NextDesc(d), k - 1, b, l, sent) = Before(d, k - 1 + 1, b, l, w)
  BY <1>5
<1> QED BY <1>3, <1>6, <1>7

LEMMA AppendWire ==
  ASSUME NEW w \in Seq(Segs), NEW x \in Segs, NEW r, Carried(w, r),
         Succeeds(x, IF w = <<>> THEN Nothing ELSE w[Len(w)], r)
  PROVE  /\ Carried(Append(w, x), r)
         /\ Append(w, x) # <<>> /\ Append(w, x)[Len(Append(w, x))] = x
<1> DEFINE y == Append(w, x)
<1>1. /\ Len(y) = Len(w) + 1 /\ y[Len(w) + 1] = x /\ Len(w) \in Nat
      /\ \A i \in 1 .. Len(w) : y[i] = w[i]
  OBVIOUS
<1>2. w = <<>> <=> Len(w) = 0
  OBVIOUS
<1>3. ASSUME NEW i \in 1 .. Len(y)
      PROVE  Succeeds(y[i], IF i = 1 THEN Nothing ELSE y[i - 1], r)
  <2> HIDE DEF y
  <2>1. CASE i <= Len(w)
    <3>1. y[i] = w[i] /\ (i # 1 => y[i - 1] = w[i - 1])
      BY <1>1, <2>1
    <3>2. Succeeds(w[i], IF i = 1 THEN Nothing ELSE w[i - 1], r)
      BY <1>1, <2>1 DEF Carried
    <3> QED BY <3>1, <3>2
  <2>2. CASE i = Len(w) + 1
    <3>1. y[i] = x /\ (i # 1 => y[i - 1] = w[Len(w)]) /\ (i = 1 <=> w = <<>>)
      BY <1>1, <1>2, <2>2
    <3> QED BY <3>1
  <2> QED BY <1>1, <2>1, <2>2
<1>4. y # <<>> /\ y[Len(y)] = x
  BY <1>1
<1> QED BY <1>3, <1>4 DEF Carried

\* One more frame is refused.
LEMMA RefuseMore ==
  ASSUME NEW r, NEW more, r \subseteq more, NEW d, NEW k \in Nat, NEW b, NEW l,
         NEW w \in Seq(Segs), Carried(w, r), Chained(d, k, b, l, w, r)
  PROVE  Carried(w, more) /\ Chained(d, k, b, l, w, more)
<1>1. \A s, p : Succeeds(s, p, r) => Succeeds(s, p, more)
  BY DEF Succeeds
<1> QED BY <1>1 DEF Carried, Chained

LEMMA WireCarried == WireIntact <=> Carried(wire, refused)
BY DEF WireIntact, Carried, Succeeds, Nothing

-----------------------------------------------------------------------------
(* One step *)

LEMMA Types ==
  ASSUME OneInv
  PROVE  /\ own \in [Desc -> {"dma", "cpu"}] /\ buf \in [Desc -> Bufs]
         /\ last \in [Desc -> BOOLEAN] /\ wire \in Seq(Segs)
         /\ dma \in Desc /\ txDesc \in Desc
         /\ pc \in [Tasks -> {"idle", "copy", "test", "give", "advance", "unlock"}]
         /\ frame \in [Tasks -> Nat] /\ size \in [Tasks -> Nat \ {0}]
         /\ count \in [Tasks -> Nat] /\ cur \in [Tasks -> Desc] /\ calls \in Nat
         /\ Worker \in Tasks /\ ETH_TXBUFNB \in Nat \ {0}
         /\ size[Worker] <= ETH_TXBUFNB
<1> USE DEF OneInv, TypeInv, TypeOK
<1>1. ETH_TXBUFNB \in Nat \ {0} /\ MaxSegs \in 1 .. ETH_TXBUFNB /\ MaxFrames \in Nat
  BY EthTxAssumption
<1>2. buf \in [Desc -> Bufs]
  BY <1>1 DEF Bufs
<1>3. wire \in Seq(Segs)
  <2> DEFINE S == [id : 0 .. MaxFrames, seg : 0 .. MaxSegs, ls : BOOLEAN]
  <2>1. S \subseteq Segs
    BY <1>1 DEF Segs
  <2>2. wire \in Seq(S)
    OBVIOUS
  <2> HIDE DEF S
  <2> QED BY <2>1, <2>2
<1>4. /\ frame \in [Tasks -> Nat] /\ size \in [Tasks -> Nat \ {0}]
      /\ count \in [Tasks -> Nat] /\ calls \in Nat
  BY <1>1
<1>5. Worker \in Tasks
  BY DEF Tasks
<1>6. size[Worker] <= ETH_TXBUFNB
  BY <1>1, <1>5
<1> QED BY <1>1, <1>2, <1>3, <1>4, <1>5, <1>6

LEMMA BeforeType ==
  ASSUME OneInv, NEW k \in 0 .. ETH_TXBUFNB
  PROVE  Before(dma, k, buf, last, wire).id \in Nat
<1>1. wire # <<>> => wire[Len(wire)] \in Segs
  BY Types
<1>2. k > 0 => buf[Plus(dma, k - 1)] \in Bufs
  BY Types, PlusInDesc
<1> QED BY <1>1, <1>2 DEF Before, Item, Nothing, Segs, Bufs

LEMMA BeginStep ==
  ASSUME OneInv, Begin(Worker) PROVE Single'
<1>1. /\ pc[Worker] = "idle" /\ pc'[Worker] = "copy" /\ count'[Worker] = 0
      /\ calls' = calls + 1 /\ frame'[Worker] = calls + 1 /\ cur'[Worker] = txDesc
      /\ size'[Worker] \in Nat \ {0}
      /\ UNCHANGED <<own, buf, last, txDesc, dma, wire, lock, refused>>
  <2>1. PICK n \in 1 .. MaxSegs : size' = [size EXCEPT ![Worker] = n]
    BY DEF Begin
  <2>2. size'[Worker] \in Nat \ {0}
    BY <2>1, Types, EthTxAssumption
  <2> QED BY <2>2, Types DEF Begin, ringVars, dmaVars
<1>2. /\ NextGiven' = txDesc /\ Ready' = 0 /\ Given' = 0
      /\ NextGiven = txDesc
  BY <1>1 DEF NextGiven, Ready, Given
<1>3. LocalInv'
  <2>1. Plus(txDesc, 0) = txDesc
    BY Types, PlusEnds
  <2> QED BY <1>1, <2>1 DEF OneInv, Single, LocalInv
<1>4. Carried(wire, refused)'
  BY <1>1 DEF OneInv, Single
<1>5. ASSUME NEW k \in 0 .. ETH_TXBUFNB, Ring(k) PROVE Ring(k)'
  <2>1. Pending(dma, k, NextGiven, own)'
    BY <1>1, <1>2, <1>5 DEF Ring
  <2>2. Prepared(dma, k, Ready, frame[Worker], Given, buf)'
    <3>1. Prepared(dma, k, 0, calls + 1, 0, buf)
      BY Types DEF Prepared
    <3> QED BY <1>1, <1>2, <3>1
  <2>3. Chained(dma, k, buf, last, wire, refused)'
    BY <1>1, <1>5 DEF Ring
  <2>4. Newest(Before(dma, k, buf, last, wire), pc[Worker], frame[Worker],
               size[Worker], Given, calls, refused)'
    <3>1. PICK x : x = Before(dma, k, buf, last, wire)
      OBVIOUS
    <3>2. x.ls /\ x.id <= calls /\ x.id + 1 .. calls \subseteq refused
      BY <1>1, <1>5, <3>1 DEF Ring, Newest
    <3>3. x.id \in Nat
      BY <3>1, BeforeType
    <3>4. Newest(x, "copy", calls + 1, size'[Worker], 0, calls + 1, refused)
      BY <3>2, <3>3, Types DEF Newest
    <3> QED BY <1>1, <1>2, <3>1, <3>4
  <2> QED BY <2>1, <2>2, <2>3, <2>4 DEF Ring
<1> QED BY <1>3, <1>4, <1>5 DEF OneInv, Single

LEMMA CopyStep ==
  ASSUME OneInv, Copy(Worker) PROVE Single'
<1> DEFINE c == count[Worker]
           f == frame[Worker]
<1>1. /\ pc[Worker] = "copy" /\ c < size[Worker]
      /\ UNCHANGED <<own, last, txDesc, dma, wire, frame, size, calls, lock>>
  BY DEF Copy, dmaVars, taskVars
<1>2. NextGiven = txDesc /\ Ready = c /\ Given = 0
  BY <1>1 DEF NextGiven, Ready, Given
<1>3. LocalInv /\ Carried(wire, refused) /\ cur[Worker] = Plus(txDesc, c) /\ c \in Nat /\ f \in Nat
  BY <1>1, Types DEF OneInv, Single, LocalInv
<1>4. PICK k \in 0 .. ETH_TXBUFNB : Ring(k)
  BY DEF OneInv, Single
<1>5. CASE own[cur[Worker]] = "dma"
  <2>1. /\ pc'[Worker] = "idle" /\ refused' = refused \union {f}
        /\ UNCHANGED <<buf, cur, count>>
    BY <1>5, Types DEF Copy
  <2>2. NextGiven' = txDesc /\ Ready' = 0 /\ Given' = c
    BY <1>1, <2>1 DEF NextGiven, Ready, Given
  <2>3. LocalInv'
    BY <1>1, <1>3, <2>1 DEF LocalInv
  <2>4. Carried(wire, refused') /\ Chained(dma, k, buf, last, wire, refused')
    <3>1. Carried(wire, refused) /\ Chained(dma, k, buf, last, wire, refused)
      BY <1>3, <1>4 DEF Ring
    <3>2. refused \subseteq refused' /\ wire \in Seq(Segs) /\ k \in Nat
      BY <2>1, Types
    <3> QED BY <3>1, <3>2, RefuseMore, Zenon
  <2>5. Pending(dma, k, NextGiven, own)'
    BY <1>1, <1>2, <1>4, <2>2 DEF Ring
  <2>6. Prepared(dma, k, Ready, frame[Worker], Given, buf)'
    <3>1. Prepared(dma, k, 0, f, c, buf)
      BY Types DEF Prepared
    <3> QED BY <1>1, <2>1, <2>2, <3>1
  <2>7. Newest(Before(dma, k, buf, last, wire), pc[Worker], frame[Worker],
               size[Worker], Given, calls, refused)'
    <3>1. PICK x : x = Before(dma, k, buf, last, wire)
      OBVIOUS
    <3>2. f = calls /\ x.ls /\ x.id < f /\ x.id + 1 .. f - 1 \subseteq refused
      BY <1>1, <1>2, <1>4, <3>1 DEF Ring, Newest
    <3>3. x.id \in Nat
      BY <3>1, BeforeType
    <3>4. x.id + 1 .. calls \subseteq refused \union {f}
      BY <1>3, <3>2, <3>3
    <3>5. Newest(x, "idle", f, size[Worker], c, calls, refused')
      BY <1>3, <2>1, <3>2, <3>3, <3>4 DEF Newest
    <3> QED BY <1>1, <2>1, <2>2, <3>1, <3>5
  <2> QED BY <1>1, <2>1, <2>3, <2>4, <2>5, <2>6, <2>7 DEF Single, Ring
<1>6. CASE own[cur[Worker]] # "dma"
  <2>1. /\ buf' = [buf EXCEPT ![cur[Worker]] = [id |-> f, seg |-> c + 1]]
        /\ cur'[Worker] = NextDesc(cur[Worker]) /\ count'[Worker] = c + 1
        /\ UNCHANGED <<pc, refused>>
    BY <1>6, Types DEF Copy, Copied
  <2>2. NextGiven' = txDesc /\ Ready' = c + 1 /\ Given' = 0
    BY <1>1, <2>1 DEF NextGiven, Ready, Given
  <2>3. k + c < ETH_TXBUFNB /\ cur[Worker] = Plus(dma, k + c)
    <3>1. k + c <= ETH_TXBUFNB /\ txDesc = Plus(dma, k)
      BY <1>2, <1>4 DEF Ring, Pending, Prepared
    <3>2. cur[Worker] = Plus(dma, k + c)
      BY <1>3, <3>1, Types, PlusPlus
    <3>3. k + c # ETH_TXBUFNB
      <4>1. SUFFICES ASSUME k + c = ETH_TXBUFNB PROVE FALSE
        OBVIOUS
      <4>2. k > 0 /\ cur[Worker] = Plus(dma, 0)
        BY <1>1, <1>3, <3>2, <4>1, Types, PlusEnds
      <4>3. own[Plus(dma, 0)] = "dma"
        BY <1>4, <4>2, Types DEF Ring, Pending
      <4> QED BY <1>6, <4>2, <4>3
    <3> QED BY <1>3, <3>1, <3>2, <3>3, EthTxAssumption
  <2>4. LocalInv'
    <3>1. NextDesc(Plus(txDesc, c)) = Plus(txDesc, c + 1)
      <4>1. txDesc \in Desc /\ c \in 0 .. ETH_TXBUFNB - 1
        BY <1>3, <2>3, Types
      <4> QED BY <4>1, NextPlus
    <3> QED BY <1>1, <1>3, <2>1, <3>1, Types DEF LocalInv
  <2>5. /\ Prepared(dma, k, c + 1, f, 0, buf') /\ Chained(dma, k, buf', last, wire, refused)
        /\ Before(dma, k, buf', last, wire) = Before(dma, k, buf, last, wire)
    <3>1. /\ Prepared(dma, k, c, f, 0, buf) /\ Chained(dma, k, buf, last, wire, refused)
          /\ Changed(buf', buf, Plus(dma, k + c), [id |-> f, seg |-> c + 1])
      BY <1>2, <1>4, <2>1, <2>3 DEF Ring, Changed
    <3>2. /\ dma \in Desc /\ k \in Nat /\ c \in Nat /\ f \in Nat /\ k + c < ETH_TXBUFNB
          /\ buf \in [Desc -> Bufs]
      BY <1>3, <2>3, Types
    <3> QED BY <3>1, <3>2, CopyContent
  <2>6. Pending(dma, k, NextGiven, own)'
    BY <1>1, <1>2, <1>4, <2>2 DEF Ring
  <2>7. Newest(Before(dma, k, buf, last, wire), pc[Worker], frame[Worker],
               size[Worker], Given, calls, refused)'
    BY <1>1, <1>2, <1>4, <2>1, <2>2, <2>5 DEF Ring
  <2> QED BY <1>1, <1>3, <2>1, <2>2, <2>4, <2>5, <2>6, <2>7 DEF Single, Ring
<1> QED BY <1>5, <1>6

\* One task finds the handle unlocked, and a free descriptor for each segment.
LEMMA NeverFails == OneInv /\ Tasks = {Worker} => TransmitNeverFails
<1> SUFFICES ASSUME OneInv, Tasks = {Worker} PROVE TransmitNeverFails
  OBVIOUS
<1>1. pc[Worker] = "copy" => ~lock
  BY DEF OneInv, Single, LocalInv
<1>2. ASSUME pc[Worker] = "test" PROVE own[txDesc] = "cpu"
  <2>1. PICK k \in 0 .. ETH_TXBUFNB : Ring(k)
    BY DEF OneInv, Single
  <2>2. count[Worker] = 0 /\ NextGiven = txDesc /\ Ready = size[Worker] /\ Ready \in Nat \ {0}
    BY <1>2, Types DEF OneInv, Single, LocalInv, NextGiven, Ready
  <2>3. k + Ready <= ETH_TXBUFNB /\ txDesc = Plus(dma, k)
    BY <2>1, <2>2 DEF Ring, Pending, Prepared
  <2>4. own[Plus(dma, k)] # "dma"
    BY <2>1, <2>2, <2>3, Types DEF Ring, Pending
  <2> QED BY <2>3, <2>4, Types
<1> QED BY <1>1, <1>2 DEF TransmitNeverFails

LEMMA LockStep ==
  ASSUME OneInv, Lock(Worker) PROVE Single'
<1> DEFINE n == size[Worker]
<1>1. /\ pc[Worker] = "copy" /\ count[Worker] = n /\ count'[Worker] = 0
      /\ UNCHANGED <<own, buf, last, txDesc, dma, wire, frame, size, calls, refused>>
  BY Types DEF Lock, ringVars, dmaVars, taskVars
<1>2. NextGiven = txDesc /\ Ready = n /\ Given = 0 /\ n \in Nat \ {0}
  BY <1>1, Types DEF NextGiven, Ready, Given
<1>3. PICK k \in 0 .. ETH_TXBUFNB : Ring(k)
  BY DEF OneInv, Single
<1>4. ~lock
  BY <1>1 DEF OneInv, Single, LocalInv
<1>5. pc'[Worker] = "test"
  BY <1>4, Types DEF Lock
<1>6. NextGiven' = txDesc /\ Ready' = n /\ Given' = 0
  BY <1>1, <1>2, <1>5 DEF NextGiven, Ready, Given
<1>7. LocalInv'
  BY <1>1, <1>2, <1>5 DEF LocalInv
<1>8. Carried(wire, refused)'
  BY <1>1 DEF OneInv, Single
<1>9. Newest(Before(dma, k, buf, last, wire), pc[Worker], frame[Worker],
             size[Worker], Given, calls, refused)'
  <2>1. PICK x : x = Before(dma, k, buf, last, wire)
    OBVIOUS
  <2>2. Newest(x, "copy", frame[Worker], n, 0, calls, refused)
    BY <1>1, <1>2, <1>3, <2>1 DEF Ring
  <2>3. Newest(x, "test", frame[Worker], n, 0, calls, refused)
    BY <2>2 DEF Newest
  <2> QED BY <1>1, <1>5, <1>6, <2>1, <2>3
<1>10. Ring(k)'
  BY <1>1, <1>2, <1>3, <1>6, <1>9 DEF Ring
<1> QED BY <1>7, <1>8, <1>10 DEF Single

LEMMA TestOwnStep ==
  ASSUME OneInv, Tasks = {Worker}, TestOwn(Worker) PROVE Single'
<1>1. /\ pc[Worker] = "test"
      /\ UNCHANGED <<own, buf, last, txDesc, dma, wire, frame, size, calls, count, refused>>
  BY DEF TestOwn, ringVars, dmaVars, taskVars
<1>2. pc'[Worker] = "give"
  <2>1. own[txDesc] = "cpu"
    BY <1>1, NeverFails DEF TransmitNeverFails
  <2> QED BY <2>1, Types DEF TestOwn
<1>3. count[Worker] = 0 /\ Given = 0
  BY <1>1 DEF OneInv, Single, LocalInv, Given
<1>4. NextGiven' = NextGiven /\ Ready' = Ready /\ Given' = 0
  BY <1>1, <1>2, <1>3 DEF NextGiven, Ready, Given
<1>5. LocalInv'
  BY <1>1, <1>2 DEF OneInv, Single, LocalInv
<1>6. Carried(wire, refused)'
  BY <1>1 DEF OneInv, Single
<1>7. ASSUME NEW k \in 0 .. ETH_TXBUFNB, Ring(k) PROVE Ring(k)'
  <2>1. PICK x : x = Before(dma, k, buf, last, wire)
    OBVIOUS
  <2>2. Newest(x, "test", frame[Worker], size[Worker], 0, calls, refused)
    BY <1>1, <1>3, <1>7, <2>1 DEF Ring
  <2>3. Newest(x, "give", frame[Worker], size[Worker], 0, calls, refused)
    BY <2>2 DEF Newest
  <2> QED BY <1>1, <1>2, <1>3, <1>4, <1>7, <2>1, <2>3 DEF Ring
<1> QED BY <1>5, <1>6, <1>7 DEF OneInv, Single

LEMMA GiveStep ==
  ASSUME OneInv, Give(Worker) PROVE Single'
<1>1. PICK f, n, g, m : /\ f = frame[Worker] /\ n = size[Worker] /\ g = count[Worker]
                        /\ m = n - g
  OBVIOUS
<1>2. /\ pc[Worker] = "give" /\ g < n /\ pc'[Worker] = "advance"
      /\ count'[Worker] = g + 1 /\ cur'[Worker] = txDesc
      /\ Changed(own', own, txDesc, "dma") /\ Changed(last', last, txDesc, g + 1 = n)
      /\ UNCHANGED <<buf, txDesc, dma, wire, frame, size, calls, refused>>
  BY <1>1, Types DEF Give, dmaVars, taskVars, Changed
<1>3. /\ f \in Nat /\ n \in Nat /\ g \in Nat /\ m \in Nat \ {0} /\ m - 1 = n - (g + 1)
  BY <1>1, <1>2, Types
<1>4. /\ NextGiven = txDesc /\ Ready = m /\ Given = g
      /\ NextGiven' = NextDesc(txDesc) /\ Ready' = m - 1 /\ Given' = g + 1
  BY <1>1, <1>2, <1>3 DEF NextGiven, Ready, Given
<1>5. PICK k \in 0 .. ETH_TXBUFNB : Ring(k)
  BY DEF OneInv, Single
<1>6. /\ Pending(dma, k, txDesc, own) /\ Prepared(dma, k, m, f, g, buf)
      /\ Chained(dma, k, buf, last, wire, refused)
      /\ Newest(Before(dma, k, buf, last, wire), "give", f, n, g, calls, refused)
  BY <1>1, <1>2, <1>4, <1>5 DEF Ring
<1>7. k < ETH_TXBUFNB /\ txDesc = Plus(dma, k)
  BY <1>3, <1>6, EthTxAssumption DEF Pending, Prepared
<1>8. Pending(dma, k + 1, NextDesc(txDesc), own')
  <2>1. dma \in Desc /\ own \in [Desc -> {"dma", "cpu"}] /\ k \in Nat
    BY Types
  <2> QED BY <1>2, <1>6, <1>7, <2>1, GiveRing
<1>9. /\ Prepared(dma, k + 1, m - 1, f, g + 1, buf)
      /\ Chained(dma, k + 1, buf, last', wire, refused)
      /\ Newest(Before(dma, k + 1, buf, last', wire), "advance", f, n, g + 1, calls, refused)
  <2>1. /\ dma \in Desc /\ buf \in [Desc -> Bufs] /\ last \in [Desc -> BOOLEAN]
        /\ wire \in Seq(Segs) /\ k \in Nat
    BY Types
  <2>2. Changed(last', last, Plus(dma, k), g + 1 = n)
    BY <1>2, <1>7
  <2> QED BY <1>2, <1>3, <1>6, <2>1, <2>2, GiveContent
<1>10. LocalInv'
  BY <1>1, <1>2, <1>3 DEF LocalInv
<1>11. Carried(wire, refused)'
  BY <1>2 DEF OneInv, Single
<1>12. Ring(k + 1)'
  BY <1>1, <1>2, <1>4, <1>8, <1>9 DEF Ring
<1>13. k + 1 \in 0 .. ETH_TXBUFNB
  BY <1>7, EthTxAssumption
<1> QED BY <1>10, <1>11, <1>12, <1>13 DEF Single

\* heth.TxDesc and the register hold the same pointer.
LEMMA AdvanceStep ==
  ASSUME OneInv, Advance(Worker) PROVE Single'
<1>1. /\ pc[Worker] = "advance" /\ pc'[Worker] = "give"
      /\ txDesc' \in {NextDesc(txDesc), NextDesc(cur[Worker])}
      /\ UNCHANGED <<own, buf, last, dma, wire, frame, size, calls, refused, lock, count>>
  BY Types DEF Advance, dmaVars, taskVars
<1>2. LocalInv /\ cur[Worker] = txDesc /\ count[Worker] > 0
  BY <1>1 DEF OneInv, Single, LocalInv
<1>3. txDesc' = NextDesc(txDesc)
  BY <1>1, <1>2
<1>4. NextGiven' = NextGiven /\ Ready' = Ready /\ Given' = Given /\ Given > 0
  BY <1>1, <1>2, <1>3 DEF NextGiven, Ready, Given
<1>5. LocalInv'
  BY <1>1, <1>2 DEF LocalInv
<1>6. Carried(wire, refused)'
  BY <1>1 DEF OneInv, Single
<1>7. ASSUME NEW k \in 0 .. ETH_TXBUFNB, Ring(k) PROVE Ring(k)'
  <2>1. PICK x : x = Before(dma, k, buf, last, wire)
    OBVIOUS
  <2>2. Newest(x, "advance", frame[Worker], size[Worker], Given, calls, refused)
    BY <1>1, <1>7, <2>1 DEF Ring
  <2>3. Newest(x, "give", frame[Worker], size[Worker], Given, calls, refused)
    BY <1>4, <2>2, Types DEF Newest, Given
  <2> QED BY <1>1, <1>4, <1>7, <2>1, <2>3 DEF Ring
<1> QED BY <1>5, <1>6, <1>7 DEF OneInv, Single

LEMMA PollStep ==
  ASSUME OneInv, Poll(Worker) PROVE Single'
<1>1. /\ pc[Worker] = "give" /\ pc'[Worker] = "unlock" /\ count[Worker] = size[Worker]
      /\ UNCHANGED <<own, buf, last, txDesc, dma, wire, frame, size, calls, refused, lock, count>>
  BY Types DEF Poll, ringVars, taskVars
<1>2. /\ NextGiven' = NextGiven /\ Ready' = 0 /\ Ready = 0 /\ Given' = Given
      /\ Given = size[Worker] /\ size[Worker] \in Nat \ {0}
  BY <1>1, Types DEF NextGiven, Ready, Given
<1>3. LocalInv'
  BY <1>1 DEF OneInv, Single, LocalInv
<1>4. Carried(wire, refused)'
  BY <1>1 DEF OneInv, Single
<1>5. ASSUME NEW k \in 0 .. ETH_TXBUFNB, Ring(k) PROVE Ring(k)'
  <2>1. PICK x, n : x = Before(dma, k, buf, last, wire) /\ n = size[Worker]
    OBVIOUS
  <2>2. Newest(x, "give", frame[Worker], n, n, calls, refused)
    BY <1>1, <1>2, <1>5, <2>1 DEF Ring
  <2>3. x.ls = (n = n) /\ x.id = frame[Worker] /\ frame[Worker] = calls
    BY <1>2, <2>1, <2>2 DEF Newest
  <2>4. x.ls
    BY <2>3, Zenon
  <2>5. Newest(x, "unlock", frame[Worker], n, n, calls, refused)
    BY <2>3, <2>4 DEF Newest
  <2> QED BY <1>1, <1>2, <1>5, <2>1, <2>5 DEF Ring
<1> QED BY <1>3, <1>4, <1>5 DEF OneInv, Single

LEMMA UnlockStep ==
  ASSUME OneInv, Unlock(Worker) PROVE Single'
<1>1. /\ pc[Worker] = "unlock" /\ pc'[Worker] = "idle" /\ lock' = FALSE
      /\ UNCHANGED <<own, buf, last, txDesc, dma, wire, frame, size, calls, refused, count>>
  BY Types DEF Unlock, ringVars, dmaVars, taskVars
<1>2. NextGiven' = NextGiven /\ Ready' = Ready /\ Given' = Given
  BY <1>1 DEF NextGiven, Ready, Given
<1>3. LocalInv'
  BY <1>1 DEF LocalInv
<1>4. Carried(wire, refused)'
  BY <1>1 DEF OneInv, Single
<1>5. ASSUME NEW k \in 0 .. ETH_TXBUFNB, Ring(k) PROVE Ring(k)'
  <2>1. PICK x : x = Before(dma, k, buf, last, wire)
    OBVIOUS
  <2>2. Newest(x, "unlock", frame[Worker], size[Worker], Given, calls, refused)
    BY <1>1, <1>5, <2>1 DEF Ring
  <2>3. x.ls /\ x.id = calls /\ x.id + 1 .. calls = {}
    BY <2>2, Types DEF Newest
  <2>4. Newest(x, "idle", frame[Worker], size[Worker], Given, calls, refused)
    BY <2>3, Types DEF Newest
  <2> QED BY <1>1, <1>2, <1>5, <2>1, <2>4 DEF Ring
<1> QED BY <1>3, <1>4, <1>5 DEF OneInv, Single

LEMMA DmaSendStep ==
  ASSUME OneInv, DmaSend PROVE Single'
<1>1. PICK x : x = Item(dma, 0, buf, last)
  OBVIOUS
<1>2. dma \in Desc /\ Plus(dma, 0) = dma
  BY Types, PlusEnds
<1>3. x \in Segs
  <2>1. buf[dma] \in Bufs /\ last[dma] \in BOOLEAN
    BY <1>2, Types
  <2> QED BY <1>1, <1>2, <2>1 DEF Item, Bufs, Segs
<1>4. /\ own[dma] = "dma" /\ Changed(own', own, dma, "cpu")
      /\ wire' = Append(wire, x) /\ dma' = NextDesc(dma)
      /\ UNCHANGED <<buf, last, txDesc, lock, pc, frame, size, calls, count, cur, refused>>
  BY <1>1, <1>2 DEF DmaSend, Item, Changed, taskVars
<1>5. NextGiven' = NextGiven /\ Ready' = Ready /\ Given' = Given
  BY <1>4 DEF NextGiven, Ready, Given
<1>6. PICK k \in 0 .. ETH_TXBUFNB : Ring(k)
  BY DEF OneInv, Single
<1>7. k > 0 /\ k \in Nat /\ Pending(NextDesc(dma), k - 1, NextGiven, own')
  <2>1. /\ dma \in Desc /\ own \in [Desc -> {"dma", "cpu"}] /\ k \in Nat
        /\ Pending(dma, k, NextGiven, own)
    BY <1>6, Types DEF Ring
  <2> QED BY <1>4, <2>1, SendRing
<1>8. Carried(wire', refused) /\ wire' # <<>> /\ wire'[Len(wire')] = x
  <2>1. Carried(wire, refused) /\ wire \in Seq(Segs)
    BY Types DEF OneInv, Single
  <2>2. Succeeds(x, Before(dma, 0, buf, last, wire), refused)
    BY <1>1, <1>6, <1>7 DEF Ring, Chained
  <2>3. Before(dma, 0, buf, last, wire) = IF wire = <<>> THEN Nothing ELSE wire[Len(wire)]
    BY DEF Before
  <2> QED BY <1>3, <1>4, <2>1, <2>2, <2>3, AppendWire
<1>9. /\ Prepared(NextDesc(dma), k - 1, Ready, frame[Worker], Given, buf)
      /\ Chained(NextDesc(dma), k - 1, buf, last, wire', refused)
      /\ Before(NextDesc(dma), k - 1, buf, last, wire') = Before(dma, k, buf, last, wire)
  <2>1. /\ dma \in Desc /\ k \in Nat \ {0} /\ Ready \in Nat
        /\ buf \in [Desc -> Bufs] /\ last \in [Desc -> BOOLEAN]
    BY <1>7, Types DEF Ready, OneInv, Single, LocalInv
  <2>2. /\ Prepared(dma, k, Ready, frame[Worker], Given, buf)
        /\ Chained(dma, k, buf, last, wire, refused)
    BY <1>6 DEF Ring
  <2> QED BY <1>1, <1>8, <2>1, <2>2, SendContent
<1>10. LocalInv'
  BY <1>4 DEF OneInv, Single, LocalInv
<1>11. Ring(k - 1)'
  BY <1>4, <1>5, <1>6, <1>7, <1>9 DEF Ring
<1>12. k - 1 \in 0 .. ETH_TXBUFNB
  BY <1>7, EthTxAssumption
<1>13. Carried(wire, refused)'
  BY <1>4, <1>8
<1> QED BY <1>10, <1>11, <1>12, <1>13 DEF Single

\* The interrupt unlocks the handle; the rest leaves the ring alone.
LEMMA OtherStep ==
  ASSUME OneInv, RxInterrupt \/ DmaSuspend \/ UNCHANGED vars PROVE Single'
<1>1. /\ UNCHANGED <<own, buf, last, txDesc, dma, wire, pc, frame, size, calls, count, cur, refused>>
      /\ lock' => lock
  BY DEF RxInterrupt, DmaSuspend, vars, ringVars, dmaVars, taskVars
<1>2. NextGiven' = NextGiven /\ Ready' = Ready /\ Given' = Given
  BY <1>1 DEF NextGiven, Ready, Given
<1>3. LocalInv'
  BY <1>1 DEF OneInv, Single, LocalInv
<1> QED BY <1>1, <1>2, <1>3 DEF OneInv, Single, Ring

LEMMA OneInit == Init => OneInv
<1> SUFFICES ASSUME Init PROVE OneInv
  OBVIOUS
<1>1. TypeInv
  BY InitType
<1>2. /\ pc[Worker] = "idle" /\ ~lock /\ wire = <<>> /\ calls = 0 /\ dma = 0 /\ txDesc = 0
      /\ 0 \in Desc /\ own = [d \in Desc |-> "cpu"]
  BY EthTxAssumption DEF Init, Tasks, Desc
<1>3. NextGiven = 0 /\ Ready = 0
  BY <1>2 DEF NextGiven, Ready
<1>4. Carried(wire, refused)
  BY <1>2 DEF Carried
<1>5. Pending(dma, 0, NextGiven, own)
  BY <1>2, <1>3, PlusInDesc, PlusEnds, EthTxAssumption DEF Pending
<1>6. Prepared(dma, 0, Ready, frame[Worker], Given, buf) /\ Chained(dma, 0, buf, last, wire, refused)
  BY <1>3, EthTxAssumption DEF Prepared, Chained
<1>7. Newest(Before(dma, 0, buf, last, wire), pc[Worker], frame[Worker],
             size[Worker], Given, calls, refused)
  BY <1>2 DEF Newest, Before, Nothing
<1>8. LocalInv
  BY <1>2 DEF LocalInv
<1>9. 0 \in 0 .. ETH_TXBUFNB
  BY EthTxAssumption
<1> QED BY <1>1, <1>4, <1>5, <1>6, <1>7, <1>8, <1>9 DEF OneInv, Single, Ring

\* With one task, the invariant of transmission.
THEOREM Invariance ==
  ASSUME First = Worker PROVE Spec => []OneInv
<1>1. OneInv /\ [Next]_vars => OneInv'
  <2> SUFFICES ASSUME OneInv, [Next]_vars PROVE OneInv'
    OBVIOUS
  <2>1. TypeInv'
    BY NextType DEF OneInv
  <2>2. Tasks = {Worker}
    BY DEF Tasks
  <2>3. CASE \E t \in Tasks : Begin(t) \/ Output(t)
    <3>1. Begin(Worker) \/ Output(Worker)
      BY <2>2, <2>3
    <3>2. Single'
      BY <2>2, <3>1, BeginStep, CopyStep, LockStep, TestOwnStep, GiveStep, AdvanceStep, PollStep, UnlockStep
         DEF Output
    <3> QED BY <2>1, <3>2 DEF OneInv
  <2>4. CASE RxInterrupt \/ Dma \/ UNCHANGED vars
    <3>1. Single'
      BY <2>4, DmaSendStep, OtherStep DEF Dma
    <3> QED BY <2>1, <3>1 DEF OneInv
  <2> QED BY <2>3, <2>4 DEF Next
<1> QED BY <1>1, OneInit, PTL DEF Spec

\* What one task outputs reaches the wire whole and in order, for every size
\* of the ring and every mix of lengths: only refused frames are missing.
THEOREM WireCorrect ==
  ASSUME First = Worker PROVE Spec => []WireIntact
<1>1. OneInv => WireIntact
  BY WireCarried DEF OneInv, Single
<1> QED BY <1>1, Invariance, PTL

\* Between two calls of one task, the CPU and the DMA agree where the next
\* frame goes.
THEOREM RingCorrect ==
  ASSUME First = Worker PROVE Spec => []RingAgreed
<1>1. OneInv => RingAgreed
  <2> SUFFICES ASSUME OneInv, \A t \in Tasks : pc[t] \in {"idle", "copy"}, own[dma] = "cpu"
               PROVE  dma = txDesc /\ \A d \in Desc : own[d] = "cpu"
    BY DEF RingAgreed
  <2>1. PICK k \in 0 .. ETH_TXBUFNB : Ring(k)
    BY DEF OneInv, Single
  <2>2. Pending(dma, k, txDesc, own)
    BY <2>1, Types DEF Ring, NextGiven
  <2>3. k = 0
    <3>1. own[Plus(dma, 0)] # "dma" /\ 0 \in 0 .. ETH_TXBUFNB - 1
      BY Types, PlusEnds
    <3> QED BY <2>2, <3>1 DEF Pending
  <2>4. txDesc = dma
    BY <2>2, <2>3, Types, PlusEnds DEF Pending
  <2>5. ASSUME NEW d \in Desc PROVE own[d] = "cpu"
    <3>1. PICK j \in 0 .. ETH_TXBUFNB - 1 : Plus(dma, j) = d
      BY Types, PlusOnto
    <3>2. own[d] # "dma" /\ own[d] \in {"dma", "cpu"}
      BY <2>2, <2>3, <3>1, Types DEF Pending
    <3> QED BY <3>2
  <2> QED BY <2>4, <2>5
<1> QED BY <1>1, Invariance, PTL

\* HAL_ETH_TransmitFrame never fails the one task that calls it, so nothing is
\* lost by ignoring its result.
THEOREM TransmitSucceeds ==
  ASSUME First = Worker PROVE Spec => []TransmitNeverFails
<1>1. Tasks = {Worker}
  BY DEF Tasks
<1>2. OneInv => TransmitNeverFails
  BY <1>1, NeverFails
<1> QED BY <1>2, Invariance, PTL

=============================================================================
