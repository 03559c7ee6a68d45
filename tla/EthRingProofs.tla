--------------------------- MODULE EthRingProofs ---------------------------
(***************************************************************************)
(* The ring of module EthRx, for every size of the ring and every number   *)
(* and length of frames: RingInv of EthRxInv and what follows from it.     *)
(*                                                                         *)
(* Descriptors are named by their place after the oldest one: the first    *)
(* Scanned places have been scanned, those up to t, which the invariant    *)
(* finds, have been filled, and from t on the DMA owns them.  Backlog is   *)
(* then t - Scanned.                                                       *)
(***************************************************************************)
EXTENDS EthRxInv, EthRxProofs

-----------------------------------------------------------------------------
(* The walk along the ring *)

\* The places from 0 to the size of the ring are descriptors, and both ends
\* are where the walk began.
LEMMA PlusInDesc ==
  \A o \in Desc, k \in 0 .. ETH_RXBUFNB : Plus(o, k) \in Desc
BY EthRxAssumption DEF Plus, Desc

LEMMA PlusEnds == \A o \in Desc : Plus(o, 0) = o /\ Plus(o, ETH_RXBUFNB) = o
BY EthRxAssumption DEF Plus, Desc

\* The places after o are different descriptors ...
LEMMA PlusInjective ==
  \A o \in Desc, j, k \in 0 .. ETH_RXBUFNB - 1 : Plus(o, j) = Plus(o, k) => j = k
BY EthRxAssumption DEF Plus, Desc

\* ... and NextDesc goes from one to the next.
LEMMA NextPlus ==
  \A o \in Desc, k \in 0 .. ETH_RXBUFNB - 1 :
    /\ NextDesc(Plus(o, k)) = Plus(o, k + 1)
    /\ Plus(NextDesc(o), k) = Plus(o, k + 1)
BY EthRxAssumption DEF Plus, NextDesc, Desc

\* Walks add up.
LEMMA PlusPlus ==
  \A o \in Desc, j, k \in 0 .. ETH_RXBUFNB :
    j + k <= ETH_RXBUFNB => Plus(Plus(o, j), k) = Plus(o, j + k)
BY EthRxAssumption DEF Plus, Desc

\* Dist finds the place of a descriptor.
LEMMA DistPlus ==
  /\ \A o, d \in Desc : Dist(o, d) \in 0 .. ETH_RXBUFNB - 1 /\ Plus(o, Dist(o, d)) = d
  /\ \A o \in Desc, k \in 0 .. ETH_RXBUFNB - 1 : Dist(o, Plus(o, k)) = k
BY EthRxAssumption DEF Plus, Dist, Desc

-----------------------------------------------------------------------------
(* The ring and its contents *)

\* From o on the CPU owns t descriptors; s of them have been scanned.
Lies(o, s, t, rx, dm, ow) ==
  /\ s <= t /\ t <= ETH_RXBUFNB
  /\ rx = Plus(o, s) /\ dm = Plus(o, t)
  /\ \A k \in 0 .. ETH_RXBUFNB - 1 : ow[Plus(o, k)] = "cpu" <=> k < t

\* What the scanned descriptors hold while eth0 is at p.
Read(o, s, id, p, ds) ==
  \A k \in 0 .. s - 1 :
    /\ ds[Plus(o, k)].id = id
    /\ p # "release" => ds[Plus(o, k)].seg = k + 1
    /\ p \in {"wait", "enter", "scan"} => ~ds[Plus(o, k)].ls
    /\ p = "alloc" => (ds[Plus(o, k)].ls <=> k = s - 1)

\* Those filled and not scanned start with segment seg of frame id, each is
\* followed by what comes next, and so their frames are in order.
Filled(o, s, t, id, seg, ds) ==
  /\ \A k \in s .. t - 1 : WellFormed(ds[Plus(o, k)]) /\ ds[Plus(o, k)].id >= id
  /\ s < t => ds[Plus(o, s)].id = id /\ ds[Plus(o, s)].seg = seg
  /\ \A k \in s .. t - 2 : Follows(ds[Plus(o, k + 1)], ds[Plus(o, k)])
  /\ \A j, k \in s .. t - 1 : j < k =>
       /\ ds[Plus(o, j)].id <= ds[Plus(o, k)].id
       /\ ds[Plus(o, j)].ls => ds[Plus(o, j)].id < ds[Plus(o, k)].id
       /\ ds[Plus(o, k)].id <= ds[Plus(o, j)].id + (k - j)

\* The DMA, which has begun frame sn and stored ar segments of it if it is not
\* complete, goes on where the newest descriptor ends.
GoesOn(o, s, t, id, seg, ds, ar, sn) ==
  /\ s < t => /\ ds[Plus(o, t - 1)].id = sn
              /\ ar = IF ds[Plus(o, t - 1)].ls THEN 0 ELSE ds[Plus(o, t - 1)].seg
  /\ s = t => ar = seg - 1 /\ sn = IF seg = 1 THEN id - 1 ELSE id
  /\ ar > 0 => t < ETH_RXBUFNB

Queue(t) ==
  /\ LocalInv
  /\ Scanning => segCount < MaxSegs
  /\ Lies(Oldest, Scanned, t, rxDesc, dma, own)
  /\ Read(Oldest, Scanned, ScannedId, pc, desc)
  /\ Filled(Oldest, Scanned, t, NextId, NextSeg, desc)
  /\ GoesOn(Oldest, Scanned, t, NextId, NextSeg, desc, arriving.seg, sent)
  /\ isr = "clear" => sem = 1
  /\ EthBlocked /\ ~rs => \A k \in Scanned .. t - 1 : ~desc[Plus(Oldest, k)].ls

\* The invariant of reception.  The frame in eth0's hand is whole, and eth0
\* returns it: it goes to sleep only from the scan.
ReceptionInv ==
  failed \/ /\ IsWholeFrame
            /\ pc = "resume" => hand # <<>>
            /\ \E t \in 0 .. ETH_RXBUFNB : Queue(t)

-----------------------------------------------------------------------------
(* How the steps of the DMA and of eth0 move the ring *)

Segs == [id : Nat, seg : Nat, fs : BOOLEAN, ls : BOOLEAN]

\* The descriptor the DMA owns is at place t, and becomes the CPU's.
LEMMA StoreRing ==
  ASSUME NEW o \in Desc, NEW s \in Nat, NEW t \in Nat, NEW rx, NEW dm,
         NEW ow \in [Desc -> {"dma", "cpu"}],
         Lies(o, s, t, rx, dm, ow), ow[dm] = "dma",
         NEW new, new = [ow EXCEPT ![dm] = "cpu"]
  PROVE  /\ t < ETH_RXBUFNB
         /\ Lies(o, s, t + 1, rx, NextDesc(dm), new)
         /\ ow[NextDesc(dm)] = "dma" /\ NextDesc(dm) # dm => t + 1 < ETH_RXBUFNB
<1>1. t \in 0 .. ETH_RXBUFNB /\ ETH_RXBUFNB \in Nat \ {0}
  BY EthRxAssumption DEF Lies
<1>2. t < ETH_RXBUFNB
  <2>1. SUFFICES ASSUME t = ETH_RXBUFNB PROVE FALSE
    BY <1>1
  <2>2. dm = o /\ o = Plus(o, 0)
    BY <2>1, PlusEnds DEF Lies
  <2>3. ow[Plus(o, 0)] = "cpu"
    BY <1>1, <2>1 DEF Lies
  <2> QED BY <2>2, <2>3
<1>3. NextDesc(dm) = Plus(o, t + 1)
  BY <1>1, <1>2, NextPlus DEF Lies
<1>4. ASSUME NEW k \in 0 .. ETH_RXBUFNB - 1
      PROVE  new[Plus(o, k)] = "cpu" <=> k < t + 1
  <2>1. Plus(o, k) \in Desc /\ dm \in Desc
    BY <1>1, <1>2, PlusInDesc DEF Lies
  <2>2. CASE k = t
    BY <2>1, <2>2, <1>1 DEF Lies
  <2>3. CASE k # t
    <3>1. Plus(o, k) # dm
      BY <1>1, <1>2, <2>3, PlusInjective DEF Lies
    <3> QED BY <1>1, <2>1, <2>3, <3>1 DEF Lies
  <2> QED BY <2>2, <2>3
<1>5. ow[NextDesc(dm)] = "dma" /\ NextDesc(dm) # dm => t + 1 < ETH_RXBUFNB
  <2>1. SUFFICES ASSUME t + 1 = ETH_RXBUFNB, NextDesc(dm) # dm PROVE ow[NextDesc(dm)] = "cpu"
    BY <1>1, <1>2
  <2>2. NextDesc(dm) = Plus(o, 0) /\ dm = Plus(o, t)
    BY <1>3, <2>1, PlusEnds DEF Lies
  <2> QED BY <1>1, <2>1, <2>2 DEF Lies
<1> QED
  BY <1>1, <1>2, <1>3, <1>4, <1>5 DEF Lies

\* eth0 scans the descriptor at place s, if the DMA has filled it.
LEMMA ScanRing ==
  ASSUME NEW o \in Desc, NEW s \in Nat, NEW t \in Nat, NEW rx, NEW dm, NEW ow,
         Lies(o, s, t, rx, dm, ow), s < ETH_RXBUFNB
  PROVE  /\ ow[rx] = "cpu" <=> s < t
         /\ s < t => Lies(o, s + 1, t, NextDesc(rx), dm, ow)
BY NextPlus, EthRxAssumption DEF Lies

\* eth0 gives the oldest descriptor back.
LEMMA ReleaseRing ==
  ASSUME NEW o \in Desc, NEW s \in Nat \ {0}, NEW t \in Nat, NEW rx, NEW dm,
         NEW ow \in [Desc -> {"dma", "cpu"}], Lies(o, s, t, rx, dm, ow),
         NEW new, new = [ow EXCEPT ![o] = "dma"]
  PROVE  Lies(NextDesc(o), s - 1, t - 1, rx, dm, new)
<1>1. /\ t \in 1 .. ETH_RXBUFNB /\ s \in 1 .. ETH_RXBUFNB /\ ETH_RXBUFNB \in Nat \ {0}
      /\ o = Plus(o, 0) /\ o = Plus(o, ETH_RXBUFNB)
  BY PlusEnds, EthRxAssumption DEF Lies
<1>2. \A k \in 0 .. ETH_RXBUFNB - 1 : Plus(NextDesc(o), k) = Plus(o, k + 1)
  BY NextPlus
<1>3. rx = Plus(NextDesc(o), s - 1) /\ dm = Plus(NextDesc(o), t - 1)
  BY <1>1, <1>2 DEF Lies
<1>4. ASSUME NEW k \in 0 .. ETH_RXBUFNB - 1
      PROVE  new[Plus(NextDesc(o), k)] = "cpu" <=> k < t - 1
  <2>1. Plus(o, k + 1) \in Desc
    BY <1>1, PlusInDesc
  <2>2. CASE k = ETH_RXBUFNB - 1
    <3>1. Plus(NextDesc(o), k) = o
      BY <1>1, <1>2, <2>2
    <3> QED BY <1>1, <2>2, <3>1
  <2>3. CASE k < ETH_RXBUFNB - 1
    <3>1. Plus(o, k + 1) # Plus(o, 0)
      BY <1>1, <2>3, PlusInjective
    <3>2. ow[Plus(o, k + 1)] = "cpu" <=> k + 1 < t
      BY <1>1, <2>3 DEF Lies
    <3> QED BY <1>1, <1>2, <2>1, <3>1, <3>2
  <2> QED BY <1>1, <2>2, <2>3
<1> QED
  BY <1>1, <1>3, <1>4 DEF Lies

\* The DMA stores segment x at place t: the contents ds become new, and ar
\* segments stored of frame sn become ar2 of frame x.id.
Stores(o, t, ds, ar, sn, x, new, ar2) ==
  /\ x \in Segs
  /\ x.id = (IF ar = 0 THEN sn + 1 ELSE sn) /\ x.seg = ar + 1
  /\ x.fs <=> ar + 1 = 1
  /\ ~x.ls => ar + 1 < MaxSegs /\ t + 1 < ETH_RXBUFNB
  /\ new = [ds EXCEPT ![Plus(o, t)] = x]
  /\ ar2 = IF x.ls THEN 0 ELSE ar + 1

LEMMA StoreContent ==
  ASSUME NEW o \in Desc, NEW s \in Nat, NEW t \in Nat, s <= t, t < ETH_RXBUFNB,
         NEW id \in Nat \ {0}, NEW seg \in Nat \ {0},
         NEW ds \in [Desc -> Segs], NEW ar \in Nat, NEW sn \in Nat,
         Filled(o, s, t, id, seg, ds), GoesOn(o, s, t, id, seg, ds, ar, sn),
         NEW x, NEW new, NEW ar2, Stores(o, t, ds, ar, sn, x, new, ar2)
  PROVE  /\ \A k \in 0 .. t - 1 : new[Plus(o, k)] = ds[Plus(o, k)]
         /\ new[Plus(o, t)] = x
         /\ Filled(o, s, t + 1, id, seg, new)
         /\ GoesOn(o, s, t + 1, id, seg, new, ar2, x.id)
<1> USE DEF Stores
<1>1. /\ ETH_RXBUFNB \in Nat \ {0}
      /\ \A k \in 0 .. t : Plus(o, k) \in Desc
  BY PlusInDesc, EthRxAssumption
<1>2. new[Plus(o, t)] = x
  BY <1>1
<1>3. ASSUME NEW k \in 0 .. t - 1 PROVE new[Plus(o, k)] = ds[Plus(o, k)]
  <2>1. Plus(o, k) # Plus(o, t)
    BY <1>1, PlusInjective
  <2> QED BY <1>1, <2>1
<1>4. s < t => /\ Follows(x, ds[Plus(o, t - 1)])
               /\ WellFormed(ds[Plus(o, t - 1)]) /\ ds[Plus(o, t - 1)].id >= id
  <2> SUFFICES ASSUME s < t
               PROVE  /\ Follows(x, ds[Plus(o, t - 1)])
                      /\ WellFormed(ds[Plus(o, t - 1)]) /\ ds[Plus(o, t - 1)].id >= id
    OBVIOUS
  <2>1. WellFormed(ds[Plus(o, t - 1)]) /\ ds[Plus(o, t - 1)].id >= id
    BY DEF Filled
  <2>2. /\ ds[Plus(o, t - 1)] \in Segs /\ ds[Plus(o, t - 1)].id = sn
        /\ ar = IF ds[Plus(o, t - 1)].ls THEN 0 ELSE ds[Plus(o, t - 1)].seg
    BY <1>1 DEF GoesOn
  <2>3. Follows(x, ds[Plus(o, t - 1)])
    BY <2>1, <2>2 DEF Follows, WellFormed
  <2> QED BY <2>1, <2>3
<1>5. s = t => x.id = id /\ x.seg = seg
  BY DEF GoesOn
<1>6. WellFormed(x) /\ x.id >= id
  <2>1. x.id >= id
    <3>1. CASE s < t
      <4>1. ds[Plus(o, t - 1)] \in Segs
        BY <3>1, <1>1
      <4> QED BY <3>1, <4>1, <1>4 DEF Follows, Segs
    <3>2. CASE s = t  BY <3>2, <1>5
    <3> QED BY <3>1, <3>2
  <2>2. (x.fs <=> x.seg = 1) /\ (~x.ls => x.seg < MaxSegs)
    OBVIOUS
  <2>3. x.id > 0 /\ x.seg > 0
    BY <2>1 DEF Segs
  <2> QED BY <2>1, <2>2, <2>3 DEF WellFormed
<1>7. Filled(o, s, t + 1, id, seg, new)
  <2>1. ASSUME NEW k \in s .. t + 1 - 1
        PROVE  WellFormed(new[Plus(o, k)]) /\ new[Plus(o, k)].id >= id
    <3>1. CASE k = t  BY <3>1, <1>2, <1>6
    <3>2. CASE k < t  BY <3>2, <1>3 DEF Filled
    <3> QED BY <3>1, <3>2
  <2>2. new[Plus(o, s)].id = id /\ new[Plus(o, s)].seg = seg
    <3>1. CASE s = t  BY <3>1, <1>2, <1>5
    <3>2. CASE s < t  BY <3>2, <1>3 DEF Filled
    <3> QED BY <3>1, <3>2
  <2>3. ASSUME NEW k \in s .. t + 1 - 2
        PROVE  Follows(new[Plus(o, k + 1)], new[Plus(o, k)])
    <3>1. CASE k = t - 1  BY <3>1, <1>2, <1>3, <1>4
    <3>2. CASE k < t - 1
      <4>1. new[Plus(o, k)] = ds[Plus(o, k)] /\ new[Plus(o, k + 1)] = ds[Plus(o, k + 1)]
        BY <3>2, <1>3
      <4> QED BY <3>2, <4>1 DEF Filled
    <3> QED BY <3>1, <3>2
  <2>4. ASSUME NEW j \in s .. t + 1 - 1, NEW k \in s .. t + 1 - 1, j < k
        PROVE  /\ new[Plus(o, j)].id <= new[Plus(o, k)].id
               /\ new[Plus(o, j)].ls => new[Plus(o, j)].id < new[Plus(o, k)].id
               /\ new[Plus(o, k)].id <= new[Plus(o, j)].id + (k - j)
    <3>1. new[Plus(o, j)] = ds[Plus(o, j)] /\ ds[Plus(o, j)] \in Segs
      BY <1>1, <1>3, <2>4
    <3>2. CASE k < t
      BY <3>1, <3>2, <1>3, <2>4 DEF Filled
    <3>3. CASE k = t
      <4> DEFINE y == ds[Plus(o, t - 1)]
      <4>1. s < t /\ y \in Segs /\ Follows(x, y)
        BY <1>1, <1>4, <2>4, <3>3
      <4>2. y.id <= x.id /\ (y.ls => y.id < x.id) /\ x.id <= y.id + 1
        BY <4>1 DEF Follows, Segs
      <4>3. CASE j = t - 1  BY <4>2, <4>3, <3>1, <3>3, <1>2
      <4>4. CASE j < t - 1
        <5>1. /\ ds[Plus(o, j)].id <= y.id /\ (ds[Plus(o, j)].ls => ds[Plus(o, j)].id < y.id)
              /\ y.id <= ds[Plus(o, j)].id + (t - 1 - j)
          BY <4>4, <2>4 DEF Filled
        <5> QED BY <5>1, <4>1, <4>2, <3>1, <3>3, <1>2 DEF Segs
      <4> QED BY <4>3, <4>4, <3>3, <2>4
    <3> QED BY <3>2, <3>3
  <2> QED BY <2>1, <2>2, <2>3, <2>4 DEF Filled
<1>8. GoesOn(o, s, t + 1, id, seg, new, ar2, x.id)
  BY <1>2, <1>1 DEF GoesOn
<1> QED BY <1>2, <1>3, <1>7, <1>8

\* eth0 scans the segment at place s.
LEMMA ScanContent ==
  ASSUME NEW o \in Desc, NEW s \in Nat, NEW t \in Nat, s < t, t <= ETH_RXBUFNB,
         NEW id \in Nat \ {0}, NEW seg \in Nat \ {0},
         NEW ds \in [Desc -> Segs], NEW ar \in Nat, NEW sn \in Nat,
         Filled(o, s, t, id, seg, ds), GoesOn(o, s, t, id, seg, ds, ar, sn),
         NEW x, x = ds[Plus(o, s)]
  PROVE  /\ WellFormed(x) /\ x.id = id /\ x.seg = seg
         /\ ~x.ls => /\ Filled(o, s + 1, t, id, seg + 1, ds)
                     /\ GoesOn(o, s + 1, t, id, seg + 1, ds, ar, sn)
         /\ x.ls => /\ Filled(o, s + 1, t, id + 1, 1, ds)
                    /\ GoesOn(o, s + 1, t, id + 1, 1, ds, ar, sn)
<1>1. \A k \in 0 .. t - 1 : ds[Plus(o, k)] \in Segs
  BY PlusInDesc, EthRxAssumption
<1>2. WellFormed(x) /\ x.id = id /\ x.seg = seg
  BY DEF Filled
<1>3. s + 1 < t => Follows(ds[Plus(o, s + 1)], x)
  BY DEF Filled
<1>4. ASSUME ~x.ls
      PROVE  /\ Filled(o, s + 1, t, id, seg + 1, ds)
             /\ GoesOn(o, s + 1, t, id, seg + 1, ds, ar, sn)
  <2>1. Filled(o, s + 1, t, id, seg + 1, ds)
    BY <1>2, <1>3, <1>4 DEF Filled, Follows
  <2>2. GoesOn(o, s + 1, t, id, seg + 1, ds, ar, sn)
    BY <1>2, <1>4 DEF GoesOn
  <2> QED BY <2>1, <2>2
<1>5. ASSUME x.ls
      PROVE  /\ Filled(o, s + 1, t, id + 1, 1, ds)
             /\ GoesOn(o, s + 1, t, id + 1, 1, ds, ar, sn)
  <2>1. \A k \in s + 1 .. t - 1 : ds[Plus(o, k)].id >= id + 1
    BY <1>1, <1>2, <1>5 DEF Filled, Segs
  <2>2. Filled(o, s + 1, t, id + 1, 1, ds)
    BY <1>2, <1>3, <1>5, <2>1 DEF Filled, Follows
  <2>3. GoesOn(o, s + 1, t, id + 1, 1, ds, ar, sn)
    BY <1>2, <1>5 DEF GoesOn
  <2> QED BY <2>2, <2>3
<1> QED BY <1>2, <1>4, <1>5

\* eth0 gives the oldest descriptor back: every place is one less.
LEMMA ReleaseContent ==
  ASSUME NEW o \in Desc, NEW s \in Nat \ {0}, NEW t \in Nat, s <= t, t <= ETH_RXBUFNB,
         NEW id, NEW seg, NEW ds, NEW ar, NEW sn, NEW rd,
         Read(o, s, rd, "release", ds),
         Filled(o, s, t, id, seg, ds), GoesOn(o, s, t, id, seg, ds, ar, sn),
         ar \in Nat
  PROVE  /\ Read(NextDesc(o), s - 1, rd, "release", ds)
         /\ Filled(NextDesc(o), s - 1, t - 1, id, seg, ds)
         /\ GoesOn(NextDesc(o), s - 1, t - 1, id, seg, ds, ar, sn)
<1>1. \A k \in 0 .. t - 1 : Plus(NextDesc(o), k) = Plus(o, k + 1)
  BY NextPlus, EthRxAssumption
<1>2. Read(NextDesc(o), s - 1, rd, "release", ds)
  BY <1>1 DEF Read
<1>3. Filled(NextDesc(o), s - 1, t - 1, id, seg, ds)
  <2>1. ASSUME NEW j \in s - 1 .. t - 1 - 1, NEW k \in s - 1 .. t - 1 - 1, j < k
        PROVE  /\ ds[Plus(NextDesc(o), j)].id <= ds[Plus(NextDesc(o), k)].id
               /\ ds[Plus(NextDesc(o), j)].ls =>
                    ds[Plus(NextDesc(o), j)].id < ds[Plus(NextDesc(o), k)].id
               /\ ds[Plus(NextDesc(o), k)].id <= ds[Plus(NextDesc(o), j)].id + (k - j)
    <3>1. (k + 1) - (j + 1) = k - j /\ j + 1 \in s .. t - 1 /\ k + 1 \in s .. t - 1 /\ j + 1 < k + 1
      BY <2>1
    <3>2. /\ ds[Plus(o, j + 1)].id <= ds[Plus(o, k + 1)].id
          /\ ds[Plus(o, j + 1)].ls => ds[Plus(o, j + 1)].id < ds[Plus(o, k + 1)].id
          /\ ds[Plus(o, k + 1)].id <= ds[Plus(o, j + 1)].id + ((k + 1) - (j + 1))
      BY <3>1 DEF Filled
    <3> QED BY <1>1, <3>1, <3>2
  <2>2. \A k \in s - 1 .. t - 1 - 1 :
          WellFormed(ds[Plus(NextDesc(o), k)]) /\ ds[Plus(NextDesc(o), k)].id >= id
    BY <1>1 DEF Filled
  <2>3. /\ s - 1 < t - 1 => /\ ds[Plus(NextDesc(o), s - 1)].id = id
                            /\ ds[Plus(NextDesc(o), s - 1)].seg = seg
        /\ \A k \in s - 1 .. t - 1 - 2 :
             Follows(ds[Plus(NextDesc(o), k + 1)], ds[Plus(NextDesc(o), k)])
    BY <1>1 DEF Filled
  <2> QED BY <2>1, <2>2, <2>3 DEF Filled
<1>4. GoesOn(NextDesc(o), s - 1, t - 1, id, seg, ds, ar, sn)
  BY <1>1, EthRxAssumption DEF GoesOn
<1> QED BY <1>2, <1>3, <1>4

-----------------------------------------------------------------------------
(* The invariant, a step at a time *)

\* What the places and numbers of the invariant are.
LEMMA QueueTypes ==
  ASSUME TypeOK, LocalInv
  PROVE  /\ Oldest \in Desc /\ Scanned \in Nat
         /\ ScannedId \in Nat /\ NextId \in Nat \ {0} /\ NextSeg \in Nat \ {0}
         /\ desc \in [Desc -> Segs]
BY DEF TypeOK, LocalInv, Oldest, Scanned, ScannedId, NextId, NextSeg, Scanning, Segment, Segs

\* The ring begins empty.
LEMMA InitQueue == Init => ReceptionInv
<1> SUFFICES ASSUME Init PROVE IsWholeFrame /\ pc # "resume" /\ Queue(0)
  BY EthRxAssumption DEF ReceptionInv
<1> USE DEF Init
<1>1. Oldest = 0 /\ Scanned = 0 /\ NextId = 1 /\ NextSeg = 1 /\ 0 \in Desc
  BY EthRxAssumption DEF Oldest, Scanned, NextId, NextSeg, Scanning, Desc
<1>2. Lies(0, 0, 0, rxDesc, dma, own)
  BY <1>1, PlusEnds, PlusInDesc, EthRxAssumption DEF Lies
<1>3. LocalInv /\ segCount < MaxSegs /\ ~EthBlocked /\ IsWholeFrame
  BY EthRxAssumption DEF LocalInv, EthBlocked, IsWholeFrame
<1>4. Read(0, 0, ScannedId, pc, desc) /\ Filled(0, 0, 0, 1, 1, desc)
  BY DEF Read, Filled
<1>5. GoesOn(0, 0, 0, 1, 1, desc, arriving.seg, sent)
  BY EthRxAssumption DEF GoesOn
<1> QED BY <1>1, <1>2, <1>3, <1>4, <1>5 DEF Queue

\* A step that moves nothing in the ring, whatever it does to eth0's place.
LEMMA Unmoved ==
  ASSUME NEW t \in Nat, Queue(t),
         UNCHANGED <<own, desc, dma, arriving, sent, rxDesc>>,
         Oldest' = Oldest, Scanned' = Scanned,
         NextId' = NextId, NextSeg' = NextSeg,
         Read(Oldest, Scanned, ScannedId', pc', desc),
         LocalInv', Scanning' => segCount' < MaxSegs,
         isr' = "clear" => sem' = 1,
         EthBlocked' /\ ~rs' => (EthBlocked /\ ~rs) \/ Scanned = t
  PROVE  Queue(t)'
<1>1. EthBlocked' /\ ~rs' => \A k \in Scanned' .. t - 1 : ~desc'[Plus(Oldest', k)].ls
  <2>1. CASE EthBlocked /\ ~rs  BY <2>1 DEF Queue
  <2>2. CASE Scanned = t
    <3>1. Scanned .. t - 1 = {} BY <2>2
    <3> QED BY <3>1
  <2> QED BY <2>1, <2>2
<1>2. Lies(Oldest, Scanned, t, rxDesc, dma, own)'
  BY DEF Queue
<1>3. Filled(Oldest, Scanned, t, NextId, NextSeg, desc)'
  BY DEF Queue
<1>4. GoesOn(Oldest, Scanned, t, NextId, NextSeg, desc, arriving.seg, sent)'
  BY DEF Queue
<1>5. Read(Oldest, Scanned, ScannedId, pc, desc)'
  OBVIOUS
<1> QED BY <1>1, <1>2, <1>3, <1>4, <1>5 DEF Queue

\* The DMA stores a segment.
LEMMA StoreQueue ==
  ASSUME TypeInv, NEW t \in Nat, Queue(t), NEW size \in 1 .. MaxSegs, Store(size),
         arriving.seg < size
  PROVE  Queue(t + 1)'
<1> DEFINE k    == arriving.seg + 1
           last == k = size \/ own[NextDesc(dma)] # "dma" \/ NextDesc(dma) = dma
           id   == IF k = 1 THEN sent + 1 ELSE sent
           x    == [id |-> id, seg |-> k, fs |-> k = 1, ls |-> last]
<1> USE DEF TypeInv, TypeOK
<1>1. /\ Oldest \in Desc /\ Scanned \in Nat
      /\ NextId \in Nat \ {0} /\ NextSeg \in Nat \ {0} /\ desc \in [Desc -> Segs]
  BY QueueTypes DEF Queue
<1>2. /\ UNCHANGED <<pc, segCount, count, rxDesc, fsDesc, relDesc, length, taken, isr, sem>>
      /\ Oldest' = Oldest /\ Scanned' = Scanned
      /\ ScannedId' = ScannedId /\ NextId' = NextId /\ NextSeg' = NextSeg
  BY DEF Store, hethVars, ethVars, Oldest, Scanned, ScannedId, NextId, NextSeg, Scanning
<1>3. LocalInv' /\ (Scanning' => segCount' < MaxSegs) /\ (isr' = "clear" => sem' = 1)
  BY <1>2 DEF Queue, LocalInv, Scanning
<1>4. /\ own[dma] = "dma" /\ own' = [own EXCEPT ![dma] = "cpu"]
      /\ desc' = [desc EXCEPT ![dma] = x] /\ dma' = NextDesc(dma) /\ sent' = id
      /\ arriving'.seg = (IF last THEN 0 ELSE k) /\ rs' = (rs \/ last)
  BY DEF Store
<1>5. /\ t < ETH_RXBUFNB /\ Scanned <= t /\ dma = Plus(Oldest, t)
      /\ Lies(Oldest, Scanned, t + 1, rxDesc, NextDesc(dma), own')
      /\ ~last => t + 1 < ETH_RXBUFNB
  <2>1. Lies(Oldest, Scanned, t, rxDesc, dma, own) BY DEF Queue
  <2>2. own \in [Desc -> {"dma", "cpu"}] OBVIOUS
  <2>3. ~last => own[NextDesc(dma)] = "dma" /\ NextDesc(dma) # dma OBVIOUS
  <2> HIDE DEF last, TypeInv, TypeOK
  <2>4. /\ t < ETH_RXBUFNB
        /\ Lies(Oldest, Scanned, t + 1, rxDesc, NextDesc(dma), own')
        /\ own[NextDesc(dma)] = "dma" /\ NextDesc(dma) # dma => t + 1 < ETH_RXBUFNB
    <3>1. own[dma] = "dma" /\ own' = [own EXCEPT ![dma] = "cpu"]
      BY <1>4
    <3> QED BY <2>1, <2>2, <1>1, <3>1, StoreRing
  <2> QED BY <2>1, <2>3, <2>4, <1>4 DEF Lies
<1>6. x \in Segs /\ last \in BOOLEAN /\ (~last => k < MaxSegs) /\ id = x.id
  <2>1. last \in BOOLEAN /\ (~last => k < MaxSegs) /\ id \in Nat /\ k \in Nat
    BY EthRxAssumption
  <2> QED BY <2>1 DEF Segs
<1>7. /\ \A j \in 0 .. t - 1 : desc'[Plus(Oldest, j)] = desc[Plus(Oldest, j)]
      /\ desc'[Plus(Oldest, t)] = x
      /\ Filled(Oldest, Scanned, t + 1, NextId, NextSeg, desc')
      /\ GoesOn(Oldest, Scanned, t + 1, NextId, NextSeg, desc', arriving'.seg, x.id)
  <2>1. /\ Filled(Oldest, Scanned, t, NextId, NextSeg, desc)
        /\ GoesOn(Oldest, Scanned, t, NextId, NextSeg, desc, arriving.seg, sent)
    BY DEF Queue
  <2>2. /\ x.id = (IF arriving.seg = 0 THEN sent + 1 ELSE sent)
        /\ x.seg = arriving.seg + 1 /\ (x.fs <=> arriving.seg + 1 = 1)
        /\ (x.ls <=> last) /\ arriving.seg \in Nat /\ sent \in Nat
    <3>1. arriving.seg \in Nat /\ sent \in Nat
      OBVIOUS
    <3>2. k = 1 <=> arriving.seg = 0
      BY <3>1
    <3> HIDE DEF last, TypeInv, TypeOK
    <3> QED BY <3>1, <3>2
  <2>3. desc' = [desc EXCEPT ![Plus(Oldest, t)] = x]
    BY <1>4, <1>5
  <2> HIDE DEF x, last, TypeInv, TypeOK
  <2>4. Stores(Oldest, t, desc, arriving.seg, sent, x, desc', arriving'.seg)
    BY <1>4, <1>5, <1>6, <2>2, <2>3 DEF Stores
  <2> QED BY <1>1, <1>5, <2>1, <2>2, <2>4, StoreContent
<1> HIDE DEF x, last, id
<1>8. Read(Oldest, Scanned, ScannedId, pc, desc)'
  <2>1. \A j \in 0 .. Scanned - 1 : desc'[Plus(Oldest, j)] = desc[Plus(Oldest, j)]
    BY <1>1, <1>5, <1>7
  <2> QED BY <1>2, <2>1 DEF Queue, Read
<1>9. EthBlocked' /\ ~rs' => \A j \in Scanned' .. t + 1 - 1 : ~desc'[Plus(Oldest', j)].ls
  <2> SUFFICES ASSUME EthBlocked', ~rs', NEW j \in Scanned .. t PROVE ~desc'[Plus(Oldest, j)].ls
    BY <1>1, <1>2
  <2>1. EthBlocked /\ ~rs /\ ~last
    BY <1>2, <1>4 DEF EthBlocked
  <2>2. CASE j = t  BY <2>1, <2>2, <1>7 DEF x
  <2>3. CASE j < t  BY <2>1, <2>3, <1>1, <1>7 DEF Queue
  <2> QED BY <2>2, <2>3, <1>1
<1> QED
  BY <1>2, <1>3, <1>4, <1>5, <1>6, <1>7, <1>8, <1>9 DEF Queue

\* eth0 scans one descriptor: a first segment, one in between, or the last.
LEMMA ScanQueue ==
  ASSUME TypeInv, NEW t \in 0 .. ETH_RXBUFNB, Queue(t),
         ScanFirst \/ ScanMiddle \/ ScanLast
  PROVE  Queue(t)'
<1> DEFINE x == desc[rxDesc]
<1> USE DEF TypeInv, TypeOK
<1>1. /\ Oldest \in Desc /\ Scanned = segCount /\ segCount \in Nat /\ taken \in Nat
      /\ ScannedId = taken + 1 /\ NextId = taken + 1 /\ NextSeg = segCount + 1
      /\ desc \in [Desc -> Segs] /\ segCount < MaxSegs /\ MaxSegs <= ETH_RXBUFNB
      /\ pc = "scan" /\ count <= segCount /\ arriving.seg \in Nat /\ sent \in Nat
  <2>1. pc = "scan"
    BY DEF ScanFirst, ScanMiddle, ScanLast
  <2>2. Scanned = segCount /\ ScannedId = taken + 1 /\ NextId = taken + 1 /\ NextSeg = segCount + 1
    BY <2>1 DEF Scanned, ScannedId, NextId, NextSeg, Scanning
  <2>3. segCount < MaxSegs /\ count <= segCount /\ Oldest \in Desc /\ desc \in [Desc -> Segs]
    BY <2>1, QueueTypes DEF Queue, LocalInv, Scanning
  <2> QED BY <2>1, <2>2, <2>3, EthRxAssumption
<1>2. /\ own[rxDesc] = "cpu" /\ rxDesc' = NextDesc(rxDesc) /\ count' = count + 1
      /\ segCount' = (IF x.fs /\ ~x.ls THEN 1 ELSE segCount + 1)
      /\ x.fs /\ ~x.ls => fsDesc' = rxDesc /\ pc' = "scan"
      /\ ~x.fs /\ ~x.ls => fsDesc' = fsDesc /\ pc' = "scan"
      /\ x.ls => /\ fsDesc' = (IF segCount + 1 = 1 THEN rxDesc ELSE fsDesc)
                 /\ pc' = "alloc" /\ length' = x.seg
      /\ isr = "idle"
      /\ UNCHANGED <<own, desc, dma, arriving, sent, rs, isr, sem, taken>>
  BY DEF ScanFirst, ScanMiddle, ScanLast, Scannable, dmaVars, irqVars, ethVars
<1>3. /\ Lies(Oldest, segCount, t, rxDesc, dma, own)
      /\ Filled(Oldest, segCount, t, taken + 1, segCount + 1, desc)
      /\ GoesOn(Oldest, segCount, t, taken + 1, segCount + 1, desc, arriving.seg, sent)
      /\ Read(Oldest, segCount, taken + 1, pc, desc)
  BY <1>1 DEF Queue
<1>4. /\ segCount < t /\ t \in Nat /\ t <= ETH_RXBUFNB /\ rxDesc = Plus(Oldest, segCount)
      /\ Lies(Oldest, segCount + 1, t, NextDesc(rxDesc), dma, own)
  <2> HIDE DEF TypeInv, TypeOK, x
  <2> QED BY <1>1, <1>2, <1>3, ScanRing, EthRxAssumption DEF Lies
<1>5. /\ WellFormed(x) /\ x.id = taken + 1 /\ x.seg = segCount + 1
      /\ ~x.ls => /\ Filled(Oldest, segCount + 1, t, taken + 1, segCount + 1 + 1, desc)
                  /\ GoesOn(Oldest, segCount + 1, t, taken + 1, segCount + 1 + 1, desc, arriving.seg, sent)
      /\ x.ls => /\ Filled(Oldest, segCount + 1, t, taken + 1 + 1, 1, desc)
                 /\ GoesOn(Oldest, segCount + 1, t, taken + 1 + 1, 1, desc, arriving.seg, sent)
  <2>1. x = desc[Plus(Oldest, segCount)] BY <1>4
  <2>2. taken + 1 \in Nat \ {0} /\ segCount + 1 \in Nat \ {0} OBVIOUS
  <2> HIDE DEF TypeInv, TypeOK, x
  <2> QED BY <2>1, <2>2, <1>1, <1>3, <1>4, ScanContent
<1>6. segCount' = segCount + 1 /\ Oldest' = Oldest /\ Scanned' = segCount + 1
  <2>1. x.fs <=> segCount = 0
    BY <1>1, <1>5 DEF WellFormed
  <2>2. segCount' = segCount + 1
    BY <1>1, <1>2, <2>1
  <2>3. fsDesc' = IF segCount = 0 THEN rxDesc ELSE fsDesc
    BY <1>1, <1>2, <2>1
  <2>4. pc' # "release"
    BY <1>2
  <2> QED BY <1>1, <2>2, <2>3, <2>4 DEF Oldest, Scanned
<1>7. /\ ScannedId' = taken + 1
      /\ ~x.ls => NextId' = taken + 1 /\ NextSeg' = segCount + 1 + 1
      /\ x.ls => NextId' = taken + 1 + 1 /\ NextSeg' = 1
  BY <1>1, <1>2, <1>6 DEF ScannedId, NextId, NextSeg, Scanning
<1>8. LocalInv' /\ (Scanning' => segCount' < MaxSegs)
  BY <1>1, <1>2, <1>5, <1>6 DEF LocalInv, Scanning, WellFormed
<1>9. Read(Oldest, segCount + 1, taken + 1, pc', desc)
  <2> SUFFICES ASSUME NEW k \in 0 .. segCount
               PROVE  /\ desc[Plus(Oldest, k)].id = taken + 1
                      /\ desc[Plus(Oldest, k)].seg = k + 1
                      /\ pc' = "scan" => ~desc[Plus(Oldest, k)].ls
                      /\ pc' = "alloc" => (desc[Plus(Oldest, k)].ls <=> k = segCount)
    BY <1>1, <1>2 DEF Read
  <2>1. CASE k < segCount
    BY <2>1, <1>1, <1>3 DEF Read
  <2>2. CASE k = segCount
    BY <2>2, <1>1, <1>2, <1>4, <1>5
  <2> QED BY <2>1, <2>2, <1>1
<1>10. ~EthBlocked' /\ (isr' = "clear" => sem' = 1)
  BY <1>2 DEF EthBlocked
<1> HIDE DEF TypeInv, TypeOK, x
<1>11. Filled(Oldest, Scanned, t, NextId, NextSeg, desc)'
  BY <1>2, <1>5, <1>6, <1>7
<1>12. GoesOn(Oldest, Scanned, t, NextId, NextSeg, desc, arriving.seg, sent)'
  BY <1>2, <1>5, <1>6, <1>7
<1>13. Lies(Oldest, Scanned, t, rxDesc, dma, own)' /\ Read(Oldest, Scanned, ScannedId, pc, desc)'
  BY <1>2, <1>4, <1>6, <1>7, <1>9
<1> QED BY <1>8, <1>10, <1>11, <1>12, <1>13 DEF Queue

\* The frame copied is the next one, whole.
LEMMA AllocQueue ==
  ASSUME TypeInv, NEW t \in 0 .. ETH_RXBUFNB, Queue(t), AllocCopy
  PROVE  Queue(t)' /\ IsWholeFrame' /\ pc' # "resume"
<1> USE DEF TypeInv, TypeOK
<1>1. /\ pc = "alloc" /\ isr = "idle" /\ length = segCount /\ segCount \in Nat \ {0}
      /\ Oldest = fsDesc /\ Scanned = segCount /\ ScannedId = taken + 1
      /\ NextId = taken + 2 /\ NextSeg = 1
      /\ Read(fsDesc, segCount, taken + 1, "alloc", desc)
  BY DEF AllocCopy, Queue, LocalInv, Oldest, Scanned, ScannedId, NextId, NextSeg, Scanning
<1>2. /\ UNCHANGED <<dmaVars, rxDesc, fsDesc, segCount, isr, sem, rs>>
      /\ relDesc' = fsDesc /\ count' = 0 /\ pc' = "release" /\ taken' = taken + 1
      /\ hand' = [k \in 1 .. length |-> desc[Plus(fsDesc, k - 1)]]
  BY DEF AllocCopy, irqVars
<1>3. /\ Oldest' = Oldest /\ Scanned' = Scanned /\ NextId' = NextId /\ NextSeg' = NextSeg
      /\ ScannedId' = taken + 1
  BY <1>1, <1>2 DEF Oldest, Scanned, ScannedId, NextId, NextSeg, Scanning
<1>4. IsWholeFrame'
  <2> SUFFICES ASSUME NEW k \in 1 .. length
               PROVE  /\ hand'[k].id = taken' /\ hand'[k].seg = k
                      /\ hand'[k].ls <=> k = length
    <3>1. Len(hand') = length BY <1>2
    <3> QED BY <3>1 DEF IsWholeFrame
  <2>1. hand'[k] = desc[Plus(fsDesc, k - 1)] /\ k - 1 \in 0 .. segCount - 1
    BY <1>1, <1>2
  <2> QED BY <1>1, <1>2, <2>1 DEF Read
<1>5. Read(fsDesc, segCount, taken + 1, "release", desc)
  BY <1>1 DEF Read
<1>6. LocalInv' /\ ~Scanning' /\ ~EthBlocked' /\ (isr' = "clear" => sem' = 1)
  BY <1>1, <1>2 DEF LocalInv, Scanning, EthBlocked
<1> HIDE DEF TypeInv, TypeOK
<1>7. Queue(t)'
  BY <1>1, <1>2, <1>3, <1>5, <1>6, Unmoved DEF dmaVars
<1> QED BY <1>2, <1>4, <1>7

\* The oldest descriptor goes back; its segment has been copied.
LEMMA ReleaseQueue ==
  ASSUME TypeInv, NEW t \in 0 .. ETH_RXBUFNB, Queue(t), ReleaseDesc
  PROVE  /\ t > 0 /\ Queue(t - 1)'
         /\ desc[relDesc].id = taken
<1> USE DEF TypeInv, TypeOK
<1>1. /\ pc = "release" /\ isr = "idle" /\ Oldest = relDesc /\ Scanned = segCount - count
      /\ Scanned \in Nat \ {0} /\ ScannedId = taken /\ NextId = taken + 1 /\ NextSeg = 1
      /\ relDesc \in Desc /\ own \in [Desc -> {"dma", "cpu"}] /\ t \in Nat
      /\ arriving.seg \in Nat
  BY DEF ReleaseDesc, Queue, LocalInv, Oldest, Scanned, ScannedId, NextId, NextSeg, Scanning
<1>2. /\ UNCHANGED <<desc, dma, arriving, sent, rxDesc, fsDesc, segCount, isr, sem, rs, pc, taken>>
      /\ own' = [own EXCEPT ![relDesc] = "dma"]
      /\ relDesc' = NextDesc(relDesc) /\ count' = count + 1 /\ count < segCount
  BY DEF ReleaseDesc, irqVars
<1>3. /\ Oldest' = NextDesc(relDesc) /\ Scanned' = Scanned - 1
      /\ NextId' = NextId /\ NextSeg' = NextSeg /\ ScannedId' = taken
  BY <1>1, <1>2 DEF Oldest, Scanned, ScannedId, NextId, NextSeg, Scanning
<1>4. LocalInv' /\ ~Scanning' /\ ~EthBlocked' /\ (isr' = "clear" => sem' = 1)
  BY <1>1, <1>2 DEF LocalInv, Scanning, EthBlocked, Queue
<1> HIDE DEF TypeInv, TypeOK
<1>5. /\ Lies(relDesc, Scanned, t, rxDesc, dma, own)
      /\ Read(relDesc, Scanned, taken, "release", desc)
      /\ Filled(relDesc, Scanned, t, NextId, NextSeg, desc)
      /\ GoesOn(relDesc, Scanned, t, NextId, NextSeg, desc, arriving.seg, sent)
  BY <1>1 DEF Queue
<1>6. Scanned <= t /\ t <= ETH_RXBUFNB /\ t > 0
  BY <1>1, <1>5 DEF Lies
<1>7. Lies(NextDesc(relDesc), Scanned - 1, t - 1, rxDesc, dma, own')
  BY <1>1, <1>2, <1>5, ReleaseRing
<1>8. /\ Read(NextDesc(relDesc), Scanned - 1, taken, "release", desc)
      /\ Filled(NextDesc(relDesc), Scanned - 1, t - 1, NextId, NextSeg, desc)
      /\ GoesOn(NextDesc(relDesc), Scanned - 1, t - 1, NextId, NextSeg, desc, arriving.seg, sent)
  BY <1>1, <1>5, <1>6, ReleaseContent
<1>9. Queue(t - 1)'
  BY <1>1, <1>2, <1>3, <1>4, <1>7, <1>8 DEF Queue
<1>10. desc[relDesc].id = taken
  BY <1>1, <1>5, PlusEnds DEF Read
<1> QED BY <1>6, <1>9, <1>10

\* With the types, the lock (eth0 gets it) and the pool (a frame copied is in
\* eth0's hand).
Reception == TypeInv /\ LockInv /\ HandInv /\ ReceptionInv

\* A failure is never forgotten.
LEMMA FailedStays == [Next]_vars /\ failed => failed'
<1> SUFFICES ASSUME [Next]_vars, failed PROVE failed'
  OBVIOUS
<1> USE DEF ethVars
<1>1. CASE Dma
  BY <1>1 DEF Dma, DmaBegin, DmaContinue, DmaUnavailable, Store
<1>2. CASE Isr
  BY <1>2 DEF Isr, IsrCallback, IsrClear
<1>3. CASE AllocFail
  BY <1>3 DEF AllocFail
<1>4. CASE Eth0 /\ ~AllocFail
  <2>1. failed' = failed
    BY <1>4 DEF Eth0, SemTake, GetLock, ScanFirst, ScanMiddle, ScanLast, ScanNothing,
                AllocCopy, ReleaseDesc, ReleaseEnd, Resume, TcpipInput
  <2> QED BY <2>1
<1>5. CASE Tasks
  BY <1>5 DEF Tasks, Start, TaskLock, TaskUnlock, TcpipFetch, TcpipDone, HeldFree
<1>6. CASE UNCHANGED vars  BY <1>6 DEF vars
<1> QED BY <1>1, <1>2, <1>3, <1>4, <1>5, <1>6 DEF Next

\* Each step keeps the invariant.
LEMMA NextReception == Reception /\ [Next]_vars => ReceptionInv'
<1> SUFFICES ASSUME Reception, [Next]_vars, ~failed' PROVE ReceptionInv'
  BY DEF ReceptionInv
<1>0. ~failed
  BY FailedStays
<1>1. PICK t \in 0 .. ETH_RXBUFNB : Queue(t)
  BY <1>0 DEF Reception, ReceptionInv
<1>2. TypeInv /\ TypeOK /\ LockInv /\ HandInv /\ IsWholeFrame /\ (pc = "resume" => hand # <<>>)
  BY <1>0 DEF Reception, ReceptionInv, TypeInv
<1>3. /\ t \in Nat /\ t <= ETH_RXBUFNB /\ ETH_RXBUFNB \in Nat
      /\ taken \in Nat /\ segCount \in Nat /\ arriving.seg \in Nat /\ sent \in Nat
  BY <1>2, EthRxAssumption DEF TypeOK
<1> DEFINE Kept == UNCHANGED <<own, desc, dma, arriving, sent, rxDesc, fsDesc, relDesc, segCount, length, count, taken>>
<1>4. ASSUME UNCHANGED <<hand, taken>> PROVE IsWholeFrame'
  BY <1>2, <1>4 DEF IsWholeFrame
<1>5. CASE DmaBegin \/ DmaContinue
  <2>1. PICK size \in 1 .. MaxSegs : Store(size) /\ arriving.seg < size
    <3>1. CASE DmaBegin
      <4>1. arriving.seg = 0 BY <3>1 DEF DmaBegin
      <4> QED BY <3>1, <4>1, EthRxAssumption DEF DmaBegin
    <3>2. CASE DmaContinue
      BY <3>2, <1>2, EthRxAssumption DEF DmaContinue, TypeInv, TypeOK
    <3> QED BY <1>5, <3>1, <3>2
  <2>2. Queue(t + 1)' /\ UNCHANGED <<pc, hand, taken>>
    BY <1>1, <1>2, <1>3, <2>1, StoreQueue DEF Store, ethVars
  <2>3. t + 1 \in 0 .. ETH_RXBUFNB
    BY <2>2, <1>3 DEF Queue, Lies
  <2> QED BY <1>2, <1>4, <2>2, <2>3 DEF ReceptionInv
<1>6. CASE DmaUnavailable \/ UNCHANGED vars \/ Tasks
  <2>1. /\ Kept /\ UNCHANGED <<pc, hand, isr, sem, rs>>
    BY <1>6 DEF DmaUnavailable, vars, Tasks, Start, TaskLock, TaskUnlock, TcpipFetch, TcpipDone, HeldFree,
                dmaVars, irqVars, hethVars, ethVars
  <2>2. Queue(t)'
    BY <2>1, <1>1 DEF Queue, LocalInv, Scanning, Oldest, Scanned, ScannedId, NextId, NextSeg, EthBlocked
  <2> QED BY <1>2, <1>4, <2>1, <2>2 DEF ReceptionInv
<1>7. CASE Isr
  <2>1. Kept /\ UNCHANGED <<pc, hand>> /\ ~EthBlocked' /\ (isr' = "clear" => sem' = 1)
    BY <1>7, <1>1 DEF Isr, IsrCallback, IsrClear, Queue, EthBlocked, dmaVars, hethVars, ethVars
  <2>2. Queue(t)'
    BY <2>1, <1>1 DEF Queue, LocalInv, Scanning, Oldest, Scanned, ScannedId, NextId, NextSeg
  <2> QED BY <1>2, <1>4, <2>1, <2>2 DEF ReceptionInv
<1>8. CASE SemTake
  <2>1. Kept /\ UNCHANGED hand /\ isr' = "idle" /\ pc = "wait" /\ pc' = "enter"
    BY <1>8 DEF SemTake, dmaVars, hethVars
  <2>2. Queue(t)'
    <3>1. ~EthBlocked' /\ Scanning /\ Scanning' BY <2>1 DEF EthBlocked, Scanning
    <3>2. Read(Oldest, Scanned, ScannedId, pc', desc)
      BY <1>1, <2>1 DEF Queue, Read
    <3> QED BY <1>1, <1>3, <2>1, <3>1, <3>2, Unmoved
            DEF Queue, LocalInv, Scanning, Oldest, Scanned, ScannedId, NextId, NextSeg
  <2> QED BY <1>2, <1>4, <2>1, <2>2 DEF ReceptionInv
<1>9. CASE GetLock
  <2>1. ~lock BY <1>9, <1>2 DEF GetLock, LockInv
  <2>2. /\ UNCHANGED <<own, desc, dma, arriving, sent, rxDesc, fsDesc, relDesc, segCount, taken, hand>>
        /\ count' = 0 /\ isr' = "idle" /\ pc = "enter" /\ pc' = "scan"
    BY <1>9, <2>1 DEF GetLock, dmaVars, irqVars
  <2>3. Queue(t)'
    <3>1. ~EthBlocked' /\ Scanning /\ Scanning' BY <2>2 DEF EthBlocked, Scanning
    <3>2. Read(Oldest, Scanned, ScannedId, pc', desc)
      BY <1>1, <2>2 DEF Queue, Read
    <3> QED BY <1>1, <1>3, <2>2, <3>1, <3>2, Unmoved
            DEF Queue, LocalInv, Scanning, Oldest, Scanned, ScannedId, NextId, NextSeg
  <2> QED BY <1>2, <1>4, <2>2, <2>3 DEF ReceptionInv
<1>10. CASE ScanFirst \/ ScanMiddle \/ ScanLast
  <2>1. Queue(t)' BY <1>1, <1>2, <1>10, ScanQueue
  <2>2. UNCHANGED <<hand, taken>> /\ pc' # "resume"
    BY <1>10 DEF ScanFirst, ScanMiddle, ScanLast, ethVars
  <2> QED BY <1>4, <2>1, <2>2 DEF ReceptionInv
<1>11. CASE ScanNothing
  <2>1. Kept /\ UNCHANGED hand /\ pc = "scan" /\ pc' = "wait" /\ isr' = "idle" /\ ~Scannable
    BY <1>11 DEF ScanNothing, dmaVars, irqVars, hethVars
  <2>2. Scanned = t
    <3>1. /\ Scanned = segCount /\ segCount < MaxSegs /\ count <= segCount /\ count \in Nat
          /\ Oldest \in Desc /\ Scanned <= t /\ Lies(Oldest, Scanned, t, rxDesc, dma, own)
      BY <1>1, <1>2, <2>1, QueueTypes DEF Queue, LocalInv, Lies, Scanning, Scanned, TypeOK
    <3>2. own[rxDesc] # "cpu" /\ Scanned < ETH_RXBUFNB
      BY <1>3, <2>1, <3>1, EthRxAssumption DEF Scannable
    <3>3. own[rxDesc] = "cpu" <=> Scanned < t
      BY <1>3, <3>1, <3>2, ScanRing
    <3> QED BY <1>3, <3>1, <3>2, <3>3
  <2>3. Queue(t)'
    <3>1. Scanning /\ Scanning' BY <2>1 DEF Scanning
    <3>2. Read(Oldest, Scanned, ScannedId, pc', desc)
      BY <1>1, <2>1 DEF Queue, Read
    <3> QED BY <1>1, <1>3, <2>1, <2>2, <3>1, <3>2, Unmoved
            DEF Queue, LocalInv, Scanning, Oldest, Scanned, ScannedId, NextId, NextSeg
  <2> QED BY <1>4, <2>1, <2>3 DEF ReceptionInv
<1>12. CASE AllocCopy
  BY <1>1, <1>2, <1>12, AllocQueue DEF ReceptionInv
<1>13. CASE AllocFail      BY <1>13 DEF AllocFail
<1>14. CASE ReleaseDesc
  <2>1. t > 0 /\ Queue(t - 1)' BY <1>1, <1>2, <1>14, ReleaseQueue
  <2>2. UNCHANGED <<hand, taken>> /\ pc' # "resume" BY <1>14 DEF ReleaseDesc
  <2>3. t - 1 \in 0 .. ETH_RXBUFNB BY <1>3, <2>1
  <2> QED BY <1>4, <2>1, <2>2, <2>3 DEF ReceptionInv
<1>15. CASE ReleaseEnd
  <2>1. /\ UNCHANGED <<own, desc, dma, arriving, sent, rxDesc, fsDesc, relDesc, taken, hand>>
        /\ count = segCount /\ segCount' = 0 /\ isr' = "idle" /\ pc = "release" /\ pc' = "resume"
    BY <1>15 DEF ReleaseEnd, dmaVars, irqVars
  <2>2. Scanned = 0 /\ Scanned' = 0 /\ Oldest = relDesc /\ Oldest' = rxDesc
    BY <1>3, <2>1 DEF Scanned, Oldest
  <2>3. Oldest' = Oldest
    BY <1>1, <1>2, <2>2, PlusEnds DEF Queue, Lies, TypeOK
  <2>4. Queue(t)'
    <3>1. ~EthBlocked' /\ ~Scanning /\ ~Scanning' BY <2>1 DEF EthBlocked, Scanning
    <3>2. Read(Oldest, Scanned, ScannedId', pc', desc)
      BY <2>2 DEF Read
    <3>3. LocalInv' /\ NextId' = NextId /\ NextSeg' = NextSeg
      BY <2>1, <3>1 DEF LocalInv, NextId, NextSeg
    <3> QED BY <1>1, <1>3, <2>1, <2>2, <2>3, <3>1, <3>2, <3>3, Unmoved
  <2>5. hand' # <<>> BY <1>2, <2>1 DEF HandInv
  <2> QED BY <1>4, <2>1, <2>4, <2>5 DEF ReceptionInv
<1>16. CASE Resume
  <2>1. Kept /\ UNCHANGED hand /\ isr' = "idle" /\ pc = "resume" /\ pc' = "input"
    BY <1>16, <1>2 DEF Resume, irqVars, hethVars
  <2>2. Queue(t)'
    <3>1. ~EthBlocked' /\ ~Scanning /\ ~Scanning' BY <2>1 DEF EthBlocked, Scanning
    <3>2. Read(Oldest, Scanned, ScannedId, pc', desc)
      BY <1>1, <2>1 DEF Queue, Read
    <3> QED BY <1>1, <1>3, <2>1, <3>1, <3>2, Unmoved
            DEF Queue, LocalInv, Scanning, Oldest, Scanned, ScannedId, NextId, NextSeg
  <2> QED BY <1>4, <2>1, <2>2 DEF ReceptionInv
<1>17. CASE TcpipInput
  <2>1. Kept /\ hand' = <<>> /\ isr' = "idle" /\ pc = "input" /\ pc' = "enter"
    BY <1>17 DEF TcpipInput, dmaVars, irqVars, hethVars
  <2>2. Queue(t)'
    <3>1. segCount = 0 /\ ~EthBlocked' /\ LocalInv' /\ (Scanning' => segCount' < MaxSegs)
      BY <1>1, <2>1, EthRxAssumption DEF EthBlocked, Queue, LocalInv
    <3>2. /\ Scanned = 0 /\ Scanned' = 0 /\ Oldest' = Oldest
          /\ NextId' = NextId /\ NextSeg' = NextSeg
      BY <2>1, <3>1 DEF Scanned, Oldest, NextId, NextSeg, Scanning
    <3>3. Read(Oldest, Scanned, ScannedId', pc', desc)
      BY <3>2 DEF Read
    <3> QED BY <1>1, <1>3, <2>1, <3>1, <3>2, <3>3, Unmoved
  <2>3. IsWholeFrame' BY <2>1 DEF IsWholeFrame
  <2> QED BY <2>1, <2>2, <2>3 DEF ReceptionInv
<1> QED
  BY <1>5, <1>6, <1>7, <1>8, <1>9, <1>10, <1>11, <1>12, <1>13, <1>14, <1>15, <1>16, <1>17
     DEF Next, Dma, Eth0

\* The invariant of reception, with the types, the lock and the pool it needs.
THEOREM Invariance == Spec => []Reception
<1>1. Init => Reception
  BY InitType, InitQueue, EthRxAssumption
     DEF Reception, Init, LockInv, HandInv, PoolConserved, NoSegment
<1>2. Reception /\ [Next]_vars => Reception'
  BY NextType, NextLock, NextHand, NextReception DEF Reception, TypeInv
<1> QED BY <1>1, <1>2, PTL DEF Spec

-----------------------------------------------------------------------------
(* What follows *)

\* The filled descriptors are the backlog.
LEMMA BacklogIs ==
  ASSUME TypeInv, NEW t \in 0 .. ETH_RXBUFNB, Queue(t)
  PROVE  Backlog = t - Scanned /\ Scanned <= t
<1>1. /\ Oldest \in Desc /\ Scanned \in Nat /\ ETH_RXBUFNB \in Nat \ {0}
      /\ own \in [Desc -> {"dma", "cpu"}] /\ rxDesc \in Desc /\ dma \in Desc
      /\ Lies(Oldest, Scanned, t, rxDesc, dma, own)
  BY QueueTypes, EthRxAssumption DEF Queue, TypeInv, TypeOK
<1>2. Scanned <= t
  BY <1>1 DEF Lies
<1>3. CASE Scanned = ETH_RXBUFNB
  BY <1>1, <1>2, <1>3 DEF Backlog
<1>4. CASE Scanned < ETH_RXBUFNB
  <2>1. own[rxDesc] = "cpu" <=> Scanned < t
    BY <1>1, <1>4 DEF Lies
  <2>2. CASE Scanned = t
    BY <1>1, <1>4, <2>1, <2>2 DEF Backlog
  <2>3. CASE Scanned < t
    <3>1. dma = Plus(rxDesc, t - Scanned)
      <4>1. Scanned \in 0 .. ETH_RXBUFNB /\ t - Scanned \in 0 .. ETH_RXBUFNB
            /\ Scanned + (t - Scanned) = t
        BY <1>1, <2>3
      <4> QED BY <1>1, <4>1, PlusPlus DEF Lies
    <3>2. CASE t - Scanned = ETH_RXBUFNB
      BY <1>1, <1>4, <2>1, <2>3, <3>1, <3>2, PlusEnds DEF Backlog
    <3>3. CASE t - Scanned < ETH_RXBUFNB
      <4>1. Dist(rxDesc, dma) = t - Scanned
        BY <1>1, <2>3, <3>1, <3>3, DistPlus
      <4>2. dma # rxDesc
        <5>1. Dist(rxDesc, rxDesc) = 0 BY <1>1 DEF Dist, Desc
        <5> QED BY <2>3, <4>1, <5>1, <1>1
      <4> QED BY <1>1, <1>4, <2>1, <2>3, <4>1, <4>2 DEF Backlog
    <3> QED BY <1>1, <3>2, <3>3
  <2> QED BY <1>2, <2>2, <2>3, <1>1
<1> QED BY <1>1, <1>2, <1>3, <1>4

\* Places after the oldest descriptor become steps from rxDesc.
LEMMA QueueIsRing ==
  ASSUME TypeInv, NEW t \in 0 .. ETH_RXBUFNB, Queue(t)
  PROVE  RingInv
<1>1. /\ Backlog = t - Scanned /\ Scanned <= t /\ t \in Nat /\ t <= ETH_RXBUFNB
      /\ Oldest \in Desc /\ Scanned \in Nat /\ ETH_RXBUFNB \in Nat \ {0}
      /\ rxDesc \in Desc /\ dma \in Desc
      /\ rxDesc = Plus(Oldest, Scanned) /\ dma = Plus(Oldest, t)
      /\ own \in [Desc -> {"dma", "cpu"}]
  BY BacklogIs, QueueTypes, EthRxAssumption DEF Queue, Lies, TypeInv, TypeOK
<1>2. ASSUME NEW k \in 0 .. ETH_RXBUFNB - 1, NEW o \in Desc
      PROVE  Dist(o, Plus(o, k)) = k
  BY DistPlus
<1>3. ASSUME NEW d \in Desc
      PROVE  /\ Dist(Oldest, d) \in 0 .. ETH_RXBUFNB - 1 /\ Plus(Oldest, Dist(Oldest, d)) = d
             /\ Dist(rxDesc, d) \in 0 .. ETH_RXBUFNB - 1 /\ Plus(rxDesc, Dist(rxDesc, d)) = d
  BY <1>1, DistPlus
\* Places after rxDesc are Scanned more than places after the oldest.
<1>4. ASSUME NEW k \in 0 .. Backlog PROVE Plus(rxDesc, k) = Plus(Oldest, Scanned + k)
  <2>1. Scanned \in 0 .. ETH_RXBUFNB /\ k \in 0 .. ETH_RXBUFNB /\ Scanned + k <= ETH_RXBUFNB
    BY <1>1
  <2> QED BY <1>1, <2>1, PlusPlus
<1>5. Ownership
  <2>1. Dist(Oldest, rxDesc) = IF Scanned = ETH_RXBUFNB THEN 0 ELSE Scanned
    <3>1. CASE Scanned = ETH_RXBUFNB  BY <1>1, <3>1, PlusEnds DEF Dist, Desc
    <3>2. CASE Scanned < ETH_RXBUFNB  BY <1>1, <1>2, <3>2
    <3> QED BY <1>1, <3>1, <3>2
  <2>2. Dist(rxDesc, dma) = IF Backlog = ETH_RXBUFNB THEN 0 ELSE Backlog
    <3>1. dma = Plus(rxDesc, Backlog) BY <1>1, <1>4
    <3>2. CASE Backlog = ETH_RXBUFNB  BY <1>1, <3>1, <3>2, PlusEnds DEF Dist, Desc
    <3>3. CASE Backlog < ETH_RXBUFNB  BY <1>1, <1>2, <3>1, <3>3
    <3> QED BY <1>1, <3>2, <3>3
  <2>3. ASSUME NEW d \in Desc PROVE own[d] = "cpu" <=> Dist(Oldest, d) < Scanned + Backlog
    BY <1>1, <1>3 DEF Queue, Lies
  <2> QED BY <1>1, <2>1, <2>2, <2>3 DEF Ownership
<1>6. ScannedContent
  BY <1>1, <1>3 DEF Queue, Read, ScannedContent, Scanning
<1>7. ASSUME NEW d \in Desc, Dist(rxDesc, d) < Backlog
      PROVE  /\ Scanned + Dist(rxDesc, d) \in Scanned .. t - 1
             /\ d = Plus(Oldest, Scanned + Dist(rxDesc, d))
  BY <1>1, <1>3, <1>4, <1>7
<1>8. BacklogContent
  <2> SUFFICES ASSUME NEW d \in Desc, Dist(rxDesc, d) < Backlog
               PROVE  /\ WellFormed(desc[d]) /\ desc[d].id >= NextId
                      /\ d = rxDesc => desc[d].id = NextId /\ desc[d].seg = NextSeg
                      /\ Dist(rxDesc, d) + 1 < Backlog => Follows(desc[NextDesc(d)], desc[d])
    BY DEF BacklogContent
  <2>1. Filled(Oldest, Scanned, t, NextId, NextSeg, desc)
    BY DEF Queue
  <2>2. WellFormed(desc[d]) /\ desc[d].id >= NextId
    BY <1>7, <2>1 DEF Filled
  <2>3. d = rxDesc => desc[d].id = NextId /\ desc[d].seg = NextSeg
    BY <1>1, <1>3, <2>1 DEF Filled
  <2>4. Dist(rxDesc, d) + 1 < Backlog => Follows(desc[NextDesc(d)], desc[d])
    <3> SUFFICES ASSUME Dist(rxDesc, d) + 1 < Backlog PROVE Follows(desc[NextDesc(d)], desc[d])
      OBVIOUS
    <3> DEFINE k == Scanned + Dist(rxDesc, d)
    <3>1. k \in Scanned .. t - 2 /\ k \in 0 .. ETH_RXBUFNB - 1 /\ d = Plus(Oldest, k)
      BY <1>1, <1>3, <1>7
    <3>2. NextDesc(d) = Plus(Oldest, k + 1)
      BY <1>1, <3>1, NextPlus
    <3> QED BY <2>1, <3>1, <3>2 DEF Filled
  <2> QED BY <2>2, <2>3, <2>4
<1>9. Newest
  <2>1. GoesOn(Oldest, Scanned, t, NextId, NextSeg, desc, arriving.seg, sent)
    BY DEF Queue
  <2>2. ASSUME NEW d \in Desc, Backlog > 0, Dist(rxDesc, d) = Backlog - 1
        PROVE  /\ desc[d].id = sent
               /\ arriving.seg = IF desc[d].ls THEN 0 ELSE desc[d].seg
    <3>1. d = Plus(Oldest, t - 1) /\ Scanned < t
      BY <1>1, <1>7, <2>2
    <3> QED BY <2>1, <3>1 DEF GoesOn
  <2>3. arriving.seg > 0 => own[dma] = "dma"
    BY <1>1, <2>1 DEF GoesOn, Queue, Lies
  <2>4. Backlog = 0 => /\ arriving.seg = NextSeg - 1
                       /\ sent = IF NextSeg = 1 THEN NextId - 1 ELSE NextId
    BY <1>1, <2>1 DEF GoesOn
  <2> QED BY <2>2, <2>3, <2>4 DEF Newest
<1>10. Notified
  <2>1. ASSUME EthBlocked, ~rs, NEW d \in Desc, Dist(rxDesc, d) < Backlog PROVE ~desc[d].ls
    BY <1>7, <2>1 DEF Queue
  <2> QED BY <2>1 DEF Notified, Queue
<1> QED BY <1>5, <1>6, <1>8, <1>9, <1>10 DEF RingInv, Queue

\* The descriptors of the CPU, what they hold and who announces them, as
\* EthRxInv has it.
THEOREM RingCorrect == Spec => []RingInv
<1>1. Reception => RingInv
  BY QueueIsRing DEF Reception, ReceptionInv, RingInv
<1> QED BY <1>1, Invariance, PTL

\* What low_level_input returns is the next frame of the wire, whole.
THEOREM FramesWhole == Spec => []FramesIntactUntilFailure
<1>1. Reception => FramesIntactUntilFailure
  BY DEF Reception, ReceptionInv, FramesIntactUntilFailure
<1> QED BY <1>1, Invariance, PTL

\* No whole frame waits in the ring while eth0 sleeps and no interrupt comes.
THEOREM WakeUpKept == Spec => []NoLostWakeup
<1>1. Reception => NoLostWakeup
  <2> SUFFICES ASSUME Reception, ~failed, EthBlocked, ~rs,
                      NEW d \in Desc, own[d] = "cpu", desc[d].ls
               PROVE  FALSE
    BY DEF NoLostWakeup, Unread
  <2>1. RingInv /\ TypeOK BY QueueIsRing DEF Reception, ReceptionInv, TypeInv
  <2>2. PICK t \in 0 .. ETH_RXBUFNB : Queue(t) BY DEF Reception, ReceptionInv
  <2>3. /\ Scanned \in Nat /\ t \in Nat /\ Oldest \in Desc
        /\ Dist(Oldest, d) \in 0 .. ETH_RXBUFNB - 1 /\ Plus(Oldest, Dist(Oldest, d)) = d
    BY <2>1, <2>2, QueueTypes, DistPlus DEF Queue
  <2>4. Dist(Oldest, d) < t
    BY <2>2, <2>3 DEF Queue, Lies
  <2>5. CASE Dist(Oldest, d) < Scanned
    BY <2>2, <2>3, <2>5 DEF Queue, Read, EthBlocked
  <2>6. CASE Dist(Oldest, d) >= Scanned
    BY <2>2, <2>3, <2>4, <2>6 DEF Queue
  <2> QED BY <2>3, <2>5, <2>6
<1> QED BY <1>1, Invariance, PTL

\* eth0 gives the DMA no descriptor whose segment it has not copied.
THEOREM ReadBeforeRelease == Spec => NoUnreadRelease
<1>1. Reception /\ [Next]_vars =>
        [~failed => \A d \in Desc : own[d] = "cpu" /\ own'[d] = "dma" => desc[d].id <= taken]_vars
  <2> SUFFICES ASSUME Reception, Next, ~failed,
                      NEW d \in Desc, own[d] = "cpu", own'[d] = "dma"
               PROVE  desc[d].id <= taken
    OBVIOUS
  <2>1. TypeOK /\ TypeInv /\ taken \in Nat /\ own \in [Desc -> {"dma", "cpu"}]
    BY DEF Reception, TypeInv, TypeOK
  <2>2. CASE ReleaseDesc
    <3>1. PICK t \in 0 .. ETH_RXBUFNB : Queue(t) BY DEF Reception, ReceptionInv
    <3>2. desc[relDesc].id = taken BY <2>1, <2>2, <3>1, ReleaseQueue
    <3>3. d = relDesc BY <2>1, <2>2 DEF ReleaseDesc
    <3> QED BY <2>1, <3>2, <3>3
  <2>3. CASE DmaBegin \/ DmaContinue
    <3>1. own' = [own EXCEPT ![dma] = "cpu"]
      BY <2>3 DEF DmaBegin, DmaContinue, Store
    <3> QED BY <2>1, <3>1
  <2>4. CASE ~(ReleaseDesc \/ DmaBegin \/ DmaContinue)
    <3>1. UNCHANGED own
      BY <2>4 DEF Next, Dma, DmaUnavailable, Isr, IsrCallback, IsrClear, Eth0, SemTake, GetLock,
           ScanFirst, ScanMiddle, ScanLast, ScanNothing, AllocCopy, AllocFail, ReleaseEnd, Resume,
           TcpipInput, Tasks, Start, TaskLock, TaskUnlock, TcpipFetch, TcpipDone, HeldFree, dmaVars
    <3> QED BY <3>1
  <2> QED BY <2>2, <2>3, <2>4
<1> QED BY <1>1, Invariance, PTL DEF Spec, NoUnreadRelease

-----------------------------------------------------------------------------
(* Reception is a channel *)

\* A frame in eth0's hand has been read.
HandTaken == hand # <<>> => taken > 0

\* Only the copy fills the hand.
LEMMA NextHandTaken == TypeOK /\ HandTaken /\ [Next]_vars => HandTaken'
<1> SUFFICES ASSUME TypeOK, HandTaken, [Next]_vars PROVE HandTaken'
  OBVIOUS
<1>1. CASE AllocCopy
  BY <1>1 DEF AllocCopy, HandTaken, TypeOK
<1>2. CASE TcpipInput
  BY <1>2 DEF TcpipInput, HandTaken
<1>3. CASE ~(AllocCopy \/ TcpipInput)
  <2>1. UNCHANGED <<hand, taken>>
    BY <1>3 DEF Next, Dma, DmaBegin, DmaContinue, DmaUnavailable, Store, Isr, IsrCallback, IsrClear,
         Eth0, SemTake, GetLock, ScanFirst, ScanMiddle, ScanLast, ScanNothing, AllocFail,
         ReleaseDesc, ReleaseEnd, Resume, Tasks, Start, TaskLock, TaskUnlock, TcpipFetch,
         TcpipDone, HeldFree, ethVars, vars
  <2> QED BY <2>1 DEF HandTaken
<1> QED BY <1>1, <1>2, <1>3

\* The frames received whole; Channel's received until a failure.
Whole == IF arriving.seg > 0 THEN sent - 1 ELSE sent

\* What is received and not read fits in the ring: frames in the backlog are
\* no more than its descriptors.
LEMMA Fits ==
  ASSUME TypeInv, NEW t \in 0 .. ETH_RXBUFNB, Queue(t)
  PROVE  /\ t < ETH_RXBUFNB => Whole - taken < ETH_RXBUFNB
         /\ pc = "alloc" => taken < Whole
<1>1. /\ Oldest \in Desc /\ Scanned \in Nat /\ t \in Nat /\ Scanned <= t
      /\ taken \in Nat /\ sent \in Nat /\ arriving.seg \in Nat /\ ETH_RXBUFNB \in Nat \ {0}
      /\ desc \in [Desc -> Segs]
      /\ Filled(Oldest, Scanned, t, NextId, NextSeg, desc)
      /\ GoesOn(Oldest, Scanned, t, NextId, NextSeg, desc, arriving.seg, sent)
      /\ NextSeg \in Nat \ {0}
  BY QueueTypes, EthRxAssumption DEF Queue, Lies, TypeInv, TypeOK
<1>2. /\ pc = "alloc" => NextId = taken + 2 /\ Scanned > 0 /\ NextSeg = 1
      /\ pc # "alloc" => NextId = taken + 1
  BY <1>1 DEF Queue, LocalInv, NextId, NextSeg, Scanned, Scanning
<1>3. CASE Scanned = t
  BY <1>1, <1>2, <1>3 DEF GoesOn, Whole
<1>4. CASE Scanned < t
  <2>1. /\ sent = desc[Plus(Oldest, t - 1)].id /\ desc[Plus(Oldest, Scanned)].id = NextId
        /\ Scanned \in Scanned .. t - 1 /\ t - 1 \in Scanned .. t - 1
    BY <1>1, <1>4 DEF GoesOn, Filled
  <2>2. NextId <= sent /\ sent <= NextId + (t - 1 - Scanned)
    <3>1. CASE Scanned = t - 1  BY <1>1, <1>2, <2>1, <3>1
    <3>2. CASE Scanned < t - 1  BY <1>1, <2>1, <3>2 DEF Filled
    <3> QED BY <1>1, <1>4, <3>1, <3>2
  <2> QED BY <1>1, <1>2, <2>2 DEF Whole
<1> QED BY <1>1, <1>3, <1>4

\* Every step of EthRx is a step of the channel or leaves it as it is.
LEMMA StepsChannel ==
  Reception /\ HandTaken /\ [Next]_vars /\ ReceptionInv' => [Channel!Next]_Channel!vars
<1> SUFFICES ASSUME Reception, HandTaken, [Next]_vars, ReceptionInv'
             PROVE  Channel!Next \/ UNCHANGED Channel!vars
  OBVIOUS
<1> USE DEF Channel!Next, Channel!vars, Channel!Receive, Channel!Read, Channel!HandOver, Channel!Failure
<1>1. CASE failed
  <2>1. failed' BY <1>1, FailedStays
  <2> QED BY <1>1, <2>1
<1>2. CASE ~failed /\ failed'
  BY <1>2
<1>3. CASE ~failed /\ ~failed'
  <2>0. failed = FALSE /\ failed' = FALSE
    BY <1>3, NextType DEF Reception, TypeInv, TypeOK
  <2>1. PICK t \in 0 .. ETH_RXBUFNB : Queue(t)
    BY <1>3 DEF Reception, ReceptionInv
  <2>2. /\ IsWholeFrame /\ IsWholeFrame' /\ TypeInv /\ TypeOK /\ HandInv
        /\ taken \in Nat /\ sent \in Nat /\ arriving.seg \in Nat
    BY <1>3 DEF Reception, ReceptionInv, TypeInv, TypeOK
  <2>3. /\ HandFrame = IF hand = <<>> THEN 0 ELSE taken
        /\ HandFrame' = IF hand' = <<>> THEN 0 ELSE taken'
    BY <2>2 DEF HandFrame
  <2>4. CASE DmaBegin \/ DmaContinue
    <3>1. PICK size : Store(size)
      BY <2>4 DEF DmaBegin, DmaContinue
    <3>2. UNCHANGED <<hand, taken>> /\ own[dma] = "dma" /\ own' = [own EXCEPT ![dma] = "cpu"]
      BY <3>1 DEF Store, ethVars
    <3>3. t < ETH_RXBUFNB
      <4>1. /\ Oldest \in Desc /\ Scanned \in Nat /\ t \in Nat /\ own \in [Desc -> {"dma", "cpu"}]
            /\ Lies(Oldest, Scanned, t, rxDesc, dma, own)
        BY <2>1, <2>2, QueueTypes DEF Queue, TypeOK
      <4> QED BY <3>2, <4>1, StoreRing
    <3>4. Whole - taken < ETH_RXBUFNB
      BY <2>1, <2>2, <3>3, Fits
    <3>5. Whole' = Whole + 1 \/ Whole' = Whole
      BY <2>2, <3>1 DEF Store, Whole
    <3> QED BY <2>0, <2>2, <2>3, <3>2, <3>4, <3>5 DEF Whole
  <2>5. CASE AllocCopy
    <3>1. /\ pc = "alloc" /\ pc' = "release" /\ UNCHANGED <<sent, arriving>> /\ taken' = taken + 1
      BY <2>5 DEF AllocCopy, dmaVars
    <3>2. taken < Whole /\ hand = <<>> /\ Whole' = Whole
      BY <2>1, <2>2, <3>1, Fits DEF HandInv, Whole
    <3>3. hand' # <<>>
      BY <2>2, <3>1, NextHand DEF HandInv
    <3> QED BY <2>0, <2>2, <2>3, <3>1, <3>2, <3>3 DEF Whole
  <2>6. CASE TcpipInput
    <3>1. UNCHANGED <<sent, arriving, taken>> /\ hand # <<>> /\ hand' = <<>>
      BY <2>2, <2>6 DEF TcpipInput, dmaVars, HandInv
    <3>2. HandFrame # 0 /\ HandFrame' = 0
      BY <2>2, <2>3, <3>1 DEF HandTaken
    <3> QED BY <2>0, <3>1, <3>2
  <2>7. CASE ~(DmaBegin \/ DmaContinue \/ AllocCopy \/ TcpipInput)
    <3>1. UNCHANGED <<sent, arriving, taken, hand>>
      BY <2>7 DEF Next, Dma, DmaUnavailable, Isr, IsrCallback, IsrClear,
           Eth0, SemTake, GetLock, ScanFirst, ScanMiddle, ScanLast, ScanNothing, AllocFail,
           ReleaseDesc, ReleaseEnd, Resume, Tasks, Start, TaskLock, TaskUnlock, TcpipFetch,
           TcpipDone, HeldFree, ethVars, dmaVars, vars
    <3> QED BY <2>0, <2>2, <2>3, <3>1
  <2> QED BY <2>4, <2>5, <2>6, <2>7
<1> QED BY <1>1, <1>2, <1>3, FailedStays

\* Ring, interrupt and eth0 together implement the channel's safety: each frame
\* is read once, whole, in the order of the wire, and none is lost before a
\* failure.  (That every frame is read at last is left to TLC.)
THEOREM ImplementsChannelSafely == Spec => Channel!Spec
<1>1. Init => Channel!Init /\ HandTaken
  BY DEF Init, Channel!Init, HandFrame, HandTaken
<1>2. Reception => TypeOK
  BY DEF Reception, TypeInv
<1>3. Reception' => ReceptionInv'
  BY DEF Reception
<1> QED BY <1>1, <1>2, <1>3, Invariance, NextHandTaken, StepsChannel, PTL DEF Spec, Channel!Spec

=============================================================================
