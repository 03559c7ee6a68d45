------------------------------ MODULE EthRxInv ------------------------------
(***************************************************************************)
(* The inductive invariant of module EthRx: how the descriptors the CPU    *)
(* owns lie in the ring, what they hold, and which interrupt or token      *)
(* announces them.  The part about the ring holds until an allocation of a *)
(* pbuf fails.                                                             *)
(***************************************************************************)
EXTENDS EthRx

\* Steps along the ring from a to b.
Dist(a, b) == IF b >= a THEN b - a ELSE b - a + ETH_RXBUFNB

\* The descriptors of the CPU are, from the oldest on: those scanned and not
\* released, then those the DMA has filled and nobody has scanned.
Oldest  == IF pc = "release" THEN relDesc
           ELSE IF segCount > 0 THEN fsDesc ELSE rxDesc
Scanned == IF pc = "release" THEN segCount - count ELSE segCount
Backlog == IF own[rxDesc] = "dma" \/ Scanned = ETH_RXBUFNB THEN 0
           ELSE IF dma = rxDesc THEN ETH_RXBUFNB ELSE Dist(rxDesc, dma)

\* Between two calls, and during the scan, a frame may be partly scanned.
Scanning == pc \in {"wait", "enter", "scan"}

\* The frame the scanned descriptors belong to, and the segment and frame
\* that follow them.
ScannedId == IF pc = "release" THEN taken ELSE taken + 1
NextId    == IF pc = "alloc" THEN taken + 2 ELSE taken + 1
NextSeg   == IF Scanning THEN segCount + 1 ELSE 1

LocalInv ==
  /\ pc \in {"resume", "input"} => segCount = 0
  /\ pc = "scan" => count <= segCount
  /\ pc = "alloc" => length = segCount /\ segCount > 0
  /\ pc = "release" => count <= segCount

Ownership ==
  /\ Scanned + Backlog <= ETH_RXBUFNB
  /\ Dist(Oldest, rxDesc) = IF Scanned = ETH_RXBUFNB THEN 0 ELSE Scanned
  /\ Dist(rxDesc, dma) = IF Backlog = ETH_RXBUFNB THEN 0 ELSE Backlog
  /\ \A d \in Desc : own[d] = "cpu" <=> Dist(Oldest, d) < Scanned + Backlog

ScannedContent ==
  \A d \in Desc : Dist(Oldest, d) < Scanned =>
    /\ desc[d].id = ScannedId
    /\ pc # "release" => desc[d].seg = Dist(Oldest, d) + 1
    /\ Scanning => ~desc[d].ls
    /\ pc = "alloc" => (desc[d].ls <=> Dist(Oldest, d) = Scanned - 1)

\* A segment the DMA may have stored after one of frame id and place seg.
WellFormed(s) ==
  /\ s.id > 0 /\ s.seg > 0
  /\ s.fs <=> s.seg = 1
  /\ ~s.ls => s.seg < MaxSegs

\* What one descriptor holds is followed by the next segment of its frame, or
\* by the first segment of the next frame.
Follows(t, s) == IF s.ls THEN t.id = s.id + 1 /\ t.seg = 1
                         ELSE t.id = s.id /\ t.seg = s.seg + 1

BacklogContent ==
  \A d \in Desc : Dist(rxDesc, d) < Backlog =>
    /\ WellFormed(desc[d])
    /\ desc[d].id >= NextId
    /\ d = rxDesc => desc[d].id = NextId /\ desc[d].seg = NextSeg
    /\ Dist(rxDesc, d) + 1 < Backlog => Follows(desc[NextDesc(d)], desc[d])

\* The DMA continues what the newest descriptor holds.
Newest ==
  /\ \A d \in Desc : Backlog > 0 /\ Dist(rxDesc, d) = Backlog - 1 =>
       /\ desc[d].id = sent
       /\ arriving.seg = IF desc[d].ls THEN 0 ELSE desc[d].seg
  /\ Backlog = 0 => /\ arriving.seg = NextSeg - 1
                    /\ sent = IF NextSeg = 1 THEN NextId - 1 ELSE NextId
  /\ arriving.seg > 0 => own[dma] = "dma"

\* A whole frame in the backlog has an interrupt or a token on its way.
Notified ==
  /\ isr = "clear" => sem = 1
  /\ EthBlocked /\ ~rs => \A d \in Desc : Dist(rxDesc, d) < Backlog => ~desc[d].ls

RingInv ==
  failed \/ (LocalInv /\ Ownership /\ ScannedContent /\ BacklogContent /\ Newest /\ Notified)

=============================================================================
