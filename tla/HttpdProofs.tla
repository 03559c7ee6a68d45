---------------------------- MODULE HttpdProofs ----------------------------
(***************************************************************************)
(* Proofs about module Httpd, for every number of clients, every size of   *)
(* the pools, mailboxes and send buffers, and every set of pages.          *)
(***************************************************************************)
EXTENDS Httpd, FiniteSetTheorems, SequenceTheorems, TLAPS

Messages == Pages \cup {Other, NULL}

\* Types, with those of the variables that TypeOK leaves out.
TypeInv ==
  /\ netconns \in Nat /\ netconns <= MEMP_NUM_NETCONN
  /\ netbufs \in Nat /\ netbufs <= MEMP_NUM_NETBUF
  /\ files \in Nat /\ files <= LWIP_MAX_OPEN_FILES
  /\ datagrams \in Nat /\ sntp \in BOOLEAN
  /\ allocated \subseteq Conns
  /\ pcb \subseteq allocated /\ failed \subseteq allocated /\ finned \subseteq allocated
  /\ acceptmbox \in Seq(allocated)
  /\ state \in [Conns -> {"none", "write", "close"}]
  /\ unacked \in [Conns -> 0 .. TCP_SND_BUF]
  /\ offset \in [Conns -> Nat]
  /\ recvmbox \in [Conns -> Seq(Messages)]
  /\ \A c \in Conns : Len(recvmbox[c]) <= archMESG_QUEUE_LENGTH
  /\ newconn \in allocated \cup {NoConn}
  /\ inbuf \in Messages
  /\ write \in Nat
  /\ pc \in {"accept", "recv", "fetch", "request", "write", "writing", "fs_close",
             "close", "closing", "netbuf_delete", "delete"}

\* Each netconn is the server's or is once in the accept mailbox.
OwnerInv ==
  /\ newconn = NoConn <=> pc = "accept"
  /\ \A i, j \in 1 .. Len(acceptmbox) : acceptmbox[i] = acceptmbox[j] => i = j
  /\ \A i \in 1 .. Len(acceptmbox) : acceptmbox[i] # newconn
  /\ Cardinality(allocated) = Len(acceptmbox) + IF pc = "accept" THEN 0 ELSE 1

\* Where the server is, what it holds, and what tcpip_thread does for it.
ControlInv ==
  /\ pc \in {"accept", "recv", "fetch", "delete"} => inbuf = NULL
  /\ pc \in {"accept", "recv", "fetch", "request"} => write = 0
  /\ pc = "request" => inbuf # NULL
  /\ pc \in {"write", "writing"} => inbuf \in Pages /\ write < Len(Writes[inbuf])
  /\ pc = "fs_close" => inbuf \in StaticPages
  /\ file = IF pc \in {"write", "writing", "fs_close"} /\ inbuf \in StaticPages
            THEN "open" ELSE "none"
  /\ \A c \in Conns : /\ state[c] = "write" <=> pc = "writing" /\ c = newconn
                      /\ state[c] = "close" <=> pc = "closing" /\ c = newconn
                      /\ offset[c] # 0 => c = newconn /\ (pc = "writing" \/ c \in failed)
  /\ pc = "writing" => offset[newconn] <= Writes[inbuf][write + 1]

\* A netconn without a pcb has failed, or the server has closed it.
AliveInv ==
  /\ \A c \in allocated : \/ c \in pcb \cup failed
                          \/ c = newconn /\ pc \in {"netbuf_delete", "delete"}
  /\ pc \in {"netbuf_delete", "delete"} => newconn \notin pcb
  /\ NeverWaitsOnTheDead

Inv == TypeInv /\ NothingLeaked /\ OwnerInv /\ ControlInv /\ AliveInv

-----------------------------------------------------------------------------

\* A page is written in one write at least, and each writes something.
LEMMA WritesType ==
  ASSUME NEW p \in Pages
  PROVE  /\ Len(Writes[p]) \in Nat \ {0}
         /\ \A w \in 1 .. Len(Writes[p]) : Writes[p][w] \in Nat \ {0}
<1>1. Writes[p] \in Seq(Nat \ {0}) /\ Writes[p] # <<>>
  BY HttpdAssumption
<1> QED BY <1>1

\* The indices of a sequence.
LEMMA DomainOfSeq == ASSUME NEW S, NEW s \in Seq(S) PROVE DOMAIN s = 1 .. Len(s)
OBVIOUS

\* A sequence whose elements are all in T is a sequence over T.
LEMMA SeqOfSubset ==
  ASSUME NEW S, NEW T, NEW s \in Seq(S), \A i \in 1 .. Len(s) : s[i] \in T
  PROVE  s \in Seq(T)
OBVIOUS

\* The invariant holds before the first connection.
LEMMA InitInv == Init => Inv
<1> SUFFICES ASSUME Init PROVE Inv
  OBVIOUS
<1> USE HttpdAssumption DEF Init
<1>1. TypeInv
  <2>1. recvmbox \in [Conns -> Seq(Messages)] /\ \A c \in Conns : Len(recvmbox[c]) = 0
    BY DEF Messages
  <2>2. state \in [Conns -> {"none", "write", "close"}] /\ offset \in [Conns -> Nat]
        /\ unacked \in [Conns -> 0 .. TCP_SND_BUF]
    OBVIOUS
  <2>3. acceptmbox \in Seq(allocated)
    OBVIOUS
  <2>4. \A c \in Conns : Len(recvmbox[c]) <= archMESG_QUEUE_LENGTH
    BY <2>1
  <2>5. inbuf \in Messages
    BY DEF Messages
  <2> HIDE DEF Init
  <2>6. /\ netconns = 1 /\ netbufs = 0 /\ files = 0 /\ datagrams = 0 /\ sntp = FALSE
        /\ allocated = {} /\ pcb = {} /\ failed = {} /\ finned = {}
        /\ newconn = NoConn /\ write = 0 /\ pc = "accept"
    BY DEF Init
  <2>7. /\ netconns \in Nat /\ netconns <= MEMP_NUM_NETCONN
        /\ netbufs \in Nat /\ netbufs <= MEMP_NUM_NETBUF
        /\ files \in Nat /\ files <= LWIP_MAX_OPEN_FILES /\ datagrams \in Nat
    BY <2>6
  <2>8. /\ allocated \subseteq Conns /\ pcb \subseteq allocated /\ failed \subseteq allocated
        /\ finned \subseteq allocated /\ newconn \in allocated \cup {NoConn}
        /\ write \in Nat /\ sntp \in BOOLEAN
    BY <2>6
  <2>9. pc \in {"accept", "recv", "fetch", "request", "write", "writing", "fs_close",
                "close", "closing", "netbuf_delete", "delete"}
    BY <2>6
  <2> QED BY <2>1, <2>2, <2>3, <2>4, <2>5, <2>7, <2>8, <2>9 DEF TypeInv
<1>2. NothingLeaked BY FS_EmptySet DEF NothingLeaked
<1>3. OwnerInv BY FS_EmptySet DEF OwnerInv
<1>4. ControlInv BY DEF ControlInv
<1>5. AliveInv BY DEF AliveInv, NeverWaitsOnTheDead
<1> QED BY <1>1, <1>2, <1>3, <1>4, <1>5 DEF Inv

\* The accepted netconn leaves the mailbox and becomes the server's.
LEMMA AcceptInv == Inv /\ Accept => Inv'
<1> SUFFICES ASSUME Inv, Accept PROVE Inv'
  OBVIOUS
<1> USE HttpdAssumption DEF Inv, Accept, client, others, Goto
<1>1. TypeInv' BY SMTT(20) DEF TypeInv, Messages, NothingLeaked, ControlInv
<1>2. NothingLeaked'
  <2>1. newconn = NoConn /\ NoConn \notin allocated
    BY DEF OwnerInv, TypeInv
  <2>2. ASSUME NEW c \in allocated, c # newconn'
        PROVE  \E i \in DOMAIN acceptmbox' : acceptmbox'[i] = c
    <3>1. PICK i \in 1 .. Len(acceptmbox) : acceptmbox[i] = c
      <4>1. DOMAIN acceptmbox = 1 .. Len(acceptmbox)
        BY DomainOfSeq DEF TypeInv
      <4> QED BY <2>1, <2>2, <4>1 DEF NothingLeaked
    <3>2. i # 1
      BY <3>1, <2>2 DEF TypeInv
    <3>3. i - 1 \in 1 .. Len(acceptmbox') /\ acceptmbox'[i - 1] = c
      BY <3>1, <3>2 DEF TypeInv
    <3>4. DOMAIN acceptmbox' = 1 .. Len(acceptmbox')
      BY DomainOfSeq DEF TypeInv
    <3> QED BY <3>3, <3>4
  <2> QED BY <2>2 DEF TypeInv, NothingLeaked, ControlInv
<1>3. OwnerInv' BY DEF TypeInv, OwnerInv, NothingLeaked
<1>4. ControlInv' BY DEF TypeInv, OwnerInv, ControlInv, NothingLeaked, Messages
<1>5. AliveInv' BY DEF TypeInv, OwnerInv, ControlInv, AliveInv, NeverWaitsOnTheDead
<1> QED BY <1>1, <1>2, <1>3, <1>4, <1>5

\* The netbuf that netconn_recv takes is counted with its wait.
LEMMA RecvInv == Inv /\ Recv => Inv'
<1> SUFFICES ASSUME Inv, Recv PROVE Inv'
  OBVIOUS
<1> USE HttpdAssumption DEF Inv, Recv, client, others, Goto
<1>1. TypeInv' BY SMTT(20) DEF TypeInv, Messages, NothingLeaked, ControlInv
<1>2. NothingLeaked' BY DEF TypeInv, NothingLeaked, OwnerInv, ControlInv
<1>3. OwnerInv' BY DEF TypeInv, OwnerInv, NothingLeaked
<1>4. ControlInv' BY DEF TypeInv, OwnerInv, ControlInv, NothingLeaked, Messages
<1>5. AliveInv' BY DEF TypeInv, OwnerInv, ControlInv, AliveInv, NeverWaitsOnTheDead
<1> QED BY <1>1, <1>2, <1>3, <1>4, <1>5

\* A request stays in the netbuf; without one the netbuf goes back.
LEMMA FetchInv == Inv /\ Fetch => Inv'
<1> SUFFICES ASSUME Inv, Fetch PROVE Inv'
  OBVIOUS
<1> USE HttpdAssumption DEF Inv, Fetch, client, others, Goto
<1>1. TypeInv'
  <2>1. newconn \in Conns
    BY DEF OwnerInv, TypeInv
  <2>2. /\ recvmbox' \in [Conns -> Seq(Messages)]
        /\ \A c \in Conns : Len(recvmbox'[c]) <= archMESG_QUEUE_LENGTH
        /\ Head(recvmbox[newconn]) \in Messages
    BY <2>1 DEF TypeInv
  <2>3. /\ inbuf' \in Messages /\ pc' \in {"close", "request"}
        /\ newconn \in allocated /\ failed' \subseteq allocated
    BY <2>2 DEF TypeInv, OwnerInv
  <2>4. netbufs' \in Nat /\ netbufs' <= MEMP_NUM_NETBUF
    BY DEF TypeInv, NothingLeaked
  <2>5. UNCHANGED <<netconns, files, acceptmbox, allocated, pcb, state, offset, unacked, finned,
                    newconn, write, sntp, datagrams>>
    OBVIOUS
  <2> HIDE DEF Fetch
  <2> QED BY <2>2, <2>3, <2>4, <2>5 DEF TypeInv
<1>2. NothingLeaked' BY DEF TypeInv, NothingLeaked, OwnerInv, ControlInv
<1>3. OwnerInv' BY DEF TypeInv, OwnerInv, NothingLeaked
<1>4. ControlInv' BY DEF TypeInv, OwnerInv, ControlInv, NothingLeaked, Messages
<1>5. AliveInv' BY DEF TypeInv, OwnerInv, ControlInv, AliveInv, NeverWaitsOnTheDead
<1> QED BY <1>1, <1>2, <1>3, <1>4, <1>5

\* An entry of fs_memory is free whenever a page is asked for.
LEMMA RequestInv == Inv /\ Request => Inv'
<1> SUFFICES ASSUME Inv, Request PROVE Inv'
  OBVIOUS
<1> USE HttpdAssumption, FilesAssumption DEF Inv, Request, FsOpen, client, others, Goto
<1>1. TypeInv' BY DEF TypeInv, Messages, NothingLeaked, ControlInv
<1>2. NothingLeaked' BY DEF TypeInv, NothingLeaked, OwnerInv, ControlInv
<1>3. OwnerInv' BY DEF TypeInv, OwnerInv, NothingLeaked
<1>4. ControlInv' BY WritesType DEF Pages, TypeInv, OwnerInv, ControlInv, NothingLeaked, Messages
<1>5. AliveInv' BY DEF TypeInv, OwnerInv, ControlInv, AliveInv, NeverWaitsOnTheDead
<1> QED BY <1>1, <1>2, <1>3, <1>4, <1>5

\* fs_close gives back the entry that fs_open took.
LEMMA FsCloseInv == Inv /\ FsClose => Inv'
<1> SUFFICES ASSUME Inv, FsClose PROVE Inv'
  OBVIOUS
<1> USE HttpdAssumption DEF Inv, FsClose, client, others, Goto
<1>1. TypeInv' BY DEF TypeInv, Messages, NothingLeaked, ControlInv
<1>2. NothingLeaked' BY DEF TypeInv, NothingLeaked, OwnerInv, ControlInv
<1>3. OwnerInv' BY DEF TypeInv, OwnerInv, NothingLeaked
<1>4. ControlInv' BY DEF TypeInv, OwnerInv, ControlInv, NothingLeaked, Messages
<1>5. AliveInv' BY DEF TypeInv, OwnerInv, ControlInv, AliveInv, NeverWaitsOnTheDead
<1> QED BY <1>1, <1>2, <1>3, <1>4, <1>5

\* netbuf_delete gives back a netbuf exactly when there is one.
LEMMA NetbufDeleteInv == Inv /\ NetbufDelete => Inv'
<1> SUFFICES ASSUME Inv, NetbufDelete PROVE Inv'
  OBVIOUS
<1> USE HttpdAssumption DEF Inv, NetbufDelete, client, others, Goto
<1>1. TypeInv' BY DEF TypeInv, Messages, NothingLeaked, ControlInv
<1>2. NothingLeaked' BY DEF TypeInv, NothingLeaked, OwnerInv, ControlInv
<1>3. OwnerInv' BY DEF TypeInv, OwnerInv, NothingLeaked
<1>4. ControlInv' BY DEF TypeInv, OwnerInv, ControlInv, NothingLeaked, Messages
<1>5. AliveInv' BY DEF TypeInv, OwnerInv, ControlInv, AliveInv, NeverWaitsOnTheDead
<1> QED BY <1>1, <1>2, <1>3, <1>4, <1>5

-----------------------------------------------------------------------------
(* Writing and closing *)

\* All that was left is given to TCP and the server goes on, or it waits with no
\* more than the page written.
Wrote ==
  \/ /\ state' = [state EXCEPT ![newconn] = "none"]
     /\ offset' = [offset EXCEPT ![newconn] = 0]
     /\ AfterWrite
  \/ /\ state' = [state EXCEPT ![newconn] = "write"]
     /\ \E o \in 0 .. Writes[inbuf][write + 1] : offset' = [offset EXCEPT ![newconn] = o]
     /\ pc' = "writing" /\ write' = write

\* do_writemore keeps within the send buffer and within the page.
LEMMA WritemoreSteps ==
  ASSUME Inv, NEW acked \in 0 .. unacked[newconn], NEW memory \in BOOLEAN,
         newconn \in allocated, pc \in {"write", "writing"},
         pc = "write" => offset[newconn] = 0,
         DoWritemore(newconn, acked, memory)
  PROVE  /\ unacked' \in [Conns -> 0 .. TCP_SND_BUF]
         /\ offset' \in [Conns -> Nat]
         /\ Wrote
<1> DEFINE size == Writes[inbuf][write + 1] - offset[newconn]
           room == TCP_SND_BUF - unacked[newconn] + acked
           len  == IF ~memory THEN 0 ELSE IF size < room THEN size ELSE room
<1>1. newconn \in Conns /\ unacked[newconn] \in 0 .. TCP_SND_BUF /\ offset[newconn] \in Nat
      /\ TCP_SND_BUF \in Nat
  BY HttpdAssumption DEF Inv, TypeInv
<1>2. Writes[inbuf][write + 1] \in Nat /\ offset[newconn] <= Writes[inbuf][write + 1]
  BY WritesType, <1>1 DEF Inv, TypeInv, ControlInv
<1>3. len \in 0 .. room /\ len <= size /\ size \in Nat
  BY <1>1, <1>2
<1>4. /\ unacked[newconn] - acked + len \in 0 .. TCP_SND_BUF
      /\ offset[newconn] + len \in 0 .. Writes[inbuf][write + 1]
  BY <1>1, <1>2, <1>3
<1>5. /\ unacked' = [unacked EXCEPT ![newconn] = @ - acked + len]
      /\ IF len = size
         THEN /\ state' = [state EXCEPT ![newconn] = "none"]
              /\ offset' = [offset EXCEPT ![newconn] = 0]
              /\ AfterWrite
         ELSE /\ state' = [state EXCEPT ![newconn] = "write"]
              /\ offset' = [offset EXCEPT ![newconn] = @ + len]
              /\ pc' = "writing" /\ write' = write
  BY DEF DoWritemore, Goto
<1> HIDE DEF len, size
<1>6. unacked' \in [Conns -> 0 .. TCP_SND_BUF] /\ offset' \in [Conns -> Nat]
  <2>1. unacked \in [Conns -> 0 .. TCP_SND_BUF] /\ offset \in [Conns -> Nat]
    BY DEF Inv, TypeInv
  <2>2. unacked' = [unacked EXCEPT ![newconn] = unacked[newconn] - acked + len]
    BY <1>5
  <2>3. unacked' \in [Conns -> 0 .. TCP_SND_BUF]
    BY <1>4, <2>1, <2>2
  <2>4. \E o \in Nat : offset' = [offset EXCEPT ![newconn] = o]
    <3>1. CASE len = size BY <1>5, <3>1
    <3>2. CASE len # size
      <4>1. offset' = [offset EXCEPT ![newconn] = offset[newconn] + len] BY <1>5, <3>2
      <4>2. offset[newconn] + len \in Nat BY <1>2, <1>4
      <4> QED BY <4>1, <4>2
    <3> QED BY <3>1, <3>2
  <2> QED BY <2>1, <2>3, <2>4
<1>7. CASE len = size
  BY <1>5, <1>6, <1>7 DEF Wrote
<1>8. CASE len # size
  <2>1. offset' = [offset EXCEPT ![newconn] = offset[newconn] + len]
    BY <1>5, <1>8
  <2>2. Wrote
    BY <1>4, <1>5, <1>8, <2>1 DEF Wrote
  <2> QED BY <1>6, <2>2
<1> QED BY <1>7, <1>8

\* Where the server goes after a write.
LEMMA AfterWriteSteps ==
  ASSUME Inv, AfterWrite, pc \in {"write", "writing"}
  PROVE  /\ pc' \in {"write", "fs_close", "close"}
         /\ write' \in Nat
         /\ pc' = "write" => write' < Len(Writes[inbuf])
         /\ pc' = "fs_close" => inbuf \in StaticPages
         /\ pc' = "close" => inbuf \notin StaticPages
  BY DEF AfterWrite, Goto, Inv, TypeInv, ControlInv

\* A step of do_writemore, by the call or by a callback, keeps the invariant.
LEMMA WroteInv ==
  ASSUME Inv, pc \in {"write", "writing"}, newconn \in pcb, Wrote,
         unacked' \in [Conns -> 0 .. TCP_SND_BUF], offset' \in [Conns -> Nat],
         UNCHANGED <<netconns, netbufs, files, acceptmbox, allocated, pcb, failed, recvmbox, finned,
                     newconn, inbuf, file, others>>
  PROVE  Inv'
<1> USE DEF Inv, others
<1>1. newconn \in allocated /\ newconn \in Conns /\ newconn # NoConn
  BY DEF TypeInv, OwnerInv
<1>2. AfterWrite => /\ pc' \in {"write", "fs_close", "close"}
                    /\ write' \in Nat
                    /\ pc' = "write" => write' < Len(Writes[inbuf])
                    /\ pc' = "fs_close" => inbuf \in StaticPages
                    /\ pc' = "close" => inbuf \notin StaticPages
  BY AfterWriteSteps
<1>3. TypeInv' BY <1>1, <1>2 DEF TypeInv, Wrote
<1>4. NothingLeaked' BY <1>1, <1>2 DEF NothingLeaked, Wrote
<1>5. OwnerInv' BY <1>1, <1>2 DEF OwnerInv, Wrote
<1>6. ControlInv'
  <2>1. CASE pc' # "writing"
    <3>1. /\ state' = [state EXCEPT ![newconn] = "none"]
          /\ offset' = [offset EXCEPT ![newconn] = 0]
          /\ AfterWrite
      BY <2>1 DEF Wrote
    <3>2. file = (IF inbuf \in StaticPages THEN "open" ELSE "none") /\ inbuf \in Pages
      BY DEF ControlInv
    <3>3. \A c \in Conns : state'[c] = "none" /\ (offset'[c] # 0 => c = newconn /\ c \in failed)
      BY <1>1, <3>1 DEF TypeInv, ControlInv
    <3>4. file' = IF pc' \in {"write", "writing", "fs_close"} /\ inbuf' \in StaticPages
                  THEN "open" ELSE "none"
      BY <1>2, <3>1, <3>2
    <3>5. /\ pc' \in {"write", "fs_close", "close"}
          /\ pc' = "write" => inbuf' \in Pages /\ write' < Len(Writes[inbuf'])
          /\ pc' = "fs_close" => inbuf' \in StaticPages
      BY <1>2, <3>1, <3>2
    <3>6. \A c \in Conns : /\ state'[c] = "write" <=> pc' = "writing" /\ c = newconn'
                           /\ state'[c] = "close" <=> pc' = "closing" /\ c = newconn'
                           /\ offset'[c] # 0 => c = newconn' /\ (pc' = "writing" \/ c \in failed')
      BY <3>3, <3>5
    <3> HIDE DEF Inv
    <3> QED BY <3>4, <3>5, <3>6, <2>1 DEF ControlInv
  <2>2. CASE pc' = "writing"
    BY <1>1, <1>2, <2>2, SMTT(20) DEF TypeInv, ControlInv, Wrote
  <2> QED BY <2>1, <2>2
<1>7. AliveInv' BY <1>1, <1>2 DEF TypeInv, AliveInv, NeverWaitsOnTheDead, Wrote
<1> QED BY <1>3, <1>4, <1>5, <1>6, <1>7

\* So does a step of do_close_internal.
LEMMA ClosedInv ==
  ASSUME Inv, pc \in {"close", "closing"}, newconn \in pcb,
         NEW memory \in BOOLEAN, DoCloseInternal(newconn, memory),
         unacked' \in [Conns -> 0 .. TCP_SND_BUF],
         recvmbox' \in [Conns -> Seq(Messages)],
         \A c \in Conns : Len(recvmbox'[c]) <= archMESG_QUEUE_LENGTH,
         UNCHANGED <<netconns, netbufs, files, acceptmbox, allocated, failed, offset, finned,
                     newconn, inbuf, file, write, others>>
  PROVE  Inv'
<1> USE DEF Inv, others, DoCloseInternal, Goto
<1>1. newconn \in allocated /\ newconn \in Conns /\ newconn # NoConn
  BY DEF TypeInv, OwnerInv
<1>2. TypeInv' BY <1>1 DEF TypeInv
<1>3. NothingLeaked' BY <1>1 DEF NothingLeaked
<1>4. OwnerInv' BY <1>1 DEF OwnerInv
<1>5. ControlInv'
  <2>1. CASE memory BY <1>1, <2>1 DEF TypeInv, ControlInv
  <2>2. CASE ~memory BY <1>1, <2>2 DEF TypeInv, ControlInv
  <2> QED BY <2>1, <2>2
<1>6. AliveInv' BY <1>1 DEF TypeInv, AliveInv, NeverWaitsOnTheDead
<1> QED BY <1>2, <1>3, <1>4, <1>5, <1>6

-----------------------------------------------------------------------------
(* The other steps of the server *)

\* netconn_write is made or refused; the rest is WroteInv.
LEMMA WriteInv == ASSUME Inv, NEW memory \in BOOLEAN, Write(memory) PROVE Inv'
<1>1. /\ UNCHANGED <<netconns, netbufs, files, acceptmbox, allocated, pcb, failed, recvmbox, finned,
                     newconn, inbuf, file, others>>
      /\ pc = "write" /\ newconn \in allocated /\ newconn # NoConn
  BY DEF Write, Inv, TypeInv, OwnerInv
<1>2. CASE newconn \in failed
  <2>1. AfterWrite /\ UNCHANGED <<state, offset, unacked>>
    BY <1>2 DEF Write
  <2>2. /\ pc' \in {"write", "fs_close", "close"}
        /\ write' \in Nat
        /\ pc' = "write" => write' < Len(Writes[inbuf])
        /\ pc' = "fs_close" => inbuf \in StaticPages
        /\ pc' = "close" => inbuf \notin StaticPages
    BY <1>1, <2>1, AfterWriteSteps
  <2> USE DEF Inv, others
  <2>3. TypeInv' BY <1>1, <2>1, <2>2 DEF TypeInv
  <2>4. NothingLeaked' BY <1>1, <2>1, <2>2 DEF NothingLeaked
  <2>5. OwnerInv' BY <1>1, <2>1, <2>2 DEF OwnerInv
  <2>6. ControlInv' BY <1>1, <1>2, <2>1, <2>2 DEF TypeInv, ControlInv
  <2>7. AliveInv' BY <1>1, <2>1, <2>2 DEF TypeInv, AliveInv, NeverWaitsOnTheDead
  <2> QED BY <2>3, <2>4, <2>5, <2>6, <2>7
<1>3. CASE newconn \notin failed
  <2>1. newconn \in pcb /\ unacked[newconn] \in Nat /\ offset[newconn] = 0
    BY <1>1, <1>3, HttpdAssumption DEF Inv, TypeInv, ControlInv, AliveInv
  <2>2. /\ unacked' \in [Conns -> 0 .. TCP_SND_BUF] /\ offset' \in [Conns -> Nat]
        /\ Wrote
    BY <1>1, <1>3, <2>1, WritemoreSteps DEF Write
  <2> QED BY <1>1, <2>1, <2>2, WroteInv
<1> QED BY <1>2, <1>3

\* netconn_close waits, or leaves the netconn without a pcb.
LEMMA CloseInv == ASSUME Inv, NEW memory \in BOOLEAN, Close(memory) PROVE Inv'
<1>1. /\ pc = "close" /\ newconn \in Conns /\ newconn # NoConn
      /\ UNCHANGED <<netconns, netbufs, files, acceptmbox, allocated, failed, offset, unacked, finned,
                     newconn, inbuf, file, write, others>>
  BY DEF Close, Inv, TypeInv, OwnerInv
<1>2. CASE newconn \in pcb
  <2>1. recvmbox' = [recvmbox EXCEPT ![newconn] = <<>>] /\ DoCloseInternal(newconn, memory)
    BY <1>2 DEF Close
  <2>2. /\ recvmbox' \in [Conns -> Seq(Messages)]
        /\ \A c \in Conns : Len(recvmbox'[c]) <= archMESG_QUEUE_LENGTH
    BY <1>1, <2>1, HttpdAssumption DEF Inv, TypeInv
  <2>3. unacked' \in [Conns -> 0 .. TCP_SND_BUF]
    BY <1>1 DEF Inv, TypeInv
  <2> QED BY <1>1, <1>2, <2>1, <2>2, <2>3, ClosedInv
<1>3. CASE newconn \notin pcb
  <2>1. pc' = "netbuf_delete" /\ UNCHANGED <<recvmbox, state, pcb>>
    BY <1>3 DEF Close, Goto
  <2> USE DEF Inv, others
  <2>2. TypeInv' BY <1>1, <2>1 DEF TypeInv
  <2>3. NothingLeaked' BY <1>1, <2>1 DEF NothingLeaked
  <2>4. OwnerInv' BY <1>1, <2>1 DEF OwnerInv
  <2>5. ControlInv' BY <1>1, <2>1 DEF TypeInv, ControlInv
  <2>6. AliveInv' BY <1>1, <1>3, <2>1 DEF TypeInv, AliveInv, NeverWaitsOnTheDead
  <2> QED BY <2>2, <2>3, <2>4, <2>5, <2>6
<1> QED BY <1>2, <1>3

\* netconn_delete returns a netconn that nobody else holds.
LEMMA DeleteInv == Inv /\ Delete => Inv'
<1> SUFFICES ASSUME Inv, Delete PROVE Inv'
  OBVIOUS
<1>1. /\ pc = "delete" /\ newconn \in allocated /\ newconn \in Conns /\ newconn # NoConn
      /\ IsFiniteSet(allocated)
  BY HttpdAssumption, FS_Subset DEF Delete, Inv, TypeInv, OwnerInv
<1>2. Cardinality(allocated') = Cardinality(allocated) - 1 /\ Cardinality(allocated) \in Nat
  BY <1>1, FS_RemoveElement, FS_CardinalityType DEF Delete
<1> USE HttpdAssumption DEF Inv, Delete, others, Goto
<1>3. TypeInv'
  <2>1. acceptmbox' \in Seq(allocated')
    <3>1. \A i \in 1 .. Len(acceptmbox) : acceptmbox[i] \in allocated \ {newconn}
      BY DEF TypeInv, OwnerInv
    <3>2. acceptmbox \in Seq(allocated \ {newconn})
      BY <3>1, SeqOfSubset DEF TypeInv
    <3> QED BY <3>2
  <2>2. /\ recvmbox' \in [Conns -> Seq(Messages)]
        /\ \A c \in Conns : Len(recvmbox'[c]) <= archMESG_QUEUE_LENGTH
    BY <1>1 DEF TypeInv
  <2>3. netconns' \in Nat /\ netconns' <= MEMP_NUM_NETCONN
    BY <1>2 DEF TypeInv, NothingLeaked
  <2>4. inbuf' \in Messages
    BY DEF TypeInv
  <2>5. /\ state' \in [Conns -> {"none", "write", "close"}] /\ offset' \in [Conns -> Nat]
        /\ unacked' \in [Conns -> 0 .. TCP_SND_BUF]
    BY <1>1 DEF TypeInv
  <2> QED BY <1>1, <2>1, <2>2, <2>3, <2>4, <2>5 DEF TypeInv
<1>4. NothingLeaked' BY <1>1, <1>2 DEF TypeInv, NothingLeaked, ControlInv
<1>5. OwnerInv'
  <2>1. \A i \in 1 .. Len(acceptmbox) : acceptmbox[i] # NoConn
    BY DEF TypeInv
  <2>2. acceptmbox' = acceptmbox /\ newconn' = NoConn /\ pc' = "accept" /\ Len(acceptmbox) \in Nat
    BY DEF TypeInv
  <2>3. Cardinality(allocated) = Len(acceptmbox) + 1
    BY <1>1 DEF OwnerInv
  <2>4. Cardinality(allocated') = Len(acceptmbox)
    BY <1>2, <2>2, <2>3
  <2> HIDE DEF Delete
  <2> QED BY <2>1, <2>2, <2>4 DEF OwnerInv
<1>6. ControlInv' BY <1>1 DEF TypeInv, ControlInv
<1>7. AliveInv' BY <1>1 DEF TypeInv, AliveInv, NeverWaitsOnTheDead
<1> QED BY <1>3, <1>4, <1>5, <1>6, <1>7

-----------------------------------------------------------------------------
(* Clients, the network and the SNTP client *)

\* accept_function takes a netconn and gives it to the accept mailbox.
LEMMA ConnectInv == ASSUME Inv, NEW c \in Conns, Connect(c) PROVE Inv'
<1>1. IsFiniteSet(allocated)
  BY HttpdAssumption, FS_Subset DEF Inv, TypeInv
<1>2. Cardinality(allocated') = Cardinality(allocated) + 1 /\ Cardinality(allocated) \in Nat
  BY <1>1, FS_AddElement, FS_CardinalityType DEF Connect
<1>3. c \notin allocated /\ c # NoConn
  BY HttpdAssumption DEF Connect
<1> USE HttpdAssumption DEF Inv, Connect, server, others
<1>4. acceptmbox' \in Seq(allocated') /\ Len(acceptmbox') = Len(acceptmbox) + 1
  <2>1. acceptmbox \in Seq(allocated \cup {c})
    BY SeqOfSubset DEF TypeInv
  <2> QED BY <2>1
<1>5. TypeInv' BY <1>4 DEF TypeInv
<1>6. NothingLeaked'
  <2>1. ASSUME NEW d \in allocated', d # newconn
        PROVE  \E i \in DOMAIN acceptmbox' : acceptmbox'[i] = d
    <3>1. /\ DOMAIN acceptmbox = 1 .. Len(acceptmbox)
          /\ DOMAIN acceptmbox' = 1 .. Len(acceptmbox) + 1
      BY <1>4, DomainOfSeq DEF TypeInv
    <3>2. CASE d = c
      <4>1. acceptmbox'[Len(acceptmbox) + 1] = c /\ Len(acceptmbox) \in Nat
        BY DEF TypeInv
      <4>2. Len(acceptmbox) + 1 \in DOMAIN acceptmbox'
        BY <3>1, <4>1
      <4> HIDE DEF Connect
      <4> QED BY <3>2, <4>1, <4>2
    <3>3. CASE d # c
      <4>1. PICK i \in 1 .. Len(acceptmbox) : acceptmbox[i] = d
        BY <2>1, <3>1, <3>3 DEF NothingLeaked
      <4>2. acceptmbox'[i] = d
        BY <4>1 DEF TypeInv
      <4> QED BY <3>1, <4>2
    <3> QED BY <3>2, <3>3
  <2>2. /\ netconns' = netconns + 1
        /\ UNCHANGED <<netbufs, datagrams, sntp, pc, inbuf, files, file, newconn>>
    OBVIOUS
  <2> HIDE DEF Connect
  <2> QED BY <1>2, <2>1, <2>2 DEF TypeInv, NothingLeaked
<1>7. OwnerInv'
  <2>1. Len(acceptmbox) \in Nat /\ acceptmbox'[Len(acceptmbox) + 1] = c
        /\ \A i \in 1 .. Len(acceptmbox) : acceptmbox'[i] = acceptmbox[i] /\ acceptmbox[i] # c
    BY <1>3, SMTT(20) DEF TypeInv
  <2>2. newconn # c
    BY <1>3 DEF TypeInv
  <2>3. newconn' = newconn /\ pc' = pc
    OBVIOUS
  <2> HIDE DEF Connect
  <2>4. \A i, j \in 1 .. Len(acceptmbox') : acceptmbox'[i] = acceptmbox'[j] => i = j
    <3> SUFFICES ASSUME NEW i \in 1 .. Len(acceptmbox) + 1, NEW j \in 1 .. Len(acceptmbox) + 1,
                        acceptmbox'[i] = acceptmbox'[j]
                 PROVE  i = j
      BY <1>4
    <3>1. CASE i = Len(acceptmbox) + 1 \/ j = Len(acceptmbox) + 1
      BY <2>1, <3>1
    <3>2. CASE i # Len(acceptmbox) + 1 /\ j # Len(acceptmbox) + 1
      <4>1. i \in 1 .. Len(acceptmbox) /\ j \in 1 .. Len(acceptmbox)
        BY <2>1, <3>2
      <4> QED BY <2>1, <4>1 DEF OwnerInv
    <3> QED BY <3>1, <3>2
  <2>5. \A i \in 1 .. Len(acceptmbox') : acceptmbox'[i] # newconn'
    <3> SUFFICES ASSUME NEW i \in 1 .. Len(acceptmbox) + 1 PROVE acceptmbox'[i] # newconn
      BY <1>4, <2>3
    <3>1. CASE i = Len(acceptmbox) + 1 BY <2>1, <2>2, <3>1
    <3>2. CASE i # Len(acceptmbox) + 1
      <4>1. i \in 1 .. Len(acceptmbox) BY <2>1, <3>2
      <4> QED BY <2>1, <4>1 DEF OwnerInv
    <3> QED BY <3>1, <3>2
  <2>6. Cardinality(allocated') = Len(acceptmbox') + IF pc' = "accept" THEN 0 ELSE 1
    BY <1>2, <1>4, <2>1, <2>3 DEF OwnerInv
  <2> QED BY <2>3, <2>4, <2>5, <2>6 DEF OwnerInv
<1>8. ControlInv' BY <1>3 DEF TypeInv, ControlInv
<1>9. AliveInv' BY <1>3 DEF TypeInv, AliveInv, OwnerInv, NeverWaitsOnTheDead
<1> QED BY <1>5, <1>6, <1>7, <1>8, <1>9

\* A message that is put in a mailbox with room.
LEMMA PostType ==
  ASSUME TypeInv, NEW c \in Conns, HasRoom(c), NEW m \in Messages,
         recvmbox' = [recvmbox EXCEPT ![c] = Append(@, m)]
  PROVE  /\ recvmbox' \in [Conns -> Seq(Messages)]
         /\ \A d \in Conns : Len(recvmbox'[d]) <= archMESG_QUEUE_LENGTH
         /\ \A d \in Conns : recvmbox[d] # <<>> => recvmbox'[d] # <<>>
         /\ recvmbox'[c] # <<>>
<1>1. recvmbox \in [Conns -> Seq(Messages)] /\ recvmbox[c] \in Seq(Messages)
  BY DEF TypeInv
<1>2. /\ Append(recvmbox[c], m) \in Seq(Messages)
      /\ Len(Append(recvmbox[c], m)) = Len(recvmbox[c]) + 1
      /\ Append(recvmbox[c], m) # <<>>
  BY <1>1
<1>3. Len(recvmbox[c]) + 1 <= archMESG_QUEUE_LENGTH
  BY <1>1, HttpdAssumption DEF HasRoom
<1>4. /\ recvmbox' \in [Conns -> Seq(Messages)] /\ recvmbox'[c] = Append(recvmbox[c], m)
      /\ \A d \in Conns \ {c} : recvmbox'[d] = recvmbox[d]
  BY <1>1, <1>2
<1> QED BY <1>2, <1>3, <1>4 DEF TypeInv

\* A segment changes no more than the mailbox of its netconn.
LEMMA ReceiveInv ==
  ASSUME Inv, NEW c \in Conns, NEW m \in Pages \cup {Other}, Receive(c, m)
  PROVE  Inv'
<1>1. /\ recvmbox' \in [Conns -> Seq(Messages)]
      /\ \A d \in Conns : Len(recvmbox'[d]) <= archMESG_QUEUE_LENGTH
      /\ \A d \in Conns : recvmbox[d] # <<>> => recvmbox'[d] # <<>>
  BY PostType DEF Receive, Inv, Messages
<1>2. UNCHANGED <<netconns, netbufs, files, acceptmbox, allocated, pcb, failed, state, offset,
                  unacked, finned, pc, newconn, inbuf, file, write, sntp, datagrams>>
  BY DEF Receive, server, others
<1> USE DEF Inv
<1>3. TypeInv' BY <1>1, <1>2 DEF TypeInv
<1>4. NothingLeaked' BY <1>2 DEF NothingLeaked
<1>5. OwnerInv' BY <1>2 DEF OwnerInv
<1>6. ControlInv' BY <1>2 DEF ControlInv
<1>7. AliveInv' BY <1>1, <1>2 DEF TypeInv, OwnerInv, AliveInv, NeverWaitsOnTheDead
<1> QED BY <1>3, <1>4, <1>5, <1>6, <1>7

\* So does the end of the client's data.
LEMMA FinInv == ASSUME Inv, NEW c \in Conns, Fin(c) PROVE Inv'
<1>1. /\ recvmbox' \in [Conns -> Seq(Messages)]
      /\ \A d \in Conns : Len(recvmbox'[d]) <= archMESG_QUEUE_LENGTH
      /\ \A d \in Conns : recvmbox[d] # <<>> => recvmbox'[d] # <<>>
  <2>1. CASE HasRoom(c)
    BY <2>1, PostType DEF Fin, Inv, Messages
  <2>2. CASE ~HasRoom(c)
    BY <2>2 DEF Fin, Inv, TypeInv
  <2> QED BY <2>1, <2>2
<1>2. /\ UNCHANGED <<netconns, netbufs, files, acceptmbox, allocated, pcb, failed, state, offset,
                     unacked, pc, newconn, inbuf, file, write, sntp, datagrams>>
      /\ finned' = finned \cup {c} /\ c \in pcb
  BY DEF Fin, server, others
<1> USE DEF Inv
<1>3. TypeInv' BY <1>1, <1>2 DEF TypeInv
<1>4. NothingLeaked' BY <1>2 DEF NothingLeaked
<1>5. OwnerInv' BY <1>2 DEF OwnerInv
<1>6. ControlInv' BY <1>2 DEF ControlInv
<1>7. AliveInv' BY <1>1, <1>2 DEF TypeInv, OwnerInv, AliveInv, NeverWaitsOnTheDead
<1> QED BY <1>3, <1>4, <1>5, <1>6, <1>7

\* err_tcp wakes the server wherever it waits for the connection.
LEMMA AbortInv == ASSUME Inv, NEW c \in Conns, Abort(c) PROVE Inv'
<1>1. /\ c \in pcb /\ pcb' = pcb \ {c} /\ failed' = failed \cup {c}
      /\ state' = [state EXCEPT ![c] = "none"]
      /\ UNCHANGED <<netconns, netbufs, files, acceptmbox, allocated, offset, unacked, finned,
                     newconn, inbuf, file, sntp, datagrams>>
  BY DEF Abort, others
<1>2. /\ recvmbox' \in [Conns -> Seq(Messages)]
      /\ \A d \in Conns : Len(recvmbox'[d]) <= archMESG_QUEUE_LENGTH
      /\ \A d \in Conns : recvmbox[d] # <<>> => recvmbox'[d] # <<>>
      /\ state[c] # "close" => recvmbox'[c] # <<>>
  <2>1. CASE HasRoom(c) /\ state[c] # "close"
    BY <2>1, PostType DEF Abort, Inv, Messages
  <2>2. CASE ~HasRoom(c) /\ state[c] # "close"
    <3>1. recvmbox' = recvmbox BY <2>2 DEF Abort
    <3>2. recvmbox[c] # <<>>
      BY <2>2, HttpdAssumption DEF HasRoom, Inv, TypeInv
    <3> QED BY <3>1, <3>2 DEF Inv, TypeInv
  <2>3. CASE state[c] = "close"
    BY <2>3 DEF Abort, Inv, TypeInv
  <2> QED BY <2>1, <2>2, <2>3
<1>3. \/ /\ state[c] = "write" /\ pc = "writing" /\ c = newconn
         /\ pc' \in {"write", "fs_close", "close"}
         /\ write' \in Nat
         /\ pc' = "write" => write' < Len(Writes[inbuf])
         /\ pc' = "fs_close" => inbuf \in StaticPages
         /\ pc' = "close" => inbuf \notin StaticPages
      \/ /\ state[c] = "close" /\ pc = "closing" /\ c = newconn
         /\ pc' = "netbuf_delete" /\ write' = write
      \/ /\ state[c] = "none" /\ ~(pc \in {"writing", "closing"} /\ c = newconn)
         /\ pc' = pc /\ write' = write
  <2>1. CASE state[c] = "write"
    <3>1. pc = "writing" /\ c = newconn BY <2>1 DEF Inv, ControlInv
    <3> QED BY <2>1, <3>1, AfterWriteSteps DEF Abort
  <2>2. CASE state[c] = "close"
    BY <2>2 DEF Abort, Goto, Inv, ControlInv
  <2>3. CASE state[c] = "none"
    BY <2>3 DEF Abort, Inv, ControlInv
  <2> QED BY <2>1, <2>2, <2>3 DEF Inv, TypeInv
<1> USE DEF Inv
<1>4. TypeInv' BY <1>1, <1>2, <1>3 DEF TypeInv
<1>5. NothingLeaked' BY <1>1, <1>3 DEF NothingLeaked
<1>6. OwnerInv' BY <1>1, <1>3 DEF OwnerInv
<1>7. ControlInv' BY <1>1, <1>3 DEF TypeInv, ControlInv
<1>8. AliveInv'
  <2>1. newconn \in allocated \/ pc \notin {"fetch", "writing", "closing", "netbuf_delete", "delete"}
    BY DEF TypeInv, OwnerInv
  <2> QED BY <1>1, <1>2, <1>3, <2>1 DEF TypeInv, AliveInv, NeverWaitsOnTheDead
<1> QED BY <1>4, <1>5, <1>6, <1>7, <1>8

\* sent_tcp and poll_tcp go on with the call in progress.
LEMMA GoOnInv ==
  ASSUME Inv, NEW c \in pcb, NEW acked \in 0 .. unacked[c], NEW memory \in BOOLEAN,
         GoOn(c, acked, memory),
         UNCHANGED <<netconns, netbufs, files, acceptmbox, allocated, failed, recvmbox, finned, others>>
  PROVE  Inv'
<1>1. c \in allocated /\ c \in Conns
  BY DEF Inv, TypeInv
<1>2. CASE state[c] = "write"
  <2>1. /\ c = newconn /\ pc = "writing" /\ DoWritemore(c, acked, memory)
        /\ UNCHANGED <<pcb, newconn, inbuf, file>>
    BY <1>1, <1>2 DEF GoOn, Inv, ControlInv
  <2>2. /\ unacked' \in [Conns -> 0 .. TCP_SND_BUF] /\ offset' \in [Conns -> Nat]
        /\ Wrote
    BY <1>1, <2>1, WritemoreSteps
  <2> QED BY <2>1, <2>2, WroteInv
<1>3. CASE state[c] = "close"
  <2>1. /\ c = newconn /\ pc = "closing" /\ DoCloseInternal(c, memory)
        /\ UNCHANGED <<offset, newconn, inbuf, file, write>>
        /\ unacked' = [unacked EXCEPT ![c] = @ - acked]
    BY <1>1, <1>3 DEF GoOn, Inv, ControlInv
  <2>2. unacked' \in [Conns -> 0 .. TCP_SND_BUF]
    <3>1. unacked[c] \in 0 .. TCP_SND_BUF /\ unacked \in [Conns -> 0 .. TCP_SND_BUF]
      BY <1>1 DEF Inv, TypeInv
    <3>2. unacked[c] - acked \in 0 .. TCP_SND_BUF
      BY <3>1, HttpdAssumption
    <3> QED BY <2>1, <3>1, <3>2
  <2>3. /\ recvmbox' \in [Conns -> Seq(Messages)]
        /\ \A d \in Conns : Len(recvmbox'[d]) <= archMESG_QUEUE_LENGTH
    BY DEF Inv, TypeInv
  <2> QED BY <2>1, <2>2, <2>3, ClosedInv
<1> QED BY <1>2, <1>3 DEF GoOn

\* An acknowledgement frees room and goes on with the call in progress.
LEMMA AckInv ==
  ASSUME Inv, NEW c \in Conns, NEW acked \in 1 .. TCP_SND_BUF, NEW memory \in BOOLEAN,
         Ack(c, acked, memory)
  PROVE  Inv'
<1>1. /\ c \in pcb /\ acked \in 0 .. unacked[c] /\ unacked[c] \in 0 .. TCP_SND_BUF
      /\ UNCHANGED <<netconns, netbufs, files, acceptmbox, allocated, failed, recvmbox, finned, others>>
  BY HttpdAssumption DEF Ack, Inv, TypeInv
<1>2. CASE GoOn(c, acked, memory)
  BY <1>1, <1>2, GoOnInv
<1>3. CASE ~GoOn(c, acked, memory)
  <2>1. /\ unacked' = [unacked EXCEPT ![c] = @ - acked]
        /\ UNCHANGED <<pcb, state, offset, server>>
    BY <1>3 DEF Ack
  <2>2. unacked' \in [Conns -> 0 .. TCP_SND_BUF]
    <3>1. unacked[c] - acked \in 0 .. TCP_SND_BUF
      BY <1>1, HttpdAssumption
    <3> QED BY <2>1, <3>1 DEF Inv, TypeInv
  <2> USE DEF Inv, server, others
  <2>3. TypeInv' BY <1>1, <2>1, <2>2 DEF TypeInv
  <2>4. NothingLeaked' BY <1>1, <2>1 DEF NothingLeaked
  <2>5. OwnerInv' BY <1>1, <2>1 DEF OwnerInv
  <2>6. ControlInv' BY <1>1, <2>1 DEF ControlInv
  <2>7. AliveInv' BY <1>1, <2>1 DEF AliveInv, NeverWaitsOnTheDead
  <2> QED BY <2>3, <2>4, <2>5, <2>6, <2>7
<1> QED BY <1>2, <1>3

\* The poll timer goes on with the call in progress.
LEMMA PollInv == ASSUME Inv, NEW c \in Conns, NEW memory \in BOOLEAN, Poll(c, memory) PROVE Inv'
<1>1. c \in pcb /\ 0 \in 0 .. unacked[c]
  BY HttpdAssumption DEF Poll, Inv, TypeInv
<1> QED BY <1>1, GoOnInv DEF Poll

\* The SNTP client takes from the pools and gives back what it took.
LEMMA SntpInv == Inv /\ (OpenSocket \/ CloseSocket \/ ReceiveDatagram) => Inv'
<1> SUFFICES ASSUME Inv, OpenSocket \/ CloseSocket \/ ReceiveDatagram PROVE Inv'
  OBVIOUS
<1>1. /\ netconns \in Nat /\ netconns <= MEMP_NUM_NETCONN
      /\ netbufs \in Nat /\ netbufs <= MEMP_NUM_NETBUF
      /\ datagrams \in Nat /\ sntp \in BOOLEAN
  BY DEF Inv, TypeInv
<1>2. Cardinality(allocated) \in Nat
  BY HttpdAssumption, FS_Subset, FS_CardinalityType DEF Inv, TypeInv
<1>3. PICK k \in 0 .. 1 : k = IF pc = "fetch" \/ inbuf # NULL THEN 1 ELSE 0
  OBVIOUS
<1>4. /\ netconns = 1 + Cardinality(allocated) + (IF sntp THEN 1 ELSE 0)
      /\ netbufs = datagrams + k
  BY <1>3 DEF Inv, NothingLeaked
<1>5. /\ UNCHANGED <<files, client, server>>
      /\ netconns' \in Nat /\ netconns' <= MEMP_NUM_NETCONN
      /\ netbufs' \in Nat /\ netbufs' <= MEMP_NUM_NETBUF
      /\ datagrams' \in Nat /\ sntp' \in BOOLEAN
      /\ netconns' = 1 + Cardinality(allocated) + (IF sntp' THEN 1 ELSE 0)
      /\ netbufs' = datagrams' + k
  <2>1. CASE OpenSocket
    <3>1. /\ ~sntp /\ sntp' = TRUE /\ netconns < MEMP_NUM_NETCONN /\ netconns' = netconns + 1
          /\ UNCHANGED <<netbufs, datagrams, files, client, server>>
      BY <2>1 DEF OpenSocket
    <3> QED BY <3>1, <1>1, <1>2, <1>4, HttpdAssumption
  <2>2. CASE CloseSocket
    <3>1. /\ sntp /\ sntp' = FALSE /\ netconns' = netconns - 1
          /\ datagrams' = 0 /\ netbufs' = netbufs - datagrams
          /\ UNCHANGED <<files, client, server>>
      BY <2>2 DEF CloseSocket
    <3>2. netconns = 1 + Cardinality(allocated) + 1
      BY <3>1, <1>4
    <3>3. /\ netconns' = 1 + Cardinality(allocated)
          /\ netconns' \in Nat /\ netconns' <= MEMP_NUM_NETCONN
      BY <3>1, <3>2, <1>1, <1>2, HttpdAssumption
    <3>4. netbufs' = k /\ k \in Nat /\ k <= MEMP_NUM_NETBUF
      BY <3>1, <1>1, <1>3, <1>4, HttpdAssumption
    <3>5. (IF sntp' THEN 1 ELSE 0) = 0 /\ sntp' \in BOOLEAN
      BY <3>1
    <3>6. netconns' = 1 + Cardinality(allocated) + (IF sntp' THEN 1 ELSE 0)
      BY <3>3, <3>5, <1>2
    <3>7. netbufs' = datagrams' + k /\ netbufs' \in Nat /\ netbufs' <= MEMP_NUM_NETBUF
          /\ datagrams' \in Nat
      BY <3>1, <3>4
    <3> QED BY <3>1, <3>3, <3>5, <3>6, <3>7
  <2>3. CASE ReceiveDatagram
    <3>1. /\ netbufs < MEMP_NUM_NETBUF
          /\ datagrams' = datagrams + 1 /\ netbufs' = netbufs + 1
          /\ UNCHANGED <<netconns, files, client, server, sntp>>
      BY <2>3 DEF ReceiveDatagram
    <3> QED BY <3>1, <1>1, <1>2, <1>4, HttpdAssumption
  <2> QED BY <2>1, <2>2, <2>3
<1> USE DEF Inv, client, server
<1>6. TypeInv' BY <1>5 DEF TypeInv
<1>7. NothingLeaked'
  <2>1. k = IF pc' = "fetch" \/ inbuf' # NULL THEN 1 ELSE 0
    BY <1>3, <1>5
  <2>2. UNCHANGED <<files, file, allocated, newconn, acceptmbox>>
    BY <1>5
  <2>3. /\ files' = IF file' = "open" THEN 1 ELSE 0
        /\ \A c \in allocated' : c = newconn' \/ \E i \in DOMAIN acceptmbox' : acceptmbox'[i] = c
    BY <2>2 DEF NothingLeaked
  <2>4. netconns' = 1 + Cardinality(allocated') + (IF sntp' THEN 1 ELSE 0)
    BY <1>5
  <2>5. netbufs' = datagrams' + (IF pc' = "fetch" \/ inbuf' # NULL THEN 1 ELSE 0)
    BY <1>5, <2>1
  <2> QED BY <2>3, <2>4, <2>5 DEF NothingLeaked
<1>8. OwnerInv' BY <1>5 DEF OwnerInv
<1>9. ControlInv' BY <1>5 DEF ControlInv
<1>10. AliveInv' BY <1>5 DEF AliveInv, NeverWaitsOnTheDead
<1> QED BY <1>6, <1>7, <1>8, <1>9, <1>10

\* Every step keeps the invariant.
LEMMA NextInv == Inv /\ [Next]_vars => Inv'
<1> SUFFICES ASSUME Inv, [Next]_vars PROVE Inv'
  OBVIOUS
<1>1. CASE Serve
  <2>1. CASE Accept       BY <2>1, AcceptInv
  <2>2. CASE Recv         BY <2>2, RecvInv
  <2>3. CASE Fetch        BY <2>3, FetchInv
  <2>4. CASE Request      BY <2>4, RequestInv
  <2>5. CASE FsClose      BY <2>5, FsCloseInv
  <2>6. CASE NetbufDelete BY <2>6, NetbufDeleteInv
  <2>7. CASE Delete       BY <2>7, DeleteInv
  <2>8. CASE \E memory \in BOOLEAN : Write(memory) \/ Close(memory)
    BY <2>8, WriteInv, CloseInv
  <2> QED BY <1>1, <2>1, <2>2, <2>3, <2>4, <2>5, <2>6, <2>7, <2>8 DEF Serve
<1>2. CASE OpenSocket \/ CloseSocket \/ ReceiveDatagram
  BY <1>2, SntpInv
<1>3. ASSUME NEW c \in Conns, Network(c) PROVE Inv'
  <2>1. CASE Connect(c) BY <2>1, ConnectInv
  <2>2. CASE Fin(c)     BY <2>2, FinInv
  <2>3. CASE Abort(c)   BY <2>3, AbortInv
  <2>4. ASSUME NEW m \in Pages \cup {Other}, Receive(c, m) PROVE Inv'
    BY <2>4, ReceiveInv
  <2>5. ASSUME NEW acked \in 1 .. TCP_SND_BUF, NEW memory \in BOOLEAN, Ack(c, acked, memory)
        PROVE  Inv'
    BY <2>5, AckInv
  <2>6. ASSUME NEW memory \in BOOLEAN, Poll(c, memory) PROVE Inv'
    BY <2>6, PollInv
  <2> QED BY <1>3, <2>1, <2>2, <2>3, <2>4, <2>5, <2>6 DEF Network, Speaks, Reads
<1>4. CASE UNCHANGED vars
  <2>1. UNCHANGED <<netconns, netbufs, files, acceptmbox, allocated, pcb, failed, state, offset,
                    unacked, recvmbox, finned, server, others>>
    BY <1>4 DEF vars, client
  <2> USE DEF Inv, server, others
  <2>2. TypeInv' BY <2>1 DEF TypeInv
  <2>3. NothingLeaked' BY <2>1 DEF NothingLeaked
  <2>4. OwnerInv' BY <2>1 DEF OwnerInv
  <2>5. ControlInv' BY <2>1 DEF ControlInv
  <2>6. AliveInv' BY <2>1 DEF AliveInv, NeverWaitsOnTheDead
  <2> QED BY <2>2, <2>3, <2>4, <2>5, <2>6
<1> QED BY <1>1, <1>2, <1>3, <1>4 DEF Next

\* The inductive invariant holds: the types, the owner of each pool entry, the
\* agreement of conn->state with where the server waits, and the netconns that
\* have lost their pcb.
THEOREM Invariance == Spec => []Inv
BY InitInv, NextInv, PTL DEF Spec

-----------------------------------------------------------------------------

\* Types and limits: no pool or mailbox overruns, and a netconn that
\* accept_function announces always finds room in the accept mailbox.
THEOREM TypeCorrect == Spec => []TypeOK
<1>1. Inv => TypeOK
  <2> SUFFICES ASSUME Inv PROVE TypeOK
    OBVIOUS
  <2>1. Cardinality(allocated) \in Nat
    BY HttpdAssumption, FS_Subset, FS_CardinalityType DEF Inv, TypeInv
  <2>2. Len(acceptmbox) \in Nat /\ netconns \in Nat /\ netconns <= MEMP_NUM_NETCONN
    BY DEF Inv, TypeInv
  <2>3. Len(acceptmbox) <= Cardinality(allocated)
    BY <2>1, <2>2 DEF Inv, OwnerInv
  <2>4. 1 + Cardinality(allocated) <= netconns
    BY <2>1, <2>2 DEF Inv, NothingLeaked
  <2>5. Len(acceptmbox) <= archMESG_QUEUE_LENGTH /\ netconns \in 1 .. MEMP_NUM_NETCONN
    BY <2>1, <2>2, <2>3, <2>4, HttpdAssumption, AcceptAssumption
  <2>6. netbufs \in 0 .. MEMP_NUM_NETBUF /\ files \in 0 .. LWIP_MAX_OPEN_FILES
    BY HttpdAssumption DEF Inv, TypeInv
  <2>7. file \in {"none", "open", NULL}
    BY DEF Inv, ControlInv
  <2> QED BY <2>5, <2>6, <2>7 DEF Inv, TypeInv, TypeOK, Messages
<1> QED BY <1>1, Invariance, PTL

\* No path of http_server_serve loses a netconn, a netbuf or a file, whichever
\* of its calls fail.
THEOREM NoLeak == Spec => []NothingLeaked
BY Invariance, PTL DEF Inv

\* fs_open never returns NULL to http_server_serve, which does not look.
THEOREM FilesOpen == Spec => []FileIsOpen
<1>1. Inv => FileIsOpen BY DEF Inv, ControlInv, FileIsOpen
<1> QED BY <1>1, Invariance, PTL

\* The server never waits for a callback of a connection that is gone.
THEOREM NoDeadWait == Spec => []NeverWaitsOnTheDead
BY Invariance, PTL DEF Inv, AliveInv

\* netconn_delete finds nothing in progress and no pcb, as netconn_free asserts.
THEOREM CleanDelete == Spec => []DeleteIsClean
<1>1. Inv => DeleteIsClean
  <2> SUFFICES ASSUME Inv, pc = "delete" PROVE newconn \notin pcb /\ state[newconn] = "none"
    BY DEF DeleteIsClean
  <2>1. newconn \in Conns
    BY DEF Inv, TypeInv, OwnerInv
  <2> QED BY <2>1 DEF Inv, TypeInv, ControlInv, AliveInv
<1> QED BY <1>1, Invariance, PTL

-----------------------------------------------------------------------------
(* What was sent *)

\* A unit of a page: its write, and its place there.
Unit == Nat \X Nat

\* The first n units of write w, and all of a page's first k writes.
Piece(w, n) == [i \in 1 .. n |-> <<w, i>>]

Before(p, k) ==
  IF k = 0 THEN <<>>
  ELSE IF k = 1 THEN Piece(1, Writes[p][1])
  ELSE Piece(1, Writes[p][1]) \o Piece(2, Writes[p][2])

\* A connection that is not the server's has been sent nothing; the server's has
\* been sent the writes that are done, and of the one in progress what
\* conn->write_offset says.
SentInv ==
  /\ sent \in [Conns -> Seq(Unit)]
  /\ \A c \in Conns : c # newconn \/ pc \in {"recv", "fetch", "request"} => sent[c] = <<>>
  /\ pc = "writing" => newconn \notin failed
  /\ newconn \notin failed /\ inbuf \in Pages =>
       /\ pc = "write" => sent[newconn] = Before(inbuf, write)
       /\ pc = "writing" =>
            sent[newconn] = Before(inbuf, write) \o Piece(write + 1, offset[newconn])
       /\ pc \in {"fs_close", "close", "closing"} =>
            sent[newconn] = Before(inbuf, Len(Writes[inbuf]))

\* A piece has its length, and its units in order.
LEMMA PieceIs ==
  ASSUME NEW w \in Nat, NEW n \in Nat
  PROVE  /\ Piece(w, n) \in Seq(Unit) /\ Len(Piece(w, n)) = n
         /\ \A i \in 1 .. n : Piece(w, n)[i] = <<w, i>>
BY DEF Piece, Unit

\* u is the n units of write w that follow its first a.
Continues(u, w, a, n) == Len(u) = n /\ \A i \in 1 .. n : u[i] = <<w, a + i>>

\* Writing on where the piece ends makes a longer piece.
LEMMA PieceGrows ==
  ASSUME NEW w \in Nat, NEW a \in Nat, NEW b \in Nat,
         NEW u \in Seq(Unit), Continues(u, w, a, b)
  PROVE  Piece(w, a) \o u = Piece(w, a + b)
<1>1. u \in Seq(Unit) /\ Len(u) = b /\ \A i \in 1 .. b : u[i] = <<w, a + i>>
  BY DEF Continues
<1>2. PICK s \in Seq(Unit) : /\ s = Piece(w, a) /\ Len(s) = a
                                   /\ \A i \in 1 .. a : s[i] = <<w, i>>
  BY PieceIs
<1>3. PICK t \in Seq(Unit) : /\ t = Piece(w, a + b) /\ Len(t) = a + b
                                   /\ \A i \in 1 .. a + b : t[i] = <<w, i>>
  <2>1. a + b \in Nat
    OBVIOUS
  <2> QED BY <2>1, PieceIs
<1>4. /\ s \o u \in Seq(Unit) /\ Len(s \o u) = a + b
      /\ \A i \in 1 .. a + b : (s \o u)[i] = IF i <= a THEN s[i] ELSE u[i - a]
  <2>1. /\ s \o u \in Seq(Unit) /\ Len(s \o u) = Len(s) + Len(u)
        /\ \A i \in 1 .. Len(s) + Len(u) :
             (s \o u)[i] = IF i <= Len(s) THEN s[i] ELSE u[i - Len(s)]
    BY <1>1, ConcatProperties
  <2> QED BY ONLY <1>1, <1>2, <2>1
<1>5. \A i \in 1 .. a + b : (s \o u)[i] = t[i]
  <2> SUFFICES ASSUME NEW i \in 1 .. a + b PROVE (s \o u)[i] = t[i]
    OBVIOUS
  <2>1. CASE i <= a
    <3>1. i \in 1 .. a
      BY <2>1
    <3> QED BY <1>2, <1>3, <1>4, <2>1, <3>1
  <2>2. CASE ~(i <= a)
    <3>1. i - a \in 1 .. b /\ a + (i - a) = i
      BY <2>2
    <3> QED BY <1>1, <1>3, <1>4, <2>2, <3>1
  <2> QED BY <2>1, <2>2
<1>6. PICK v \in Seq(Unit) : v = s \o u
  BY <1>4
<1>7. v = t
  <2>1. Len(v) = a + b /\ \A i \in 1 .. a + b : v[i] = t[i]
    BY <1>4, <1>5, <1>6
  <2>2. \A S : \A x, y \in Seq(S) : Len(x) = Len(y) /\ (\A i \in 1 .. Len(x) : x[i] = y[i]) => x = y
    BY SeqEqual
  <2> QED BY ONLY <1>3, <1>6, <2>1, <2>2
<1>8. Piece(w, a) \o u = Piece(w, a + b)
  BY ONLY <1>2, <1>3, <1>6, <1>7
<1> QED BY <1>8

\* A page's writes, one after the other.
LEMMA BeforeIs ==
  ASSUME NEW p \in Pages, NEW k \in Nat, k < Len(Writes[p])
  PROVE  /\ Before(p, k) \in Seq(Unit)
         /\ Before(p, k) \o Piece(k + 1, Writes[p][k + 1]) = Before(p, k + 1)
<1>1. /\ Len(Writes[p]) \in {1, 2} /\ k \in {0, 1}
      /\ \A w \in 1 .. Len(Writes[p]) : Writes[p][w] \in Nat
  <2>1. Len(Writes[p]) = 1 \/ Len(Writes[p]) = 2
    BY WritesAssumption
  <2>2. \A w \in 1 .. Len(Writes[p]) : Writes[p][w] \in Nat
    BY WritesType
  <2>3. k = 0 \/ k = 1
    <3>1. PICK n : n = Len(Writes[p])
      OBVIOUS
    <3>2. k < n /\ k \in Nat
      BY <3>1
    <3>3. n = 1 \/ n = 2
      BY <2>1, <3>1
    <3> QED BY ONLY <3>2, <3>3
  <2> QED BY ONLY <2>1, <2>2, <2>3
<1>2. k + 1 \in 1 .. Len(Writes[p]) /\ Writes[p][k + 1] \in Nat /\ Writes[p][1] \in Nat
  BY <1>1
<1>3. Piece(1, Writes[p][1]) \in Seq(Unit)
  BY <1>2, PieceIs
<1>4. CASE k = 0
  <2>1. Before(p, k) = <<>> /\ Before(p, k + 1) = Piece(1, Writes[p][1]) /\ k + 1 = 1
    BY <1>4 DEF Before
  <2> QED BY <1>3, <2>1, ConcatEmptySeq
<1>5. CASE k = 1
  BY <1>3, <1>5 DEF Before
<1> QED BY <1>1, <1>4, <1>5

\* do_writemore gives TCP what follows.
LEMMA WritemoreSends ==
  ASSUME Inv, SentInv, newconn \in pcb, newconn \notin failed,
         NEW acked \in 0 .. unacked[newconn], NEW memory \in BOOLEAN,
         pc \in {"write", "writing"},
         DoWritemore(newconn, acked, memory),
         UNCHANGED <<failed, newconn, inbuf>>
  PROVE  SentInv'
<1> DEFINE size == Writes[inbuf][write + 1] - offset[newconn]
           room == TCP_SND_BUF - unacked[newconn] + acked
           len  == IF ~memory THEN 0 ELSE IF size < room THEN size ELSE room
<1>1. /\ newconn \in Conns /\ unacked[newconn] \in 0 .. TCP_SND_BUF /\ offset[newconn] \in Nat
      /\ offset \in [Conns -> Nat]
      /\ TCP_SND_BUF \in Nat /\ inbuf \in Pages /\ write \in Nat /\ write < Len(Writes[inbuf])
      /\ pc = "write" => offset[newconn] = 0
  BY HttpdAssumption DEF Inv, TypeInv, ControlInv
<1>2. Writes[inbuf][write + 1] \in Nat /\ offset[newconn] <= Writes[inbuf][write + 1]
  <2>1. write + 1 \in 1 .. Len(Writes[inbuf])
    <3>1. Len(Writes[inbuf]) \in Nat
      BY <1>1, WritesType
    <3> QED BY ONLY <1>1, <3>1
  <2>2. Writes[inbuf][write + 1] \in Nat
    BY ONLY <1>1, <2>1, WritesType
  <2>3. pc = "writing" => offset[newconn] <= Writes[inbuf][write + 1]
    BY DEF Inv, ControlInv
  <2> QED BY ONLY <1>1, <2>2, <2>3, pc \in {"write", "writing"}
<1>3. len \in Nat /\ len <= size /\ size \in Nat
  <2>1. size \in Nat
    BY <1>1, <1>2
  <2>2. room \in Nat
    BY <1>1
  <2> HIDE DEF size, room
  <2> QED BY <2>1, <2>2
<1>4. PICK u : u = [i \in 1 .. len |-> <<write + 1, offset[newconn] + i>>]
  OBVIOUS
<1>5. /\ sent' = [sent EXCEPT ![newconn] = sent[newconn] \o u]
      /\ IF len = size
         THEN AfterWrite
         ELSE /\ offset' = [offset EXCEPT ![newconn] = offset[newconn] + len]
              /\ pc' = "writing" /\ write' = write
  BY <1>4 DEF DoWritemore, Goto, Units
<1>6. PICK done \in Seq(Unit) : done = Before(inbuf, write)
  BY <1>1, BeforeIs
<1>7. PICK piece \in Seq(Unit) : piece = Piece(write + 1, offset[newconn])
  <2>1. write + 1 \in Nat
    BY <1>1
  <2> QED BY <1>1, <2>1, PieceIs
<1>8. sent[newconn] = done \o piece
  <2>1. CASE pc = "writing"
    BY <1>1, <1>6, <1>7, <2>1 DEF SentInv
  <2>2. CASE pc = "write"
    <3>1. piece = <<>>
      BY <1>1, <1>7, <2>2 DEF Piece
    <3>2. sent[newconn] = done
      BY <1>1, <1>6, <2>2 DEF SentInv
    <3> QED BY <3>1, <3>2, <1>6, ConcatEmptySeq
  <2> QED BY <2>1, <2>2
<1> HIDE DEF len, size
<1>9. /\ u \in Seq(Unit)
      /\ piece \o u = Piece(write + 1, offset[newconn] + len)
  <2>1. PICK w \in Nat : w = write + 1
    BY <1>1
  <2>2. PICK a \in Nat : a = offset[newconn]
    BY <1>1
  <2>3. PICK b \in Nat : b = len
    BY <1>3
  <2>4. u = [i \in 1 .. b |-> <<w, a + i>>]
    BY <1>4, <2>1, <2>2, <2>3
  <2>5. u \in Seq(Unit) /\ Continues(u, w, a, b)
    BY <2>4 DEF Unit, Continues
  <2>6. Piece(w, a) \o u = Piece(w, a + b)
    <3>1. \A x, y, z \in Nat : \A q \in Seq(Unit) :
            Continues(q, x, y, z) => Piece(x, y) \o q = Piece(x, y + z)
      BY ONLY PieceGrows, Zenon
    <3>2. \A q \in Seq(Unit) : Continues(q, w, a, b) => Piece(w, a) \o q = Piece(w, a + b)
      BY <3>1, Zenon
    <3> QED BY ONLY <2>5, <3>2, Zenon
  <2> QED BY ONLY <1>7, <2>1, <2>2, <2>3, <2>5, <2>6
<1>10. (done \o piece) \o u = done \o (piece \o u)
  <2>1. \A S : \A x, y, z \in Seq(S) : (x \o y) \o z = x \o (y \o z)
    BY ConcatAssociative
  <2>2. u \in Seq(Unit)
    BY <1>9
  <2> QED BY ONLY <2>1, <2>2, done \in Seq(Unit), piece \in Seq(Unit)
<1>11. /\ sent' \in [Conns -> Seq(Unit)]
       /\ sent'[newconn] = Before(inbuf, write) \o Piece(write + 1, offset[newconn] + len)
       /\ \A c \in Conns : c # newconn => sent'[c] = sent[c]
  <2>1. sent \in [Conns -> Seq(Unit)]
    BY DEF SentInv
  <2>2. PICK q : q = (done \o piece) \o u
    OBVIOUS
  <2>3. q \in Seq(Unit)
    BY <1>9, <2>2, ConcatProperties
  <2>4. sent' = [sent EXCEPT ![newconn] = q]
    BY <1>5, <1>8, <2>2
  <2>5. q = Before(inbuf, write) \o Piece(write + 1, offset[newconn] + len)
    BY ONLY <1>6, <1>9, <1>10, <2>2
  <2> QED BY <1>1, <2>1, <2>3, <2>4, <2>5
<1>12. \A c \in Conns : c # newconn => sent'[c] = <<>>
  BY <1>11 DEF SentInv
<1>13. CASE len = size
  <2>1. offset[newconn] + len = Writes[inbuf][write + 1]
    BY <1>1, <1>2, <1>13 DEF size
  <2>2. sent'[newconn] = Before(inbuf, write + 1)
    BY <1>1, <1>11, <2>1, BeforeIs
  <2>3. /\ write' = write + 1
        /\ pc' = IF write + 1 < Len(Writes[inbuf]) THEN "write"
                 ELSE IF inbuf \in StaticPages THEN "fs_close" ELSE "close"
    BY <1>5, <1>13 DEF AfterWrite, Goto
  <2>4. Len(Writes[inbuf]) \in Nat
    BY <1>1, WritesType
  <2>5. pc' # "write" => write + 1 = Len(Writes[inbuf])
    BY <1>1, <2>3, <2>4
  <2>6. pc' \in {"write", "fs_close", "close"}
    BY <2>3
  <2> QED BY <1>11, <1>12, <2>2, <2>3, <2>5, <2>6 DEF SentInv
<1>14. CASE len # size
  <2>1. /\ offset'[newconn] = offset[newconn] + len
        /\ pc' = "writing" /\ write' = write
    BY <1>1, <1>5, <1>14
  <2> QED BY <1>11, <1>12, <2>1 DEF SentInv
<1> QED BY <1>13, <1>14

\* A step that sends nothing and moves the server at most past a page.
LEMMA SentKept ==
  ASSUME SentInv, UNCHANGED <<sent, newconn, inbuf, write, offset>>, failed \subseteq failed',
         pc' = "writing" /\ newconn \in failed' => newconn \in failed,
         \/ pc' = pc
         \/ /\ pc \in {"fs_close", "close", "closing"}
            /\ pc' \in {"fs_close", "close", "closing", "netbuf_delete"}
  PROVE  SentInv'
BY DEF SentInv

\* A step that sends nothing, and after which nothing is said of the page.
LEMMA SentUntold ==
  ASSUME SentInv, sent' = sent, newconn' = newconn,
         pc' \in {"recv", "fetch", "request"} => pc \in {"recv", "fetch", "request"},
         pc' # "writing",
         \/ newconn' \in failed'
         \/ inbuf' \notin Pages
         \/ pc' \notin {"write", "writing", "fs_close", "close", "closing"}
  PROVE  SentInv'
BY DEF SentInv

\* What was sent agrees with the write in progress at every step.
LEMMA SentStep == Inv /\ SentInv /\ [Next]_vars => SentInv'
<1> SUFFICES ASSUME Inv, SentInv, [Next]_vars PROVE SentInv'
  OBVIOUS
<1>1. CASE UNCHANGED vars
  <2>1. UNCHANGED <<sent, newconn, inbuf, write, offset, failed, pc>>
    BY <1>1 DEF vars, client, server
  <2> QED BY <2>1, SentKept
<1>2. CASE OpenSocket \/ CloseSocket \/ ReceiveDatagram
  <2>1. UNCHANGED <<sent, newconn, inbuf, write, offset, failed, pc>>
    BY <1>2 DEF OpenSocket, CloseSocket, ReceiveDatagram, client, server
  <2> QED BY <2>1, SentKept
<1>3. ASSUME NEW c \in Conns, Connect(c) \/ Fin(c) \/ \E m \in Pages \cup {Other} : Receive(c, m)
      PROVE  SentInv'
  <2>1. UNCHANGED <<sent, newconn, inbuf, write, offset, failed, pc>>
    BY <1>3 DEF Connect, Fin, Receive, server
  <2> QED BY <2>1, SentKept
<1>4. ASSUME NEW c \in Conns, Abort(c) PROVE SentInv'
  <2>1. /\ UNCHANGED <<sent, newconn, inbuf, offset>>
        /\ failed' = failed \cup {c} /\ c \in Conns
        /\ \/ state[c] = "write" /\ AfterWrite
           \/ state[c] = "close" /\ pc' = "netbuf_delete"
           \/ state[c] = "none" /\ UNCHANGED <<pc, write>>
    BY <1>4 DEF Abort, Goto
  <2>2. CASE state[c] = "none" /\ UNCHANGED <<pc, write>>
    <3>1. pc = "writing" => c # newconn
      BY <2>2 DEF Inv, ControlInv
    <3> QED BY <2>1, <2>2, <3>1, SentKept
  <2>3. CASE state[c] = "write" /\ AfterWrite
    <3>1. c = newconn
      BY <2>3 DEF Inv, ControlInv
    <3>2. pc' \in {"write", "fs_close", "close"}
      BY <2>3 DEF AfterWrite, Goto
    <3> QED BY <2>1, <3>1, <3>2, SentUntold
  <2>4. CASE state[c] = "close" /\ pc' = "netbuf_delete"
    BY <2>1, <2>4, SentUntold
  <2> QED BY <2>1, <2>2, <2>3, <2>4
<1>5. ASSUME NEW c \in Conns, NEW acked \in 0 .. unacked[c], NEW memory \in BOOLEAN,
             c \in pcb, GoOn(c, acked, memory), failed' = failed
      PROVE  SentInv'
  <2>1. CASE state[c] = "write"
    <3>1. c = newconn /\ pc = "writing"
      BY <2>1 DEF Inv, ControlInv
    <3>2. DoWritemore(newconn, acked, memory) /\ UNCHANGED <<failed, newconn, inbuf>>
      BY <1>5, <2>1, <3>1 DEF GoOn
    <3>3. newconn \notin failed
      BY <3>1 DEF SentInv
    <3> QED BY <1>5, <3>1, <3>2, <3>3, WritemoreSends
  <2>2. CASE state[c] = "close"
    <3>1. pc = "closing"
      BY <2>2 DEF Inv, ControlInv
    <3>2. UNCHANGED <<sent, newconn, inbuf, write, offset>> /\ DoCloseInternal(c, memory)
      BY <1>5, <2>2 DEF GoOn
    <3>3. pc' \in {"closing", "netbuf_delete"}
      BY <3>2 DEF DoCloseInternal, Goto
    <3> QED BY <1>5, <3>1, <3>2, <3>3, SentKept
  <2> QED BY <1>5, <2>1, <2>2 DEF GoOn
<1>6. ASSUME NEW c \in Conns, NEW acked \in 1 .. TCP_SND_BUF, NEW memory \in BOOLEAN,
             Ack(c, acked, memory)
      PROVE  SentInv'
  <2>1. acked \in 0 .. unacked[c] /\ c \in pcb /\ failed' = failed
    BY <1>6 DEF Ack, Inv, TypeInv
  <2>2. CASE GoOn(c, acked, memory)
    BY <1>5, <2>1, <2>2
  <2>3. CASE UNCHANGED <<pcb, state, offset, sent, server>>
    BY <2>1, <2>3, SentKept DEF server
  <2> QED BY <1>6, <2>2, <2>3 DEF Ack
<1>7. ASSUME NEW c \in Conns, NEW memory \in BOOLEAN, Poll(c, memory) PROVE SentInv'
  <2>1. 0 \in 0 .. unacked[c]
    BY HttpdAssumption DEF Inv, TypeInv
  <2> QED BY <1>5, <1>7, <2>1 DEF Poll
<1>8. CASE Accept
  <2>1. /\ UNCHANGED <<sent, failed, inbuf>> /\ pc' = "recv"
        /\ pc = "accept" /\ newconn = NoConn /\ NoConn \notin Conns
    BY <1>8, HttpdAssumption DEF Accept, Goto, Inv, OwnerInv
  <2> QED BY <2>1 DEF SentInv
<1>9. CASE Recv
  <2>1. UNCHANGED <<sent, failed, inbuf, newconn>> /\ pc = "recv" /\ pc' \in {"fetch", "close"}
    BY <1>9 DEF Recv, Goto, client
  <2>2. inbuf \notin Pages
    BY <2>1, HttpdAssumption DEF Inv, ControlInv
  <2> QED BY <2>1, <2>2, SentUntold
<1>10. CASE Fetch
  <2>1. /\ UNCHANGED <<sent, newconn>> /\ pc = "fetch"
        /\ pc' # "request" => pc' = "close" /\ newconn' \in failed'
    BY <1>10 DEF Fetch, Goto
  <2> QED BY <2>1, SentUntold
<1>11. CASE Request
  <2>1. /\ UNCHANGED <<sent, failed, inbuf, newconn, write>> /\ pc = "request" /\ write = 0
        /\ \/ pc' = "write"
           \/ pc' = "close" /\ (newconn \in failed \/ inbuf \notin Pages)
    BY <1>11, HttpdAssumption DEF Request, FsOpen, Goto, client, Inv, ControlInv
  <2>2. CASE pc' = "close"
    BY <2>1, <2>2, SentUntold
  <2>3. CASE pc' = "write"
    <3>1. newconn \in Conns
      BY <2>1 DEF Inv, TypeInv, OwnerInv
    <3>2. sent[newconn] = <<>> /\ Before(inbuf, 0) = <<>>
      BY <2>1, <3>1 DEF SentInv, Before
    <3> QED BY <2>1, <2>3, <3>1, <3>2 DEF SentInv
  <2> QED BY <2>1, <2>2, <2>3
<1>12. ASSUME NEW memory \in BOOLEAN, Write(memory) PROVE SentInv'
  <2>1. pc = "write" /\ UNCHANGED <<failed, newconn, inbuf>> /\ newconn \in allocated
    BY <1>12 DEF Write, Inv, TypeInv, OwnerInv
  <2>2. CASE newconn \in failed
    <3>1. sent' = sent /\ pc' \in {"write", "fs_close", "close"}
      BY <1>12, <2>2 DEF Write, AfterWrite, Goto
    <3> QED BY <2>1, <2>2, <3>1, SentUntold
  <2>3. CASE newconn \notin failed
    <3>1. newconn \in pcb /\ newconn \in Conns
      BY <2>1, <2>3 DEF Inv, TypeInv, AliveInv
    <3>2. 0 \in 0 .. unacked[newconn]
      BY <3>1, HttpdAssumption DEF Inv, TypeInv
    <3>3. DoWritemore(newconn, 0, memory)
      BY <1>12, <2>3 DEF Write
    <3> QED BY <2>1, <2>3, <3>1, <3>2, <3>3, WritemoreSends
  <2> QED BY <2>2, <2>3
<1>13. CASE FsClose
  <2>1. /\ UNCHANGED <<sent, failed, inbuf, newconn, write, offset>>
        /\ pc = "fs_close" /\ pc' = "close"
    BY <1>13 DEF FsClose, Goto, client
  <2> QED BY <2>1, SentKept
<1>14. ASSUME NEW memory \in BOOLEAN, Close(memory) PROVE SentInv'
  <2>1. /\ UNCHANGED <<sent, failed, inbuf, newconn, write, offset>>
        /\ pc = "close" /\ pc' \in {"closing", "netbuf_delete"}
    BY <1>14 DEF Close, DoCloseInternal, Goto
  <2> QED BY <2>1, SentKept
<1>15. CASE NetbufDelete
  <2>1. UNCHANGED <<sent, newconn>> /\ pc' = "delete"
    BY <1>15 DEF NetbufDelete, Goto, client
  <2> QED BY <2>1, SentUntold
<1>16. CASE Delete
  <2>1. /\ newconn \in Conns /\ newconn' = NoConn /\ NoConn \notin Conns /\ pc' = "accept"
        /\ sent' = [sent EXCEPT ![newconn] = <<>>]
        /\ \A c \in Conns : c # newconn => sent[c] = <<>>
    BY <1>16, HttpdAssumption DEF Delete, Goto, Inv, TypeInv, OwnerInv, SentInv
  <2>2. sent' \in [Conns -> Seq(Unit)]
    <3>1. <<>> \in Seq(Unit)
      OBVIOUS
    <3> QED BY <2>1, <3>1 DEF SentInv
  <2>3. \A c \in Conns : sent'[c] = <<>>
    BY <2>1 DEF SentInv
  <2> QED BY <2>1, <2>2, <2>3 DEF SentInv
<1> QED
  BY <1>1, <1>2, <1>3, <1>4, <1>6, <1>7, <1>8, <1>9, <1>10, <1>11, <1>12, <1>13, <1>14,
     <1>15, <1>16 DEF Next, Serve, Network, Speaks, Reads

\* A client whose connection has not failed is sent the whole page it asked
\* for, in order, in whatever pieces do_writemore found room for.
THEOREM PageWhole == Spec => []WholePage
<1>1. Init => SentInv
  <2> SUFFICES ASSUME Init PROVE SentInv
    OBVIOUS
  <2>1. sent = [c \in Conns |-> <<>>] /\ pc = "accept"
    BY DEF Init
  <2>2. <<>> \in Seq(Unit)
    OBVIOUS
  <2> QED BY <2>1, <2>2 DEF SentInv
<1>2. SentInv => WholePage
  <2> SUFFICES ASSUME SentInv, pc \in {"fs_close", "close", "closing"},
                      inbuf \in Pages, newconn \notin failed
               PROVE  sent[newconn] = IF Len(Writes[inbuf]) = 1 THEN PageOf(inbuf)[1]
                                      ELSE PageOf(inbuf)[1] \o PageOf(inbuf)[2]
    BY DEF WholePage
  <2>1. Len(Writes[inbuf]) = 1 \/ Len(Writes[inbuf]) = 2
    BY WritesAssumption
  <2>2. DOMAIN Writes[inbuf] = 1 .. Len(Writes[inbuf])
    BY HttpdAssumption
  <2>3. \A w \in DOMAIN Writes[inbuf] : PageOf(inbuf)[w] = Piece(w, Writes[inbuf][w])
    BY DEF PageOf, Piece
  <2>4. sent[newconn] = Before(inbuf, Len(Writes[inbuf]))
    BY DEF SentInv
  <2>5. CASE Len(Writes[inbuf]) = 1
    <3>1. 1 \in DOMAIN Writes[inbuf]
      BY <2>2, <2>5
    <3> QED BY <2>3, <2>4, <2>5, <3>1 DEF Before
  <2>6. CASE Len(Writes[inbuf]) = 2
    <3>1. 1 \in DOMAIN Writes[inbuf] /\ 2 \in DOMAIN Writes[inbuf]
      BY <2>2, <2>6
    <3>2. Before(inbuf, 2) = Piece(1, Writes[inbuf][1]) \o Piece(2, Writes[inbuf][2])
      BY DEF Before
    <3>3. /\ PageOf(inbuf)[1] = Piece(1, Writes[inbuf][1])
          /\ PageOf(inbuf)[2] = Piece(2, Writes[inbuf][2])
      BY <2>3, <3>1
    <3>4. sent[newconn] = PageOf(inbuf)[1] \o PageOf(inbuf)[2]
      BY ONLY <2>4, <2>6, <3>2, <3>3
    <3>5. Len(Writes[inbuf]) # 1
      BY <2>6
    <3> QED BY ONLY <3>4, <3>5
  <2> QED BY <2>1, <2>5, <2>6
<1>3. Spec => []SentInv
  <2>1. Inv /\ SentInv /\ [Next]_vars => SentInv'
    BY SentStep
  <2> QED BY <1>1, <2>1, Invariance, PTL DEF Spec
<1> QED BY <1>2, <1>3, PTL

=============================================================================
