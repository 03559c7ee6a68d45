------------------------------- MODULE Httpd -------------------------------
(***************************************************************************)
(* The web server: one thread that accepts a connection, reads one         *)
(* request, writes the page, closes the connection and accepts the next,   *)
(* on lwIP's sequential API.  A call of the API is one step, made in       *)
(* tcpip_thread while the server waits; a call that must wait leaves the   *)
(* connection in state "write" or "close", and the callbacks of TCP (more  *)
(* was acknowledged, the poll timer, the connection was aborted) go on     *)
(* with it and wake the server.                                            *)
(*                                                                         *)
(* A request is the name of the page it asks for; Other is a segment that  *)
(* is not a GET.  Pages are counted in units of the send buffer.  The      *)
(* server's set-up, the text of the pages and the hit counter are left     *)
(* out; the SNTP client's socket and its datagrams take entries of the     *)
(* same pools and are represented by those entries only.                   *)
(***************************************************************************)
EXTENDS Integers, Sequences, FiniteSets

CONSTANTS
  Conns,                 \* connections that clients may open
  MEMP_NUM_NETCONN,      \* netconns of the pool; the listening one takes one
  MEMP_NUM_NETBUF,       \* netbufs of the pool
  LWIP_MAX_OPEN_FILES,   \* entries of fs_memory
  archMESG_QUEUE_LENGTH, \* messages in a mailbox
  TCP_SND_BUF,           \* units of unacknowledged data of a connection
  FS_ROOT,               \* names the file system holds
  StaticPages,           \* pages the server opens in the file system
  DynamicPages,          \* pages made for each request, in two writes
  Writes                 \* units of each netconn_write for a page

Pages == StaticPages \cup DynamicPages
Other == "not a GET"
NoConn == "no netconn"
NULL   == "NULL"

ASSUME HttpdAssumption ==
  /\ IsFiniteSet(Conns) /\ NoConn \notin Conns
  /\ MEMP_NUM_NETCONN \in Nat \ {0} /\ MEMP_NUM_NETBUF \in Nat
  /\ LWIP_MAX_OPEN_FILES \in Nat \ {0} /\ TCP_SND_BUF \in Nat \ {0}
  /\ archMESG_QUEUE_LENGTH \in Nat \ {0}
  /\ Writes \in [Pages -> Seq(Nat \ {0})] /\ \A p \in Pages : Writes[p] # <<>>
  /\ {Other, NULL} \cap Pages = {} /\ StaticPages \cap DynamicPages = {}

\* A page of the file system is one write, a page made for a request is two.
ASSUME WritesAssumption ==
  \A p \in Pages : Len(Writes[p]) = IF p \in StaticPages THEN 1 ELSE 2

\* The listening connection's mailbox has room for every netconn of the pool.
ASSUME AcceptAssumption == MEMP_NUM_NETCONN - 1 <= archMESG_QUEUE_LENGTH

\* fsdata.c holds every page that http_server_serve opens.
ASSUME FilesAssumption == StaticPages \subseteq FS_ROOT

VARIABLES
  netconns,   \* MEMP_NETCONN entries in use
  netbufs,    \* MEMP_NETBUF entries in use
  files,      \* fs_memory entries in use
  acceptmbox, \* netconns that wait to be accepted
  allocated,  \* connections that have a netconn
  pcb,        \* connections whose netconn has a pcb
  failed,     \* connections whose last_err is fatal
  state,      \* conn->state
  offset,     \* conn->write_offset
  unacked,    \* units in the send buffer of the pcb
  recvmbox,   \* conn->recvmbox
  finned,     \* connections whose client has sent its FIN
  sent,       \* history: the units given to TCP, as <<write, unit>>
  pc,         \* where the server's thread is
  newconn,    \* its connection
  inbuf,      \* the request in its netbuf, or NULL
  file,       \* "none", "open", or NULL when fs_open failed
  write,      \* how many writes of the page are done
  sntp,       \* the SNTP client has a netconn
  datagrams   \* netbufs that hold datagrams for it

client == <<acceptmbox, allocated, pcb, failed, state, offset, unacked, recvmbox, finned, sent>>
server == <<pc, newconn, inbuf, file, write>>
others == <<sntp, datagrams>>
vars == <<netconns, netbufs, files, client, server, others>>

Init ==
  /\ netconns = 1 /\ netbufs = 0 /\ files = 0
  /\ acceptmbox = <<>>
  /\ allocated = {} /\ pcb = {} /\ failed = {} /\ finned = {}
  /\ state = [c \in Conns |-> "none"]
  /\ offset = [c \in Conns |-> 0]
  /\ unacked = [c \in Conns |-> 0]
  /\ recvmbox = [c \in Conns |-> <<>>]
  /\ sent = [c \in Conns |-> <<>>]
  /\ pc = "accept" /\ newconn = NoConn /\ inbuf = NULL
  /\ file = "none" /\ write = 0
  /\ sntp = FALSE /\ datagrams = 0

Goto(label) == pc' = label

-----------------------------------------------------------------------------
(* Writing and closing, in tcpip_thread                                    *)

\* netconn_write returns: the page's next write, or what follows its last.
AfterWrite ==
  /\ write' = write + 1
  /\ Goto(IF write + 1 < Len(Writes[inbuf]) THEN "write"
          ELSE IF inbuf \in StaticPages THEN "fs_close" ELSE "close")

Units(first, n) == [i \in 1 .. n |-> <<write + 1, first + i>>]

\* Faulty variant: the offset is not reset when all was written.
DoWritemoreKeepsOffset(c, acked, memory) ==
  LET size == Writes[inbuf][write + 1] - offset[c]
      room == TCP_SND_BUF - unacked[c] + acked
      len  == IF ~memory THEN 0 ELSE IF size < room THEN size ELSE room
  IN  /\ sent' = [sent EXCEPT ![c] = @ \o Units(offset[c], len)]
      /\ unacked' = [unacked EXCEPT ![c] = @ - acked + len]
      /\ offset' = [offset EXCEPT ![c] = @ + len]
      /\ IF len >= size
         THEN state' = [state EXCEPT ![c] = "none"] /\ AfterWrite
         ELSE state' = [state EXCEPT ![c] = "write"] /\ Goto("writing") /\ UNCHANGED write

\* do_writemore, with acked units more of room: what fits is given to TCP, or
\* nothing if it has no memory; the server wakes when all of it was.
DoWritemore(c, acked, memory) ==
  LET size == Writes[inbuf][write + 1] - offset[c]
      room == TCP_SND_BUF - unacked[c] + acked
      len  == IF ~memory THEN 0 ELSE IF size < room THEN size ELSE room
  IN  /\ sent' = [sent EXCEPT ![c] = @ \o Units(offset[c], len)]
      /\ unacked' = [unacked EXCEPT ![c] = @ - acked + len]
      /\ IF len = size
         THEN /\ state' = [state EXCEPT ![c] = "none"]
              /\ offset' = [offset EXCEPT ![c] = 0]
              /\ AfterWrite
         ELSE /\ state' = [state EXCEPT ![c] = "write"]
              /\ offset' = [offset EXCEPT ![c] = @ + len]
              /\ Goto("writing") /\ UNCHANGED write

\* Faulty variant: the server goes on although the close has failed.
DoCloseInternalReturns(c, memory) ==
  /\ Goto("netbuf_delete")
  /\ IF memory
     THEN pcb' = pcb \ {c} /\ state' = [state EXCEPT ![c] = "none"]
     ELSE state' = [state EXCEPT ![c] = "close"] /\ UNCHANGED pcb

\* do_close_internal: TCP may have no memory for the FIN; then the callbacks
\* try again.
DoCloseInternal(c, memory) ==
  IF memory
  THEN /\ pcb' = pcb \ {c}
       /\ state' = [state EXCEPT ![c] = "none"]
       /\ Goto("netbuf_delete")
  ELSE /\ state' = [state EXCEPT ![c] = "close"]
       /\ Goto("closing")
       /\ UNCHANGED pcb

\* sent_tcp and poll_tcp go on with what the server waits for.
GoOn(c, acked, memory) ==
  \/ /\ state[c] = "write"
     /\ DoWritemore(c, acked, memory)
     /\ UNCHANGED <<pcb, newconn, inbuf, file>>
  \/ /\ state[c] = "close"
     /\ DoCloseInternal(c, memory)
     /\ unacked' = [unacked EXCEPT ![c] = @ - acked]
     /\ UNCHANGED <<offset, sent, newconn, inbuf, file, write>>

-----------------------------------------------------------------------------
(* What the clients and the network do                                     *)

\* accept_function.  With no netconn left the connection is refused.
Connect(c) ==
  /\ c \notin allocated
  /\ netconns < MEMP_NUM_NETCONN
  /\ netconns' = netconns + 1
  /\ allocated' = allocated \cup {c}
  /\ pcb' = pcb \cup {c}
  /\ acceptmbox' = Append(acceptmbox, c)
  /\ UNCHANGED <<netbufs, files, failed, state, offset, unacked, recvmbox, finned, sent, server, others>>

HasRoom(c) == Len(recvmbox[c]) < archMESG_QUEUE_LENGTH

\* recv_tcp with data.  While the mailbox is full the segment is refused, and
\* TCP keeps it; once the connection is closing no more data is taken.
Receive(c, m) ==
  /\ c \in pcb \ finned
  /\ state[c] # "close"
  /\ HasRoom(c)
  /\ recvmbox' = [recvmbox EXCEPT ![c] = Append(@, m)]
  /\ UNCHANGED <<netconns, netbufs, files, acceptmbox, allocated, pcb, failed, state, offset,
                 unacked, finned, sent, server, others>>

\* recv_tcp with the end of the client's data, which is lost with no room.
Fin(c) ==
  /\ c \in pcb \ finned
  /\ state[c] # "close"
  /\ finned' = finned \cup {c}
  /\ recvmbox' = IF HasRoom(c) THEN [recvmbox EXCEPT ![c] = Append(@, NULL)] ELSE recvmbox
  /\ UNCHANGED <<netconns, netbufs, files, acceptmbox, allocated, pcb, failed, state, offset,
                 unacked, sent, server, others>>

\* Faulty variant: a server that waits for a request is not woken.
AbortUnposted(c) ==
  /\ c \in pcb
  /\ pcb' = pcb \ {c}
  /\ failed' = failed \cup {c}
  /\ state' = [state EXCEPT ![c] = "none"]
  /\ \/ state[c] = "write" /\ AfterWrite
     \/ state[c] = "close" /\ Goto("netbuf_delete") /\ UNCHANGED write
     \/ state[c] = "none" /\ UNCHANGED <<pc, write>>
  /\ UNCHANGED <<netconns, netbufs, files, acceptmbox, allocated, offset, unacked, recvmbox, finned,
                 sent, newconn, inbuf, file, others>>

\* err_tcp: the connection was reset or given up.
Abort(c) ==
  /\ c \in pcb
  /\ pcb' = pcb \ {c}
  /\ failed' = failed \cup {c}
  /\ state' = [state EXCEPT ![c] = "none"]
  /\ recvmbox' = IF HasRoom(c) /\ state[c] # "close"
                 THEN [recvmbox EXCEPT ![c] = Append(@, NULL)] ELSE recvmbox
  /\ \/ state[c] = "write" /\ AfterWrite
     \/ state[c] = "close" /\ Goto("netbuf_delete") /\ UNCHANGED write
     \/ state[c] = "none" /\ UNCHANGED <<pc, write>>
  /\ UNCHANGED <<netconns, netbufs, files, acceptmbox, allocated, offset, unacked, finned, sent,
                 newconn, inbuf, file, others>>

\* sent_tcp: the client has acknowledged data.
Ack(c, acked, memory) ==
  /\ c \in pcb
  /\ acked \in 1 .. unacked[c]
  /\ \/ GoOn(c, acked, memory)
     \/ /\ state[c] = "none"
        /\ unacked' = [unacked EXCEPT ![c] = @ - acked]
        /\ UNCHANGED <<pcb, state, offset, sent, server>>
  /\ UNCHANGED <<netconns, netbufs, files, acceptmbox, allocated, failed, recvmbox, finned, others>>

\* Faulty variant: only a write is gone on with.
PollWritesOnly(c, memory) ==
  /\ c \in pcb /\ state[c] = "write"
  /\ GoOn(c, 0, memory)
  /\ UNCHANGED <<netconns, netbufs, files, acceptmbox, allocated, failed, recvmbox, finned, others>>

\* poll_tcp.
Poll(c, memory) ==
  /\ c \in pcb
  /\ GoOn(c, 0, memory)
  /\ UNCHANGED <<netconns, netbufs, files, acceptmbox, allocated, failed, recvmbox, finned, others>>

-----------------------------------------------------------------------------
(* The SNTP client's share of the pools (sntp.c)                           *)

OpenSocket ==
  /\ ~sntp /\ netconns < MEMP_NUM_NETCONN
  /\ sntp' = TRUE /\ netconns' = netconns + 1
  /\ UNCHANGED <<netbufs, files, client, server, datagrams>>

CloseSocket ==
  /\ sntp
  /\ sntp' = FALSE /\ netconns' = netconns - 1
  /\ datagrams' = 0 /\ netbufs' = netbufs - datagrams
  /\ UNCHANGED <<files, client, server>>

ReceiveDatagram ==
  /\ sntp /\ netbufs < MEMP_NUM_NETBUF
  /\ datagrams' = datagrams + 1 /\ netbufs' = netbufs + 1
  /\ UNCHANGED <<netconns, files, client, server, sntp>>

-----------------------------------------------------------------------------
(* The server's thread                                                     *)

\* netconn_accept.
Accept ==
  /\ pc = "accept" /\ acceptmbox # <<>>
  /\ newconn' = Head(acceptmbox)
  /\ acceptmbox' = Tail(acceptmbox)
  /\ Goto("recv")
  /\ UNCHANGED <<netconns, netbufs, files, allocated, pcb, failed, state, offset, unacked, recvmbox,
                 finned, sent, inbuf, file, write, others>>

\* netconn_recv takes a netbuf before it waits, and looks at last_err.
Recv ==
  /\ pc = "recv"
  /\ IF netbufs < MEMP_NUM_NETBUF /\ newconn \notin failed
     THEN netbufs' = netbufs + 1 /\ Goto("fetch")
     ELSE UNCHANGED netbufs /\ Goto("close")
  /\ UNCHANGED <<netconns, files, client, newconn, inbuf, file, write, others>>

\* Faulty variant: the netbuf is kept.
FetchLeaks ==
  /\ pc = "fetch" /\ recvmbox[newconn] # <<>>
  /\ LET m == Head(recvmbox[newconn])
     IN  /\ inbuf' = m
         /\ failed' = IF m = NULL THEN failed \cup {newconn} ELSE failed
         /\ Goto(IF m = NULL THEN "close" ELSE "request")
  /\ recvmbox' = [recvmbox EXCEPT ![newconn] = Tail(@)]
  /\ UNCHANGED <<netconns, netbufs, files, acceptmbox, allocated, pcb, state, offset, unacked, finned,
                 sent, newconn, file, write, others>>

\* It waits for a message of the mailbox; NULL means that the client has closed
\* the connection or that it failed, and the netbuf is given back.
Fetch ==
  /\ pc = "fetch" /\ recvmbox[newconn] # <<>>
  /\ LET m == Head(recvmbox[newconn])
     IN  /\ inbuf' = m
         /\ netbufs' = IF m = NULL THEN netbufs - 1 ELSE netbufs
         /\ failed' = IF m = NULL THEN failed \cup {newconn} ELSE failed
         /\ Goto(IF m = NULL THEN "close" ELSE "request")
  /\ recvmbox' = [recvmbox EXCEPT ![newconn] = Tail(@)]
  /\ UNCHANGED <<netconns, files, acceptmbox, allocated, pcb, state, offset, unacked, finned, sent,
                 newconn, file, write, others>>

\* fs_open: NULL when no entry of fs_memory is free, and for a name that is not
\* in the file system, whose entry is free again.
FsOpen(name) ==
  IF files < LWIP_MAX_OPEN_FILES /\ name \in FS_ROOT
  THEN file' = "open" /\ files' = files + 1
  ELSE file' = NULL /\ UNCHANGED files

\* http_server_serve: a GET on a connection without error is answered; the page
\* comes from the file system or is made.
Request ==
  /\ pc = "request"
  /\ \/ /\ newconn \in failed \/ inbuf = Other
        /\ Goto("close") /\ UNCHANGED <<file, files>>
     \/ /\ newconn \notin failed /\ inbuf \in DynamicPages
        /\ Goto("write") /\ UNCHANGED <<file, files>>
     \/ /\ newconn \notin failed /\ inbuf \in StaticPages
        /\ Goto("write") /\ FsOpen(inbuf)
  /\ UNCHANGED <<netconns, netbufs, client, newconn, inbuf, write, others>>

\* netconn_write, do_write: nothing is written to a failed connection.
Write(memory) ==
  /\ pc = "write"
  /\ IF newconn \in failed
     THEN AfterWrite /\ UNCHANGED <<state, offset, unacked, sent>>
     ELSE DoWritemore(newconn, 0, memory)
  /\ UNCHANGED <<netconns, netbufs, files, acceptmbox, allocated, pcb, failed, recvmbox, finned,
                 newconn, inbuf, file, others>>

\* Faulty variant: the entry stays in use.
FsCloseKeeps ==
  /\ pc = "fs_close"
  /\ file' = "none"
  /\ Goto("close")
  /\ UNCHANGED <<netconns, netbufs, files, client, newconn, inbuf, write, others>>

\* fs_close, fs_free.
FsClose ==
  /\ pc = "fs_close"
  /\ files' = files - 1
  /\ file' = "none"
  /\ Goto("close")
  /\ UNCHANGED <<netconns, netbufs, client, newconn, inbuf, write, others>>

\* netconn_close, do_close: what was received and not read is dropped.
Close(memory) ==
  /\ pc = "close"
  /\ IF newconn \in pcb
     THEN /\ recvmbox' = [recvmbox EXCEPT ![newconn] = <<>>]
          /\ DoCloseInternal(newconn, memory)
     ELSE Goto("netbuf_delete") /\ UNCHANGED <<recvmbox, state, pcb>>
  /\ UNCHANGED <<netconns, netbufs, files, acceptmbox, allocated, failed, offset, unacked, finned,
                 sent, newconn, inbuf, file, write, others>>

\* Faulty variant: a netbuf is given back whether there is one or not.
NetbufDeleteAlways ==
  /\ pc = "netbuf_delete"
  /\ netbufs' = netbufs - 1
  /\ inbuf' = NULL
  /\ Goto("delete")
  /\ UNCHANGED <<netconns, files, client, newconn, file, write, others>>

\* netbuf_delete.
NetbufDelete ==
  /\ pc = "netbuf_delete"
  /\ netbufs' = IF inbuf = NULL THEN netbufs ELSE netbufs - 1
  /\ inbuf' = NULL
  /\ Goto("delete")
  /\ UNCHANGED <<netconns, files, client, newconn, file, write, others>>

\* netconn_delete: do_delconn drains the mailbox, and the netconn goes back to
\* its pool.  DeleteIsClean says that do_delconn finds no pcb left to close.
Delete ==
  /\ pc = "delete"
  /\ netconns' = netconns - 1
  /\ allocated' = allocated \ {newconn}
  /\ pcb' = pcb \ {newconn}
  /\ failed' = failed \ {newconn}
  /\ finned' = finned \ {newconn}
  /\ state' = [state EXCEPT ![newconn] = "none"]
  /\ offset' = [offset EXCEPT ![newconn] = 0]
  /\ unacked' = [unacked EXCEPT ![newconn] = 0]
  /\ recvmbox' = [recvmbox EXCEPT ![newconn] = <<>>]
  /\ sent' = [sent EXCEPT ![newconn] = <<>>]
  /\ newconn' = NoConn /\ write' = 0
  /\ Goto("accept")
  /\ UNCHANGED <<netbufs, files, acceptmbox, inbuf, file, others>>

-----------------------------------------------------------------------------

Serve ==
  \/ Accept \/ Recv \/ Fetch \/ Request \/ FsClose \/ NetbufDelete \/ Delete
  \/ \E memory \in BOOLEAN : Write(memory) \/ Close(memory)

Speaks(c) == Fin(c) \/ Abort(c) \/ \E m \in Pages \cup {Other} : Receive(c, m)

Reads(c) == Abort(c) \/ \E acked \in 1 .. TCP_SND_BUF, memory \in BOOLEAN : Ack(c, acked, memory)

Network(c) == Connect(c) \/ Speaks(c) \/ Reads(c) \/ \E memory \in BOOLEAN : Poll(c, memory)

Next == Serve \/ OpenSocket \/ CloseSocket \/ ReceiveDatagram \/ \E c \in Conns : Network(c)

\* The server runs; a client whose request is awaited says something, and one
\* that is written to reads, or the connection fails; a lack of memory "is only
\* a temporary error", and the poll timer tries again.
Fairness ==
  /\ WF_vars(Serve)
  /\ \A c \in Conns :
       /\ WF_vars(pc = "fetch" /\ newconn = c /\ Speaks(c))
       /\ WF_vars(unacked[c] > 0 /\ Reads(c))
       /\ SF_vars(Poll(c, TRUE))

Spec == Init /\ [][Next]_vars /\ Fairness

-----------------------------------------------------------------------------
(* Properties                                                              *)

TypeOK ==
  /\ netconns \in 1 .. MEMP_NUM_NETCONN
  /\ netbufs \in 0 .. MEMP_NUM_NETBUF
  /\ files \in 0 .. LWIP_MAX_OPEN_FILES
  /\ allocated \subseteq Conns
  /\ pcb \subseteq allocated /\ failed \subseteq allocated /\ finned \subseteq allocated
  /\ acceptmbox \in Seq(allocated) /\ Len(acceptmbox) <= archMESG_QUEUE_LENGTH
  /\ state \in [Conns -> {"none", "write", "close"}]
  /\ unacked \in [Conns -> 0 .. TCP_SND_BUF]
  /\ \A c \in Conns : Len(recvmbox[c]) <= archMESG_QUEUE_LENGTH
  /\ newconn \in allocated \cup {NoConn}
  /\ inbuf \in Pages \cup {Other, NULL}
  /\ file \in {"none", "open", NULL}

\* Nothing of the pools is lost on any path through http_server_serve, with an
\* error at any of its calls: each entry in use has someone who will give it
\* back.
NothingLeaked ==
  /\ netconns = 1 + Cardinality(allocated) + (IF sntp THEN 1 ELSE 0)
  /\ netbufs = datagrams + (IF pc = "fetch" \/ inbuf # NULL THEN 1 ELSE 0)
  /\ files = IF file = "open" THEN 1 ELSE 0
  /\ \A c \in allocated : c = newconn \/ \E i \in DOMAIN acceptmbox : acceptmbox[i] = c

\* http_server_serve uses the result of fs_open at once: it is never NULL.
FileIsOpen == pc \in {"write", "writing", "fs_close"} /\ inbuf \in StaticPages => file = "open"

\* The server does not wait on a connection that is gone: no callback would
\* come any more.
NeverWaitsOnTheDead ==
  /\ pc = "fetch" /\ newconn \notin pcb => recvmbox[newconn] # <<>>
  /\ pc \in {"writing", "closing"} => newconn \in pcb

\* The assertion of netconn_free: "PCB must be deallocated outside this
\* function", and do_delconn finds nothing in progress.
DeleteIsClean == pc = "delete" => newconn \notin pcb /\ state[newconn] = "none"

\* A client whose connection has not failed is sent the page it asked for, all
\* of it and in order, in whatever pieces the send buffer took it.
PageOf(p) == [w \in DOMAIN Writes[p] |-> [i \in 1 .. Writes[p][w] |-> <<w, i>>]]

WholePage ==
  pc \in {"fs_close", "close", "closing"} /\ inbuf \in Pages /\ newconn \notin failed =>
    sent[newconn] = IF Len(Writes[inbuf]) = 1 THEN PageOf(inbuf)[1]
                    ELSE PageOf(inbuf)[1] \o PageOf(inbuf)[2]

\* Every connection gets its turn: the netconn of each goes back to the pool.
EveryoneIsServed == \A c \in Conns : c \in allocated ~> c \notin allocated
=============================================================================
