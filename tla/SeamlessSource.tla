--------------------------- MODULE SeamlessSource ---------------------------
(***************************************************************************)
(* SMPTE 2022-7: one RTP stream sent over two lines, each with its losses  *)
(* (CSPSRTPDataSource over two CCircularRcvBuffer).  A thread per line     *)
(* fills a buffer and announces each packet; the reading thread of the pin *)
(* takes the packets of the master line and looks for what that line lost  *)
(* in the buffer of the other.  A packet is its place in the stream, which *)
(* is also the time: it is now the newest packet that any line has given.  *)
(***************************************************************************)
EXTENDS Integers, Sequences

CONSTANTS
  NbElmt,       \* slots of a buffer
  SeqMod,       \* RTP sequence numbers are modulo this
  FirstSeq,     \* the number of the first packet
  Threshold,    \* a line silent for longer is offline
  MaxPacket,    \* bound: the last packet the sender sends
  MaxDelay,     \* bound: how much later a line gives a packet than the other
  MaxLoss,      \* bound: packets that no line gives, in a row
  MaxQueue,     \* bound: events the reader is behind
  MaxErrors     \* bound: reads of a socket that fail

ASSUME SeamlessAssumption ==
  /\ {NbElmt, SeqMod, Threshold, MaxPacket} \subseteq Nat \ {0}
  /\ MaxDelay \in Nat /\ MaxLoss \in Nat /\ MaxQueue \in Nat /\ MaxErrors \in Nat
  /\ FirstSeq \in Nat
  /\ NbElmt + MaxLoss + MaxDelay < SeqMod

VARIABLES
  errors,                           \* reads of a socket that failed
  thread, slot, wr, rd, got, sock,  \* the two buffers and their threads
  q,                                \* the events: <<line, sequence number>> or STOP
  master, online, lastRcv,          \* _master, _isOnline, _lastRcvEvent
  nextSeq, lastSeq, nPacketsLost,
  readAt, begun,                    \* the reading thread; has it had a packet
  closed, appAt,                    \* the application in close()
  out, gap, inOrder                 \* history: last packet given; an error since

bufVars == <<thread, slot, wr, rd, got, sock>>
srcVars == <<master, online, lastRcv, nextSeq, lastSeq, nPacketsLost>>
readVars == <<readAt, begun, out, gap, inOrder>>
vars == <<errors, bufVars, q, srcVars, readVars, closed, appAt>>

Lines == {0, 1}
Other(s) == 1 - s
NONE == -1
STOP == <<-1, -1>>
Places == 0 .. NbElmt - 1
\* The sequence number of packet n; Next16, the number after one.
Seq16(n) == (FirstSeq + n) % SeqMod
Next16(q16) == (q16 + 1) % SeqMod

TypeOK ==
  /\ errors \in 0 .. MaxErrors
  /\ thread \in [Lines -> {"top", "recv", "ended"}]
  /\ slot \in [Lines -> [Places -> 0 .. MaxPacket \cup {NONE}]]
  /\ wr \in [Lines -> Places \cup {NONE}] /\ rd \in [Lines -> Places \cup {NONE}]
  /\ got \in [Lines -> -1 .. MaxPacket] /\ sock \in [Lines -> BOOLEAN]
  /\ q \in Seq((Lines \X (0 .. SeqMod - 1)) \cup {STOP})
  /\ master \in Lines /\ online \in [Lines -> BOOLEAN]
  /\ lastRcv \in [Lines -> -1 .. MaxPacket]
  /\ {nextSeq, lastSeq} \subseteq -1 .. SeqMod - 1 /\ nPacketsLost \in 0 .. SeqMod + 1
  /\ readAt \in {"call", "read", "search", "ended"}
  /\ {begun, closed, gap, inOrder} \subseteq BOOLEAN
  /\ appAt \in {"open", "sock0", "join0", "sock1", "join1", "push", "wait", "done"}
  /\ out \in -1 .. MaxPacket

Init ==
  /\ errors = 0
  /\ thread = [s \in Lines |-> "top"]
  /\ slot = [s \in Lines |-> [i \in Places |-> NONE]]
  /\ wr = [s \in Lines |-> -1] /\ rd = [s \in Lines |-> -1]
  /\ got = [s \in Lines |-> -1] /\ sock = [s \in Lines |-> TRUE]
  /\ q = << >>
  /\ master = 0 /\ online = [s \in Lines |-> TRUE] /\ lastRcv = [s \in Lines |-> -1]
  /\ nextSeq = -1 /\ lastSeq = -1 /\ nPacketsLost = 0
  /\ readAt = "call" /\ begun = FALSE
  /\ closed = FALSE /\ appAt = "open"
  /\ out = -1 /\ gap = TRUE /\ inOrder = TRUE

(***************************************************************************)
(* The thread of a line.  write() holds the lock of its buffer from the    *)
(* choice of a slot until a packet has come (thread "recv").               *)
(***************************************************************************)
Now == IF got[0] > got[1] THEN got[0] ELSE got[1]

Locked(s) == thread[s] = "recv"
NextPlace(i) == (i + 1) % NbElmt
FirstRead(s) == IF NextPlace(wr[s]) > 0 /\ rd[s] < 0 THEN 0 ELSE rd[s]
Full(s) == NextPlace(wr[s]) = FirstRead(s)

\* A full master does not write, and tries again: a step that changes nothing.
\* A full secondary forgets its oldest packet.
WriteBegin(s) ==
  /\ thread[s] = "top" /\ ~closed
  /\ ~(Full(s) /\ s = master)
  /\ thread' = [thread EXCEPT ![s] = "recv"]
  /\ wr' = [wr EXCEPT ![s] = NextPlace(@)]
  /\ rd' = [rd EXCEPT ![s] = IF Full(s) THEN NextPlace(NextPlace(wr[s])) ELSE FirstRead(s)]
  /\ slot' = [slot EXCEPT ![s][NextPlace(wr[s])] = NONE]
  /\ UNCHANGED <<errors, got, sock, q, srcVars, readVars, closed, appAt>>

\* A packet comes at most MaxDelay after its time, or not at all.  The event
\* follows the release of the lock: no step of this thread is between.
Receive(s, n) ==
  /\ thread[s] = "recv" /\ sock[s] /\ Len(q) < MaxQueue
  /\ n >= Now - MaxDelay /\ n <= Now + 1 + MaxLoss
  /\ thread' = [thread EXCEPT ![s] = "top"]
  /\ slot' = [slot EXCEPT ![s][wr[s]] = n]
  /\ got' = [got EXCEPT ![s] = n]
  /\ q' = Append(q, <<s, Seq16(n)>>)
  /\ UNCHANGED <<errors, wr, rd, sock, srcVars, readVars, closed, appAt>>

\* recvfrom fails, or returns because the socket was closed.
ReceiveFails(s) ==
  /\ thread[s] = "recv"
  /\ \/ ~sock[s] /\ UNCHANGED errors
     \/ sock[s] /\ errors < MaxErrors /\ errors' = errors + 1
  /\ thread' = [thread EXCEPT ![s] = "top"]
  /\ UNCHANGED <<slot, wr, rd, got, sock, q, srcVars, readVars, closed, appAt>>

ThreadEnds(s) ==
  /\ thread[s] = "top" /\ closed
  /\ thread' = [thread EXCEPT ![s] = "ended"]
  /\ UNCHANGED <<errors, slot, wr, rd, got, sock, q, srcVars, readVars, closed, appAt>>

\* A line gives packets in the order they were sent, less those it loses.
Thread(s) ==
  \/ WriteBegin(s) \/ ReceiveFails(s) \/ ThreadEnds(s)
  \/ \E n \in got[s] + 1 .. MaxPacket : Receive(s, n)

(***************************************************************************)
(* The reading thread: read(), one step but for its accesses to a buffer,  *)
(* which wait for the lock; and what CInSMPTE::_rcv_process does with the  *)
(* result.  Until the first packet anything but a packet or a loss ends    *)
(* the thread; then an error costs the frame, and nothing else.            *)
(***************************************************************************)
Gives(p) ==
  /\ readAt' = "call" /\ begun' = TRUE
  /\ out' = p /\ gap' = FALSE
  /\ inOrder' = (inOrder /\ (gap \/ p = out + 1))

Returns(result) ==
  /\ readAt' = IF begun \/ result = "PACKET_LOST" THEN "call" ELSE "ended"
  /\ gap' = (gap \/ result = "ERROR")
  /\ UNCHANGED <<begun, out, inOrder>>

ReadKeeps == UNCHANGED <<errors, thread, wr, got, sock, closed, appAt>>

\* The places of line s that hold the wanted number.
Found(s) == {i \in Places : slot[s][i] # NONE /\ Seq16(slot[s][i]) = nextSeq}
FirstOf(I) == CHOOSE i \in I : \A j \in I : i <= j

\* Variant: goes on after the packet that showed the loss.
ReadLostPast ==
  LET s == Other(master) IN
  /\ readAt = "call" /\ ~closed /\ nPacketsLost > 0
  /\ \/ ~online[s] /\ Returns("ERROR") /\ UNCHANGED <<rd, nextSeq, nPacketsLost>>
     \/ /\ online[s] /\ ~Locked(s) /\ Found(s) = {}
        /\ nPacketsLost' = 0 /\ nextSeq' = Next16(lastSeq)
        /\ Returns("NOT_PRIMARY_SRC") /\ UNCHANGED rd
     \/ /\ online[s] /\ ~Locked(s) /\ Found(s) # {}
        /\ rd' = [rd EXCEPT ![s] = FirstOf(Found(s))]
        /\ nPacketsLost' = IF nextSeq = lastSeq THEN 0 ELSE nPacketsLost - 1
        /\ nextSeq' = Next16(nextSeq)
        /\ Gives(slot[s][FirstOf(Found(s))])
  /\ ReadKeeps /\ UNCHANGED <<slot, q, master, online, lastRcv, lastSeq>>

\* searchFor() in the secondary, for a packet the master lost.
ReadLost ==
  LET s == Other(master) IN
  /\ readAt = "call" /\ ~closed /\ nPacketsLost > 0
  /\ \/ ~online[s] /\ Returns("ERROR") /\ UNCHANGED <<rd, nextSeq, nPacketsLost>>
     \/ /\ online[s] /\ ~Locked(s) /\ Found(s) = {}
        /\ nPacketsLost' = 0 /\ nextSeq' = -1
        /\ Returns("ERROR") /\ UNCHANGED rd
     \/ /\ online[s] /\ ~Locked(s) /\ Found(s) # {}
        /\ rd' = [rd EXCEPT ![s] = FirstOf(Found(s))]
        /\ nPacketsLost' = IF nextSeq = lastSeq THEN 0 ELSE nPacketsLost - 1
        /\ nextSeq' = Next16(nextSeq)
        /\ Gives(slot[s][FirstOf(Found(s))])
  /\ ReadKeeps /\ UNCHANGED <<slot, q, master, online, lastRcv, lastSeq>>

\* How many packets a jump from `next' to `seq' has lost, `seq' included.
LostBefore(next, seq) == 1 + (IF seq > next THEN seq - next ELSE SeqMod - next + seq)

Late(s) == online[s] /\ Now - lastRcv[s] > Threshold

\* An event of line s with number n.  Only the other line can be late; a late
\* master changes places with line s.
Handle(s, n) ==
  LET o == Other(s)  next == IF nextSeq = -1 THEN n ELSE nextSeq IN
  /\ lastRcv' = [lastRcv EXCEPT ![s] = Now]
  /\ online' = [online EXCEPT ![s] = TRUE, ![o] = @ /\ ~Late(o)]
  /\ \/ /\ o = master /\ Late(o)
        /\ master' = s /\ nextSeq' = -1
        /\ Returns("ERROR") /\ UNCHANGED <<lastSeq, nPacketsLost>>
     \/ /\ o = master /\ ~Late(o)
        /\ Returns("NOT_PRIMARY_SRC") /\ UNCHANGED <<master, nextSeq, lastSeq, nPacketsLost>>
     \/ /\ s = master /\ nextSeq' = next /\ lastSeq' = n
        /\ \/ next # n /\ nPacketsLost' = LostBefore(next, n) /\ Returns("PACKET_LOST")
           \/ /\ next = n /\ readAt' = "read"
              /\ UNCHANGED <<nPacketsLost, begun, out, gap, inOrder>>
        /\ UNCHANGED master

ReadEvent ==
  /\ readAt = "call" /\ ~closed /\ nPacketsLost = 0
  /\ q # << >> /\ Head(q) # STOP
  /\ q' = Tail(q)
  /\ Handle(Head(q)[1], Head(q)[2])
  /\ ReadKeeps /\ UNCHANGED <<slot, rd>>

\* read() of the master: the next slot, or else a search, under a new lock.
ReadMaster ==
  LET i == NextPlace(rd[master])  p == slot[master][i] IN
  /\ readAt = "read" /\ ~closed /\ ~Locked(master)
  /\ rd' = [rd EXCEPT ![master] = i]
  /\ \/ /\ p # NONE /\ Seq16(p) = nextSeq
        /\ slot' = [slot EXCEPT ![master][i] = NONE]
        /\ nextSeq' = Next16(nextSeq)
        /\ Gives(p)
     \/ /\ ~(p # NONE /\ Seq16(p) = nextSeq)
        /\ readAt' = "search" /\ UNCHANGED <<slot, nextSeq, begun, out, gap, inOrder>>
  /\ ReadKeeps /\ UNCHANGED <<q, master, online, lastRcv, lastSeq, nPacketsLost>>

ReadSearch ==
  /\ readAt = "search" /\ ~closed /\ ~Locked(master)
  /\ \/ Found(master) = {} /\ Returns("ERROR") /\ UNCHANGED <<rd, nextSeq>>
     \/ /\ Found(master) # {}
        /\ rd' = [rd EXCEPT ![master] = FirstOf(Found(master))]
        /\ nextSeq' = Next16(nextSeq)
        /\ Gives(slot[master][FirstOf(Found(master))])
  /\ ReadKeeps /\ UNCHANGED <<slot, q, master, online, lastRcv, lastSeq, nPacketsLost>>

\* CInSMPTE::stop has cleared _bStarted before it closes the source: whatever
\* a call returns, once it returns the thread ends.
ReadEnds ==
  /\ closed /\ readAt # "ended" /\ readAt' = "ended"
  /\ \/ readAt = "call" /\ nPacketsLost > 0 /\ UNCHANGED q
     \/ readAt = "call" /\ q # << >> /\ q' = Tail(q)
     \/ readAt \in {"read", "search"} /\ ~Locked(master) /\ UNCHANGED q
  /\ UNCHANGED <<errors, bufVars, srcVars, begun, out, gap, inOrder, closed, appAt>>

Reader == ReadLost \/ ReadEvent \/ ReadMaster \/ ReadSearch \/ ReadEnds

(***************************************************************************)
(* CInSMPTE::stop: close() closes each buffer, which joins its thread,     *)
(* pushes an event to wake the reader, and stop() joins that one.          *)
(***************************************************************************)
AppGoes(from, to) == appAt = from /\ appAt' = to
CloseKeeps == UNCHANGED <<errors, thread, slot, wr, rd, got, srcVars, readVars>>

CloseBegin ==
  /\ AppGoes("open", "sock0") /\ closed' = TRUE
  /\ CloseKeeps /\ UNCHANGED <<sock, q>>

\* Variant: the socket stays open until the thread has ended.
CloseSocketLater(s) ==
  /\ IF s = 0 THEN AppGoes("sock0", "join0") ELSE AppGoes("sock1", "join1")
  /\ CloseKeeps /\ UNCHANGED <<sock, q, closed>>

CloseSocket(s) ==
  /\ IF s = 0 THEN AppGoes("sock0", "join0") ELSE AppGoes("sock1", "join1")
  /\ sock' = [sock EXCEPT ![s] = FALSE]
  /\ CloseKeeps /\ UNCHANGED <<q, closed>>

CloseJoin(s) ==
  /\ IF s = 0 THEN AppGoes("join0", "sock1") ELSE AppGoes("join1", "push")
  /\ thread[s] = "ended"
  /\ CloseKeeps /\ UNCHANGED <<sock, q, closed>>

CloseWake ==
  /\ AppGoes("push", "wait") /\ q' = Append(q, STOP)
  /\ CloseKeeps /\ UNCHANGED <<sock, closed>>

CloseDone ==
  /\ AppGoes("wait", "done") /\ readAt = "ended"
  /\ CloseKeeps /\ UNCHANGED <<sock, q, closed>>

CloseSteps == \/ \E s \in Lines : CloseSocket(s) \/ CloseJoin(s)
              \/ CloseWake \/ CloseDone

Next == (\E s \in Lines : Thread(s)) \/ Reader \/ CloseBegin \/ CloseSteps

\* Threads run; nothing is assumed of the lines and of the sender.
Fairness ==
  /\ \A s \in Lines : /\ WF_vars(WriteBegin(s)) /\ WF_vars(ThreadEnds(s))
                      /\ WF_vars(~sock[s] /\ ReceiveFails(s))
  /\ WF_vars(Reader) /\ WF_vars(CloseSteps)

Spec == Init /\ [][Next]_vars /\ Fairness

\* Line 1 never stops.
SpecLine1 == Spec /\ WF_vars(\E n \in 0 .. MaxPacket : n = got[1] + 1 /\ Receive(1, n))

(***************************************************************************)
(* Properties.                                                             *)
(***************************************************************************)
\* Between two errors reported to the pin, the packets it gets are those the
\* sender sent, one after the other, whichever line each came on: a packet
\* recovered from the other line is the one that was lost, nothing comes
\* twice, and nothing is skipped (read, searchFor, the slots that write reuses).
ConsecutiveOrError == inOrder

\* CInSMPTE::stop returns: close() frees both threads from their sockets and the
\* reader from the buffer locks they hold and from the empty queue.
CloseReturns == (appAt = "sock0") ~> (appAt = "done")

\* When the master line falls silent for longer than the threshold while the
\* other line goes on, the reader handles the events of that line, and so
\* changes to it.
Silent(s) == got[s] + Threshold < got[Other(s)]
Failover == (begun /\ master = 0 /\ Silent(0) /\ \E i \in DOMAIN q : q[i][1] = 1)
              ~> (master = 1 \/ q = << >> \/ ~Silent(0) \/ closed)
=============================================================================
