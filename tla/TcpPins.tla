-------------------------------- MODULE TcpPins --------------------------------
(***************************************************************************)
(* COutTCP and CInTCP over the class TCP.  One of the two listens, without *)
(* blocking in accept; the other connects whenever it has no connection.   *)
(***************************************************************************)
EXTENDS LinkPins

CONSTANTS
  Conns,       \* connections there can be at a time
  Room         \* words a connection holds

ASSUME TcpAssumption == Conns \in Nat \ {0} /\ Room \in Nat \ {0}

VARIABLES
  lsock, backlog,       \* the listening socket and the connections it has to accept
  inC, outC,            \* _sockClient of the two pins, 0 when INVALID_SOCKET
  recvC,                \* the connection the reader waits for in recv, or 0
  inOpen, outOpen,      \* the ends of connections that are open
  pipe,                 \* words sent and not read
  got, left             \* words the reader has of its frame, the writer has still to send

tcpVars == <<lsock, backlog, inC, outC, recvC, inOpen, outOpen, pipe, got, left>>
readerKeeps == UNCHANGED <<link, stopAt, outAt, f, breaks, outC, left>>
writerKeeps == UNCHANGED <<link, at, stopAt, turn, broken, inC, recvC, got>>

TcpInit ==
  /\ lsock = FALSE /\ backlog = << >> /\ inC = 0 /\ outC = 0 /\ recvC = 0
  /\ inOpen = {} /\ outOpen = {} /\ pipe = [c \in 1 .. Conns |-> << >>]
  /\ got = << >> /\ left = << >>

InListens == link = "tcpIn"

\* A listening pin without a client accepts the first that waits.
Accepts == lsock /\ backlog # << >> /\ backlog' = Tail(backlog) /\ UNCHANGED lsock
NoClient == (~lsock \/ backlog = << >>) /\ lsock' = TRUE /\ UNCHANGED backlog

\* The other pin connects, or nobody listens.
Unused == 1 .. Conns \ ({inC, outC, recvC} \cup inOpen \cup outOpen \cup ToSet(backlog))
Connects(c) ==
  /\ lsock /\ Unused # {} /\ c = CHOOSE d \in Unused : \A e \in Unused : d <= e
  /\ backlog' = Append(backlog, c) /\ pipe' = [pipe EXCEPT ![c] = << >>]
  /\ inOpen' = inOpen \cup {c} /\ outOpen' = outOpen \cup {c}
  /\ UNCHANGED lsock
Refused == ~lsock /\ UNCHANGED <<lsock, backlog, pipe, inOpen, outOpen>>

\* TCP::closeSocket closes the listening socket too: those who wait are reset.
Reset(mine) == IF mine THEN ToSet(backlog) ELSE {}
ClosesListener(mine) ==
  IF mine THEN lsock' = FALSE /\ backlog' = << >> ELSE UNCHANGED <<lsock, backlog>>

\* The pin that listens closes its client without a shutdown: a recv that waits in
\* it goes on, and the connection lives on until it returns.
InCloses ==
  LET kept == IF InListens THEN {recvC'} ELSE {}
      gone == ({inC, recvC} \ kept) \cup Reset(InListens) IN
  /\ inC' = 0 /\ inOpen' = inOpen \ gone
  /\ outOpen' = outOpen \ Reset(InListens)
  /\ ClosesListener(InListens)

(***************************************************************************)
(* CInTCP::read.                                                           *)
(***************************************************************************)
TcpOpen ==
  /\ at = "read" /\ got' = << >>
  /\ \/ inC # 0 /\ at' = "head" /\ UNCHANGED <<lsock, backlog, inC, inOpen, outOpen, pipe>>
     \/ /\ inC = 0 /\ InListens /\ UNCHANGED <<inOpen, outOpen, pipe>>
        /\ \/ Accepts /\ inC' = Head(backlog) /\ at' = "head"
           \/ NoClient /\ at' = "loop" /\ UNCHANGED inC
     \/ /\ inC = 0 /\ ~InListens
        /\ \/ \E c \in Unused : Connects(c) /\ inC' = c /\ at' = "head"
           \/ Refused /\ at' = "loop" /\ UNCHANGED inC
  /\ UNCHANGED <<turn, broken, recvC, got>> /\ readerKeeps

Wanted == IF at = "head" THEN 1 ELSE Size(got[1][1])

\* What TCP::readSocket has read makes a header, or a frame.
Header(words) ==
  \/ words[1][2] = 0 /\ at' = "media" /\ got' = words /\ UNCHANGED <<turn, broken>>
  \/ words[1][2] # 0 /\ got' = << >> /\ GivesNone
Media(words) == got' = << >> /\ Gives(words, words[1][1], FALSE)

Received(words) ==
  \/ Len(words) < Wanted /\ got' = words /\ UNCHANGED <<at, turn, broken>>
  \/ Len(words) = Wanted /\ at = "head" /\ Header(words)
  \/ Len(words) = Wanted /\ at = "media" /\ Media(words)

TcpRecvs ==
  /\ at \in {"head", "media"} /\ recvC = 0 /\ inC # 0 /\ recvC' = inC
  /\ UNCHANGED <<commonVars, lsock, backlog, inC, outC, inOpen, outOpen, pipe, got, left>>

TcpRecv ==
  /\ recvC # 0 /\ pipe[recvC] # << >> /\ recvC' = 0
  /\ \E n \in 1 .. Len(pipe[recvC]) :
       /\ Len(got) + n <= Wanted
       /\ Received(got \o SubSeq(pipe[recvC], 1, n))
       /\ pipe' = [pipe EXCEPT ![recvC] = SubSeq(@, n + 1, Len(@))]
  /\ inOpen' = inOpen \ (IF inC = recvC THEN {} ELSE {recvC})
  /\ UNCHANGED <<lsock, backlog, inC, outOpen>> /\ readerKeeps

\* The connection ended, or stop() closed the socket.
RecvEnds ==
  \/ recvC = 0 /\ inC = 0
  \/ recvC # 0 /\ pipe[recvC] = << >> /\ recvC \notin inOpen \cap outOpen

\* Variant: an error of recv is taken for one that passes.
TcpRecvFailsNever ==
  /\ at \in {"head", "media"} /\ RecvEnds
  /\ recvC' = 0
  /\ UNCHANGED <<at, turn, broken, lsock, backlog, inC, inOpen, outOpen, pipe, got>> /\ readerKeeps

TcpRecvFails ==
  /\ at \in {"head", "media"} /\ RecvEnds
  /\ recvC' = 0 /\ got' = << >> /\ GivesNone
  /\ InCloses
  /\ UNCHANGED pipe /\ readerKeeps

TcpReads == TcpOpen \/ TcpRecvs \/ TcpRecv \/ TcpRecvFails

\* CInTCP::stop
TcpStop ==
  /\ StopPinCalled /\ UNCHANGED <<recvC, pipe, got, outC, left>>
  /\ IF inC # 0 THEN InCloses ELSE UNCHANGED <<inC, inOpen, outOpen, lsock, backlog>>

(***************************************************************************)
(* COutTCP::send.                                                          *)
(***************************************************************************)
\* Without a connection the frame is not sent, and that is no error.
TcpSendOpen ==
  /\ outAt = "idle"
  /\ \/ outC # 0 /\ outAt' = "write" /\ UNCHANGED <<f, lsock, backlog, outC, inOpen, outOpen, pipe>>
     \/ /\ outC = 0 /\ ~InListens /\ UNCHANGED <<inOpen, outOpen, pipe>>
        /\ \/ Accepts /\ outC' = Head(backlog) /\ outAt' = "write" /\ UNCHANGED f
           \/ NoClient /\ NextFrame /\ UNCHANGED outC
     \/ /\ outC = 0 /\ InListens
        /\ \/ \E c \in Unused : Connects(c) /\ outC' = c /\ outAt' = "write" /\ UNCHANGED f
           \/ Refused /\ NextFrame /\ UNCHANGED outC
  /\ left' = IF outAt' = "write" THEN Words(f) ELSE << >>
  /\ UNCHANGED breaks /\ writerKeeps

\* TCP::writeSocket, as much as the connection takes.  What is written after the
\* other end closed is lost.
TcpSend ==
  /\ outAt = "write" /\ outC \in outOpen
  /\ \E n \in 1 .. Len(left) :
       /\ Len(pipe[outC]) + n <= Room
       /\ pipe' = [pipe EXCEPT ![outC] = @ \o SubSeq(left, 1, n)]
       /\ left' = SubSeq(left, n + 1, Len(left))
  /\ IF left' = << >> THEN NextFrame ELSE UNCHANGED <<outAt, f>>
  /\ UNCHANGED <<breaks, lsock, backlog, outC, inOpen, outOpen>> /\ writerKeeps

OutCloses ==
  /\ outC' = 0 /\ left' = << >>
  /\ outOpen' = outOpen \ ({outC} \cup Reset(~InListens))
  /\ inOpen' = inOpen \ Reset(~InListens)
  /\ ClosesListener(~InListens)

\* The pin closes its socket and, when it listens, the clients that wait.
TcpSendFails ==
  /\ outAt = "write" /\ outC \notin inOpen \cap outOpen
  /\ OutCloses /\ NextFrame
  /\ UNCHANGED <<breaks, pipe>> /\ writerKeeps

TcpSends == TcpSendOpen \/ TcpSend \/ TcpSendFails

\* The connection breaks, or the sending program ends and starts again.
TcpBreak ==
  /\ breaks < MaxBreaks /\ breaks' = breaks + 1
  /\ \/ /\ outC # 0 /\ outC \in inOpen
        /\ inOpen' = inOpen \ {outC} /\ outOpen' = outOpen \ {outC}
        /\ pipe' = [pipe EXCEPT ![outC] = << >>]
        /\ UNCHANGED <<outAt, f, lsock, backlog, outC, left>>
     \/ OutCloses /\ outAt' = "idle" /\ f' = 0 /\ UNCHANGED pipe
  /\ writerKeeps
=============================================================================
