------------------------------- MODULE Transport -------------------------------
(***************************************************************************)
(* Two modules joined by one link, over TCP with the one or the other pin  *)
(* listening, or by shared memory.                                         *)
(***************************************************************************)
EXTENDS TcpPins, ShmPins, FiniteSets

vars == <<commonVars, tcpVars, shmVars>>

Tcp == link \in {"tcpIn", "tcpOut"}
Shm == link = "shm"

TypeOK ==
  /\ link \in Links /\ f \in 0 .. FrameMod - 1 /\ breaks \in 0 .. MaxBreaks /\ turn \in {0, 1}
  /\ at \in {"loop", "read", "head", "media", "message", "headers", "copy", "ended"}
  /\ stopAt \in {"run", "flag", "join", "done"} /\ outAt \in {"idle", "write", "copy", "notify"}
  /\ {lsock, udp, broken} \subseteq BOOLEAN
  /\ {inC, outC, recvC} \subseteq 0 .. Conns /\ inOpen \cup outOpen \subseteq 1 .. Conns
  /\ \A c \in 1 .. Conns : Len(pipe[c]) <= Room
  /\ Cardinality(ToSet(backlog)) = Len(backlog)
  /\ Tcp => Unused # {}
  /\ live \in 0 .. Len(segs) /\ attached \in 0 .. Len(segs) /\ wr \in 0 .. NbSeg - 1
  /\ Len(msgs) <= Queue /\ Len(words) <= total

Init ==
  /\ link \in Links /\ at = "loop" /\ stopAt = "run" /\ outAt = "idle" /\ f = 0 /\ breaks = 0
  /\ turn = 0 /\ broken = FALSE
  /\ TcpInit /\ ShmInit

LinkKeeps == UNCHANGED <<tcpVars, shmVars>>

Reads == \/ Loop /\ LinkKeeps
         \/ Tcp /\ TcpReads /\ UNCHANGED shmVars
         \/ Shm /\ ShmReads /\ UNCHANGED tcpVars

Sends == \/ Tcp /\ TcpSends /\ UNCHANGED shmVars
         \/ Shm /\ ShmSends /\ UNCHANGED tcpVars

Breaks == \/ Tcp /\ TcpBreak /\ UNCHANGED shmVars
          \/ Shm /\ ShmBreak /\ UNCHANGED tcpVars

Stops == \/ Tcp /\ TcpStop /\ UNCHANGED shmVars
         \/ Shm /\ ShmStop /\ UNCHANGED tcpVars
         \/ StopJoin /\ LinkKeeps

Next == Reads \/ Sends \/ Breaks \/ (StopFlag /\ LinkKeeps) \/ Stops

\* Both threads run, the sender has always a next frame, and the application goes on
\* with a stop it has begun.
Spec == Init /\ [][Next]_vars /\ WF_vars(Reads) /\ WF_vars(Sends) /\ WF_vars(Stops)

\* A frame the pin gives has the words the sender sent as one frame: the stream of a
\* connection is cut in frames where the sender cut it, also after a connection broke
\* in the middle of one, and a slot of shared memory is read at the place and with
\* the size of its segment.  The exceptions of the code: see Excused; and a frame
\* without any of the sender's words, which the pin of shared memory gives only when
\* the segment of the message is no longer there.
GivenFramesAreWhole == ~broken

\* As long as it is not stopped the pin gives frame after frame of the sender, whichever side was
\* started first, also after a connection broke or the sender began again.
FramesFlow == \A t \in {0, 1} : turn = t ~> (turn # t \/ quit)

\* CvMIInput::stop returns, whatever the reading thread waits for.  The sender goes
\* on: a recv or recvfrom that waits for a silent one would not return, see README.
StopReturns == stopAt = "flag" ~> stopAt = "done"
=============================================================================
