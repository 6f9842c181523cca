-------------------------------- MODULE RtpPin --------------------------------
(***************************************************************************)
(* The RTP pins: COutRTP with CRTPPacketizer cuts a vMI frame, headers     *)
(* first, into packets; CInRTP waits for the end of a frame and puts the   *)
(* next together (CvMIFrame::createFrameFromUDP).                          *)
(***************************************************************************)
EXTENDS PacketStream

\* COutRTP::send: every packet has the payload type 98, the last the marker.
RtpPart(copies) ==
  \E n \in IF snd.part = 0 THEN 1 .. MaxParts ELSE {snd.n} :
    Emit(n, snd.part = n - 1, 98, copies)

\* A write fails after the number was taken: the rest of the frame is not sent.
RtpSendFails ==
  /\ fails < MaxFail /\ fails' = fails + 1
  /\ snd' = [seq |-> Next16(snd.seq), f |-> (snd.f + 1) % FrameMod, part |-> 0, n |-> 0]
  /\ good' = 0
  /\ UNCHANGED <<pin, sender, lost, net, sock, deaf, at, stopAt, rcvVars, broken, missed>>

RtpSends == RtpSendFails \/ \E copies \in {0, 1} : RtpPart(copies)

RtpInit == cur = << >> /\ wait = TRUE

\* A new socket makes the pin wait for the end of a frame.
RtpOpen ==
  /\ at = "read"
  /\ \/ ~sock /\ Opens /\ wait' = TRUE /\ at' = "align"
     \/ (OpenFails \/ OpensDeaf) /\ at' = "loop" /\ UNCHANGED wait
     \/ sock /\ at' = (IF wait THEN "align" ELSE "first") /\ UNCHANGED <<sock, deaf, fails, wait>>
  /\ UNCHANGED <<pin, sender, sndVars, net, stopAt, lastSeq, cur, need, detected, base, hole,
                 broken, missed>>

RtpKeeps == UNCHANGED <<pin, sender, sndVars, fails, sock, deaf, stopAt, detected, base>>

\* The marker of a frame that had to be given: this step does not give it.
MissesIf(p) == missed' = (missed \/ (p.m /\ p.ok = 2 /\ ~quit))

\* Variant: the pin waits for the end of a frame before each frame.
RtpAlignAlways ==
  /\ at = "align" /\ Takes
  /\ at' = IF bStarted THEN IF Packet.m THEN "first" ELSE at ELSE "loop"
  /\ MissesIf(Packet)
  /\ RtpKeeps /\ UNCHANGED <<lastSeq, wait, cur, need, hole, broken>>

RtpAlign ==
  /\ at = "align" /\ Takes
  /\ \/ ~bStarted /\ at' = "loop" /\ UNCHANGED wait
     \/ bStarted /\ Packet.m /\ at' = "first" /\ wait' = FALSE
     \/ bStarted /\ ~Packet.m /\ UNCHANGED <<at, wait>>
  /\ MissesIf(Packet)
  /\ RtpKeeps /\ UNCHANGED <<lastSeq, cur, need, hole, broken>>

\* What createFrameFromUDP has for the frame it is putting together.
RtpNone == lastSeq' = -1 /\ cur' = << >> /\ need' = 0 /\ hole' = FALSE
RtpGives(bad) == Give(bad) /\ RtpNone
RtpDrops == Drops /\ RtpNone

\* All the parts of one frame, in order.
Whole(c, n) == Len(c) = n /\ \A i \in 1 .. n : c[i] = <<c[1][1], i - 1>>

\* The first packet has the headers, which give the size of the frame.
RtpFirst ==
  LET p == Packet IN
  /\ at = "first" /\ Takes
  /\ \/ p.part # 0 /\ wait' = TRUE /\ RtpDrops /\ MissesIf(p)
     \/ p.part = 0 /\ p.n = 1 /\ RtpGives(FALSE) /\ UNCHANGED <<wait, missed>>
     \/ /\ p.part = 0 /\ p.n > 1 /\ at' = "next"
        /\ lastSeq' = p.seq /\ cur' = <<<<p.f, 0>>>> /\ need' = p.n /\ hole' = FALSE
        /\ UNCHANGED <<wait, broken, missed>>
  /\ RtpKeeps

\* What createFrameFromUDP takes for lost packets: not a number that is lower.
SeesGap(seq, last) == seq > last /\ seq # last + 1

\* History: a hole at the wrap, which the pin cannot see.
Unseen(seq, last) == seq <= last /\ seq # Next16(last)

\* The frame has all its bytes and the marker has not come.
Overruns(c) == Len(c) = need

RtpNext ==
  LET p == Packet  c == Append(cur, <<p.f, p.part>>)  h == hole \/ Unseen(p.seq, lastSeq) IN
  /\ at = "next" /\ Takes
  /\ \/ SeesGap(p.seq, lastSeq) /\ RtpDrops /\ MissesIf(p) /\ wait' = TRUE
     \/ /\ ~SeesGap(p.seq, lastSeq)
        /\ \/ p.m /\ RtpGives(~Whole(c, need) /\ ~h) /\ UNCHANGED <<wait, missed>>
           \/ ~p.m /\ Overruns(c) /\ RtpDrops /\ wait' = TRUE /\ UNCHANGED missed
           \/ /\ ~p.m /\ ~Overruns(c)
              /\ lastSeq' = p.seq /\ cur' = c /\ hole' = h
              /\ UNCHANGED <<at, wait, need, broken, missed>>
  /\ RtpKeeps

\* Variant: the pin reads again when the socket returns an error.
RtpWokenRetries ==
  /\ at \in {"align", "first", "next"} /\ ~sock
  /\ UNCHANGED vars

\* recvfrom returns because the socket was closed.
RtpWoken ==
  /\ at \in {"align", "first", "next"} /\ ~sock
  /\ RtpDrops /\ wait' = (wait \/ at # "align")
  /\ UNCHANGED <<net, missed>> /\ RtpKeeps

RtpReads == RtpOpen \/ RtpAlign \/ RtpFirst \/ RtpNext \/ RtpWoken
=============================================================================
