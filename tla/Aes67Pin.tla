------------------------------- MODULE Aes67Pin -------------------------------
(***************************************************************************)
(* The AES67 pin: CInAES67 finds the rate and the channels of the stream   *)
(* from two packets in a row, then fills frames of audio, each packet at   *)
(* the place its sequence number gives it.  The samples of one packet are  *)
(* the unit of length.                                                     *)
(***************************************************************************)
EXTENDS PacketStream

CONSTANTS FrameLen,     \* packets of the frame that detects the stream
          MaxLen        \* MaxAudioFrameSize, in packets

ASSUME AudioAssumption == {FrameLen, MaxLen} \subseteq Nat \ {0} /\ FrameLen <= MaxLen

SILENT == -1

AesSends == \E copies \in {0, 1} : Emit(1, TRUE, 97, copies)

Silence == [i \in 0 .. MaxLen - 1 |-> SILENT]

AesInit == cur = Silence /\ wait = FALSE

\* read() begins with a silent frame of the greatest size.  `cur' is the frame and
\* `need' the place of the next packet in it, `base' the packet that belongs to
\* place 0, `hole' that this frame detects the stream.
AesOpen ==
  /\ at = "read"
  /\ \/ (Opens \/ OpensDeaf) /\ at' = "audio" /\ cur' = Silence /\ need' = 0 /\ base' = Next16(lastSeq)
     \/ OpenFails /\ at' = "loop" /\ UNCHANGED <<cur, need, base>>
  /\ hole' = ~detected
  /\ UNCHANGED <<pin, sender, sndVars, net, stopAt, lastSeq, wait, detected, broken, missed>>

MediaSize == IF hole THEN FrameLen ELSE MaxLen

\* The packets between the last and this one.
Jump(seq) == IF detected THEN (SeqMod + seq - lastSeq - 1) % SeqMod ELSE 0

InPlace(frame, first) == \A i \in DOMAIN frame : frame[i] \in {SILENT, (first + i) % SeqMod}

\* Until the stream is found each packet is copied to place 0.  A packet that
\* belongs behind the end of the frame is copied with a negative length, and the
\* program ends.
AesCopy(seq) ==
  LET place == need + Jump(seq)
      size == IF detected THEN MediaSize ELSE MaxLen
      found == detected \/ (lastSeq # -1 /\ Next16(lastSeq) = seq)
      first == IF detected THEN base ELSE seq
      frame == IF place < size THEN [cur EXCEPT ![place] = seq] ELSE cur
      next == IF place < size THEN place + 1 ELSE place IN
  /\ lastSeq' = seq
  /\ \/ /\ place > size /\ at' = "crashed"
        /\ UNCHANGED <<cur, need, detected, base, broken>>
     \/ /\ place <= size
        /\ detected' = found /\ base' = first /\ cur' = frame
        /\ need' = IF found THEN next ELSE 0
        /\ IF found /\ next >= MediaSize
           THEN Give(~InPlace(frame, first))
           ELSE UNCHANGED <<at, broken>>
  /\ UNCHANGED <<pin, sender, snd, lost, good, fails, sock, deaf, stopAt, hole, missed>>

AesPacket == at = "audio" /\ Takes /\ AesCopy(Packet.seq) /\ UNCHANGED wait

\* The socket was closed.  recvfrom fails; or, when the close wakes it, it returns
\* 0, which the pin takes for the packet its buffer still holds, and fails then.
AesWoken ==
  /\ at = "audio" /\ ~sock
  /\ \/ Drops /\ UNCHANGED <<pin, sender, sndVars, fails, sock, deaf, stopAt, rcvVars, missed>>
     \/ ~wait /\ wait' = TRUE /\ AesCopy(IF lastSeq = -1 THEN 0 ELSE lastSeq)
  /\ UNCHANGED net

AesReads == AesOpen \/ AesPacket \/ AesWoken
=============================================================================
