------------------------------- MODULE Tr03Pin -------------------------------
(***************************************************************************)
(* The TR03 pins.  COutTR03 cuts the lines of a frame into packets, each   *)
(* with a header per piece of a line (CTR03Frame); CInTR03 copies each     *)
(* piece to its place (CTR03FrameParser) and gives the frame at the marker.*)
(* "same" is a sender that packs as COutTR03 does, with the line size and  *)
(* the payload type that CInTR03 expects; "own" is COutTR03; "tall" sends  *)
(* more lines than the pin is configured for.                              *)
(***************************************************************************)
EXTENDS PacketStream

CONSTANTS W, H,         \* the configured picture, in pixels of two bytes
          PayloadLen,   \* bytes of a packet for headers of pieces and data
          LineHeader    \* TRO3_LINE_HEADERS_LENGTH

ASSUME Tr03Assumption ==
  /\ {W, H, PayloadLen, LineHeader} \subseteq Nat \ {0}
  /\ PayloadLen > LineHeader
  /\ PayloadLen % 2 = 0 /\ LineHeader % 2 = 0

GREY == -1     \* the colour resetFrame() paints
WRONG == -2    \* a byte copied to another place than its own

Lines(who) == IF who = "tall" THEN H + 1 ELSE H
LineSize(who) == IF who = "own" THEN W ELSE 2 * W
Pt(who) == IF who = "own" THEN 98 ELSE 96
Smaller(a, b) == IF a < b THEN a ELSE b

\* CTR03Frame::prepare: the pieces of a packet that begins at byte `off' of a line.
Prepare(who) ==
  LET fill[free \in 0 .. PayloadLen, line \in 0 .. Lines(who), off \in 0 .. LineSize(who)] ==
        IF free <= LineHeader \/ line = Lines(who) THEN << >>
        ELSE LET len == Smaller(LineSize(who) - off, free - LineHeader) IN
             <<[line |-> line, off |-> off, len |-> len]>>
               \o fill[free - LineHeader - len, line + 1, 0]
  IN fill

\* Variant: the rest of a line is not carried to the next packet.
NextStartDrops(who, pieces) == <<pieces[Len(pieces)].line + 1, 0>>

\* Where the packet after these pieces begins (addScanLine: is the line complete).
NextStart(who, pieces) ==
  LET last == pieces[Len(pieces)]  end == last.off + last.len IN
  IF end = LineSize(who) THEN <<last.line + 1, 0>> ELSE <<last.line, end>>

\* The packets of a frame: COutTR03::send.
Packing(who) ==
  LET fill == Prepare(who)
      from[s \in (0 .. Lines(who)) \X (0 .. LineSize(who))] ==
        IF s[1] = Lines(who) THEN << >>
        ELSE LET pieces == fill[PayloadLen, s[1], s[2]] IN
             <<pieces>> \o from[NextStart(who, pieces)]
  IN from[<<0, 0>>]

PackingOf == [who \in Senders |-> Packing(who)]

Tr03Sends ==
  LET n == Len(PackingOf[sender]) IN
  \E copies \in {0, 1, 2} : Emit(n, snd.part = n - 1, Pt(sender), copies)

FrameBytes == 2 * W * H
Blank == [a \in 0 .. FrameBytes - 1 |-> GREY]

Tr03Init == cur = Blank /\ wait = FALSE

\* A pin that has no socket returns no error: the frame has nothing in it.  It does
\* not look at the result of openSocket.
Tr03Open ==
  /\ at = "read"
  /\ \/ (Opens \/ OpensDeaf) /\ at' = "read1" /\ cur' = Blank /\ hole' = FALSE
     \/ OpenFails /\ at' = "loop" /\ UNCHANGED <<cur, hole>>
  /\ UNCHANGED <<pin, sender, sndVars, net, stopAt, lastSeq, wait, need, detected, base, broken, missed>>

\* getPixelGroupAddress, with the offset of the header in pixels.
Address(piece) == 2 * W * piece.line + 2 * (piece.off \div 2)
Fits(piece) ==
  /\ piece.line <= H /\ piece.off \div 2 <= W
  /\ Address(piece) + piece.len <= FrameBytes

\* addRtpFrame: the pieces are copied; one that does not fit discards the frame.
Copied(buf, p) ==
  LET pieces == PackingOf[sender][p.part + 1]
      own(piece, a) == LineSize(sender) * piece.line + piece.off + (a - Address(piece)) IN
  [a \in DOMAIN buf |->
     IF \E i \in DOMAIN pieces : a - Address(pieces[i]) \in 0 .. pieces[i].len - 1
     THEN LET piece == CHOOSE q \in {pieces[i] : i \in DOMAIN pieces} :
                         a - Address(q) \in 0 .. q.len - 1
          IN IF own(piece, a) = a THEN p.f ELSE WRONG
     ELSE buf[a]]

Ignored(p) == p.seq = lastSeq \/ p.pt # 96

Tr03Ignore ==
  /\ at = "read1" /\ Takes /\ Ignored(Packet)
  /\ UNCHANGED <<pin, sender, sndVars, fails, sock, deaf, at, stopAt, rcvVars, broken, missed>>

Tr03Packet ==
  LET p == Packet  bad == hole \/ \E i \in DOMAIN PackingOf[sender][p.part + 1] :
                                    ~Fits(PackingOf[sender][p.part + 1][i])
      buf == IF bad THEN cur ELSE Copied(cur, p) IN
  /\ at = "read1" /\ Takes /\ ~Ignored(p)
  /\ lastSeq' = p.seq
  /\ \/ /\ ~p.m /\ cur' = buf /\ hole' = bad /\ UNCHANGED <<at, broken, missed>>
     \/ /\ p.m /\ ~bad /\ cur' = Blank /\ hole' = FALSE
        /\ Give(p.ok >= 1 /\ \E a \in DOMAIN buf : buf[a] # p.f) /\ UNCHANGED missed
     \/ /\ p.m /\ bad /\ cur' = Blank /\ hole' = FALSE
        /\ missed' = (missed \/ sender = "same") /\ UNCHANGED <<at, broken>>
  /\ UNCHANGED <<pin, sender, sndVars, fails, sock, deaf, stopAt, wait, need, detected, base>>

Tr03Reads == Tr03Open \/ Tr03Ignore \/ Tr03Packet
=============================================================================
