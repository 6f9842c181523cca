------------------------------- MODULE SmpteFrame -------------------------------
(***************************************************************************)
(* One buffer of the SMPTE 2022-6 input (CSMPTPFrame): packets are added   *)
(* until the frame is complete or dropped.  A packet is its number in the  *)
(* stream; PktsPerFrame packets make a frame, the last of them carries the *)
(* end marker, and a packet tells its number modulo SeqRange (65536 in RTP). *)
(* All packets have the same length, so lengths are counted in packets,    *)
(* the padding of the last one included; the stream has one payload type   *)
(* and one profile.                                                        *)
(***************************************************************************)
EXTENDS Integers, Sequences

CONSTANTS
  PktsPerFrame,         \* packets of a frame of the profile
  SeqRange,               \* range of the RTP sequence number
  VideoOnly             \* "onlyvideo"

ASSUME FrameAssumption ==
  /\ PktsPerFrame \in Nat \ {0} /\ SeqRange \in Nat \ {0, 1}
  /\ VideoOnly \in BOOLEAN

SeqOf(n) == n % SeqRange
IsEndOfFrame(n) == n % PktsPerFrame = PktsPerFrame - 1
FrameOf(n) == n \div PktsPerFrame

\* The packets of the k-th frame of the stream, in order.
FramePackets(k) == [j \in 1 .. PktsPerFrame |-> k * PktsPerFrame + j - 1]

\* Memory nothing was written to.
JUNK == -1
Junk(len) == [j \in 1 .. len |-> JUNK]

Media == {"VIDEO", "AUDIO", "ANC"}
MediaBuffers == IF VideoOnly THEN <<"VIDEO">> ELSE <<"VIDEO", "AUDIO", "ANC">>

\* size is _completeframelen, 0 as long as _firstFrame is set; data is what _frame
\* holds up to _writer; avail is _qAvailableBuffers, next first.
Frames ==
  [wait : BOOLEAN, firstPacket : BOOLEAN, lastSeq : {-1} \cup 0 .. SeqRange - 1,
   size : Nat, len : Nat, data : Seq(Nat \cup {JUNK}), complete : BOOLEAN, avail : Seq(Media)]

\* CSMPTPFrame::CSMPTPFrame
NewFrame ==
  [wait |-> TRUE, firstPacket |-> TRUE, lastSeq |-> -1,
   size |-> 0, len |-> 0, data |-> << >>, complete |-> FALSE, avail |-> << >>]

\* _reset, which is all initNewFrame does.
Reset(f) == [f EXCEPT !.firstPacket = TRUE, !.len = 0, !.data = << >>, !.complete = FALSE]

Abort(f) == [Reset(f) EXCEPT !.wait = TRUE]

\* Variant: a gap is not looked for.
NoGap(f, n) == FALSE

\* Variant: the wrap of the sequence number is taken for a gap.
GapAtWrap(f, n) ==
  /\ ~f.wait /\ ~f.firstPacket /\ f.lastSeq # -1
  /\ SeqOf(n) # f.lastSeq + 1

\* The sequence number is not the one after the last: the first packet of a
\* frame is taken as it comes.
Gap(f, n) ==
  /\ ~f.wait /\ ~f.firstPacket /\ f.lastSeq # -1
  /\ SeqOf(n) # (f.lastSeq + 1) % SeqRange

\* A buffer that waits drops packets up to an end marker, the marker included.
Skip(f, n) ==
  IF IsEndOfFrame(n) THEN [Reset(f) EXCEPT !.wait = FALSE] ELSE [f EXCEPT !.wait = TRUE]

\* The payload is copied only once the buffer exists, which the end of the
\* first complete frame creates.
Copy(f, n) ==
  [f EXCEPT !.firstPacket = FALSE, !.len = @ + 1,
            !.data = IF f.size = 0 THEN @ ELSE Append(@, n)]

Overflow(f) == f.size # 0 /\ Len(f.data) >= f.size

Complete(f) == [f EXCEPT !.complete = TRUE, !.avail = MediaBuffers]

\* At the end marker.  The first frame must have the length of the profile, up
\* to one packet more; its length is then the length of every frame, and the
\* buffer is allocated for it.
EndOfFrame(f) ==
  IF f.size = 0
  THEN IF f.len \in PktsPerFrame .. PktsPerFrame + 1
       THEN Complete([f EXCEPT !.size = f.len, !.data = Junk(f.len)])
       ELSE Abort(f)
  ELSE IF f.len = f.size THEN Complete(f) ELSE Reset(f)

Keep(f, n) ==
  IF Overflow(f) THEN Abort(f)
  ELSE IF IsEndOfFrame(n) THEN EndOfFrame(Copy(f, n))
  ELSE Copy(f, n)

\* addRTPPacket
AddPacket(f, n) ==
  LET g == [f EXCEPT !.lastSeq = SeqOf(n)]
  IN  IF f.wait \/ Gap(f, n) THEN Skip(g, n) ELSE Keep(g, n)

=============================================================================
