-------------------------------- MODULE ShmPins --------------------------------
(***************************************************************************)
(* COutMem and CInMem: a ring of frames in a segment of shared memory.     *)
(* The writer copies a frame to the next slot and sends a UDP message with *)
(* the segment and the place; the reader copies the frame from there.  It  *)
(* never tells the writer that it is done with a slot.                     *)
(***************************************************************************)
EXTENDS LinkPins

CONSTANTS
  NbSeg,       \* _shm_nbseg of both pins
  Queue        \* messages the socket of the reader holds

ASSUME ShmAssumption == NbSeg \in Nat \ {0} /\ Queue \in Nat \ {0}

VARIABLES
  segs,                 \* the segments, one per session: slot size and words
  live,                 \* the session that has the key, or 0
  wr, copied,           \* _shm_wr_pt; words of the frame copied
  udp, msgs,            \* the socket of the reader is open; messages in it
  attached, session, size,  \* the segment the reader is attached to, or 0, and its _sessionId and _shm_size
  cur, total, words     \* the message it handles; words of the frame and those it has

shmVars == <<segs, live, wr, copied, udp, msgs, attached, session, size, cur, total, words>>
writerVars == <<segs, live, wr, copied>>
readerVars == <<attached, session, size, cur, total, words>>

NONE == <<-1, -1>>
NoMessage == [session |-> 0, size |-> 0, offset |-> 0, f |-> 0, age |-> 0]

ShmInit ==
  /\ segs = << >> /\ live = 0 /\ wr = 0 /\ copied = 0 /\ udp = FALSE /\ msgs = << >>
  /\ attached = 0 /\ session = 0 /\ size = 0 /\ cur = NoMessage /\ total = 0 /\ words = << >>

(***************************************************************************)
(* COutMem::send.                                                          *)
(***************************************************************************)
Slot == segs[live].size \div NbSeg

\* The words of segments that are neither live nor attached to are gone.
Kept(s, used) == [n \in DOMAIN s |-> IF n \in used THEN s[n] ELSE [s[n] EXCEPT !.mem = << >>]]

\* A larger frame needs a larger segment, and a new session.
NewSegment(n) ==
  /\ live' = Len(segs) + 1 /\ wr' = 0
  /\ segs' = Kept(Append(segs, [size |-> NbSeg * n, mem |-> [i \in 0 .. NbSeg * n - 1 |-> NONE]]),
                  {attached, live'})

\* History: how many frames were begun since the one of a message.
Older(m) == [m EXCEPT !.age = IF @ < NbSeg THEN @ + 1 ELSE @]

ShmSendBegin ==
  /\ outAt = "idle"
  /\ IF live = 0 \/ NbSeg * Size(f) > segs[live].size
     THEN NewSegment(Size(f)) ELSE UNCHANGED <<segs, live, wr>>
  /\ outAt' = "copy" /\ copied' = 0
  /\ msgs' = [i \in DOMAIN msgs |-> Older(msgs[i])] /\ cur' = Older(cur)
  /\ UNCHANGED <<link, at, stopAt, f, breaks, turn, broken, udp, attached, session, size, total, words>>

\* copyFrameToMem; a frame smaller than a slot is not sent.
ShmSendCopy ==
  /\ outAt = "copy"
  /\ \/ /\ Slot > Size(f) /\ NextFrame /\ UNCHANGED writerVars
     \/ /\ Slot = Size(f) /\ copied < Slot
        /\ segs' = [segs EXCEPT ![live].mem[wr * Size(f) + copied] = Words(f)[copied + 1]]
        /\ copied' = copied + 1
        /\ UNCHANGED <<outAt, f, live, wr>>
     \/ /\ Slot = Size(f) /\ copied = Slot /\ outAt' = "notify" /\ UNCHANGED <<f, writerVars>>
  /\ UNCHANGED <<link, at, stopAt, breaks, turn, broken, udp, msgs, readerVars>>

NextSlot(n) == (n + 1) % NbSeg

\* A message is lost when the socket of the reader is closed or full.
ShmNotify ==
  LET m == [session |-> live, size |-> segs[live].size, offset |-> wr * Size(f), f |-> f, age |-> 0] IN
  /\ outAt = "notify" /\ NextFrame
  /\ msgs' = IF udp /\ Len(msgs) < Queue THEN Append(msgs, m) ELSE msgs
  /\ wr' = NextSlot(wr)
  /\ UNCHANGED <<link, at, stopAt, breaks, turn, broken, segs, live, copied, udp, readerVars>>

ShmSends == ShmSendBegin \/ ShmSendCopy \/ ShmNotify

\* The sending program ends, which deletes the segment, and starts again.
ShmBreak ==
  /\ breaks < MaxBreaks /\ breaks' = breaks + 1
  /\ live' = 0 /\ wr' = 0 /\ copied' = 0 /\ outAt' = "idle" /\ f' = 0
  /\ segs' = Kept(segs, {attached})
  /\ UNCHANGED <<link, at, stopAt, turn, broken, udp, msgs, readerVars>>

(***************************************************************************)
(* CInMem::read.                                                           *)
(***************************************************************************)
shmReads == UNCHANGED <<link, stopAt, outAt, f, breaks, live, wr, copied>>

ShmOpen ==
  /\ at = "read" /\ at' = "message" /\ udp' = TRUE
  /\ UNCHANGED <<turn, broken, segs, msgs, readerVars>> /\ shmReads

\* Variant: the session is not looked at.
SegmentChangedBySize(m) == attached = 0 \/ m.size # size

\* _checkMemorySegment: is another segment needed?  The key stays the same.
SegmentChanged(m) == attached = 0 \/ m.size # size \/ m.session # session

\* getSHMSegment finds the segment that has the key now, if it is large enough.
Found(m) == IF live # 0 /\ m.size <= segs[live].size THEN live ELSE 0

\* Without a segment read() returns 0, which CvMIInput takes for a frame.
ShmTake ==
  LET m == Head(msgs)  found == Found(m) IN
  /\ at = "message" /\ udp /\ msgs # << >> /\ msgs' = Tail(msgs)
  /\ \/ /\ ~SegmentChanged(m) /\ at' = "headers" /\ cur' = m
        /\ UNCHANGED <<attached, session, size, turn, broken>>
     \/ /\ SegmentChanged(m) /\ attached' = found /\ size' = m.size
        /\ \/ /\ found # 0 /\ session' = m.session /\ at' = "headers" /\ cur' = m
              /\ UNCHANGED <<turn, broken>>
           \/ found = 0 /\ GivesNoWords(m.session # live) /\ UNCHANGED <<session, cur>>
  /\ segs' = Kept(segs, {attached', live})
  /\ UNCHANGED <<udp, total, words>> /\ shmReads

Word(n) == segs[attached].mem[cur.offset + n]

\* The headers at the place the message tells give the size of what is copied.
ShmHeaders ==
  /\ at = "headers"
  /\ \/ Word(0)[2] = 0 /\ at' = "copy" /\ total' = Size(Word(0)[1]) /\ UNCHANGED cur
     \/ Word(0)[2] # 0 /\ at' = "loop" /\ cur' = NoMessage /\ UNCHANGED total
  /\ UNCHANGED <<turn, broken, segs, udp, msgs, attached, session, size, words>> /\ shmReads

\* A frame is not whole when the writer came round to its slot, or when the segment
\* of its message was already replaced when the reader attached to it.
Excused == cur.age >= NbSeg \/ cur.session < attached

ShmCopy ==
  /\ at = "copy"
  /\ \/ /\ Len(words) < total
        /\ words' = Append(words, Word(Len(words)))
        /\ UNCHANGED <<at, turn, broken, cur, total>>
     \/ /\ Len(words) = total /\ Gives(words, cur.f, Excused)
        /\ cur' = NoMessage /\ total' = 0 /\ words' = << >>
  /\ UNCHANGED <<segs, udp, msgs, attached, session, size>> /\ shmReads

\* recvfrom returns nothing once the socket is closed.
ShmWoken ==
  /\ at = "message" /\ ~udp /\ at' = "loop"
  /\ UNCHANGED <<turn, broken, segs, udp, msgs, readerVars>> /\ shmReads

ShmReads == ShmOpen \/ ShmTake \/ ShmHeaders \/ ShmCopy \/ ShmWoken

\* CInMem::stop
ShmStop ==
  /\ StopPinCalled /\ udp' = FALSE /\ msgs' = << >>
  /\ UNCHANGED <<writerVars, readerVars>>
=============================================================================
