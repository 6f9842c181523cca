------------------------------- MODULE SmpteInput -------------------------------
(***************************************************************************)
(* The SMPTE 2022-6 input pin (CInSMPTE in insmpte.cpp) between its source *)
(* and libvMI.  The receiving thread fills the frame buffers in turn, each *)
(* under its lock, and announces a complete one on a queue of indices.     *)
(* The thread of CvMIInput reads: it takes an index, then one media buffer *)
(* of that frame per read, without the lock.  The application starts and   *)
(* stops the pin (CvMIInput::start and stop).                              *)
(* The network loses, repeats and reorders packets: it is external.        *)
(***************************************************************************)
EXTENDS SmpteFrame, FiniteSets

CONSTANTS
  NbBuffers,            \* "queuesize", MAX_NB_SMPTE_FRAME by default
  Skipped,              \* bound of the network: packets lost in a row
  Late,                 \* bound of the network: how late a packet may come
  MaxPackets,           \* bound of the model: packets of the stream
  MaxErrors,            \* bound of the model: failing reads of an open source
  MaxStarts             \* bound of the model: starts of the pin

\* A gap is never a whole turn of the sequence number.
ASSUME InputAssumption ==
  /\ NbBuffers \in Nat \ {0}
  /\ {Skipped, Late, MaxPackets, MaxErrors, MaxStarts} \subseteq Nat
  /\ Skipped + Late + 2 <= SeqRange

VARIABLES
  next,                 \* the first packet of the stream the network has not passed
  errors,               \* failing reads so far
  frames,               \* _smpteFrameArray
  lock,                 \* per buffer: whether the receiving thread holds its _lock
  queue,                \* _q
  started,              \* _bStarted
  rcvAt,                \* where the receiving thread is
  rcvPtr,               \* its framePointer
  rcvSeq,               \* its lastSeq
  readAt,               \* where the reading thread is
  current,              \* _currentFrame, or NONE
  popped,               \* the index it took from the queue
  copied,               \* the content of the media buffer it copies
  quit,                 \* CvMIInput::m_quit_process
  appAt,                \* where the application is
  starts,               \* number of starts
  given,                \* history, per buffer: the packets given since the last end
                        \* marker; starts with STOP when the buffer began in between
  taken,                \* history: the frames the reads returned, in order
  torn,                 \* history: a read copied parts of different frames
  late                  \* history: the reader fell behind the receiving thread

netVars == <<next, errors>>
rcvVars == <<rcvAt, rcvPtr, rcvSeq>>
readVars == <<readAt, current, popped, copied>>
appVars == <<started, quit, appAt, starts>>
bufVars == <<frames, lock, queue>>
histVars == <<given, taken, torn, late>>
vars == <<netVars, rcvVars, readVars, appVars, bufVars, histVars>>

Buffers == 0 .. NbBuffers - 1
NONE == -2
STOP == -1

TypeOK ==
  /\ next \in 0 .. MaxPackets
  /\ errors \in 0 .. MaxErrors
  /\ frames \in [Buffers -> Frames]
  /\ lock \in [Buffers -> BOOLEAN]
  /\ queue \in Seq(Buffers \cup {STOP})
  /\ started \in BOOLEAN /\ quit \in BOOLEAN
  /\ rcvAt \in {"none", "first", "next", "fill", "push", "ended"}
  /\ rcvPtr \in Buffers
  /\ rcvSeq \in {-1} \cup 0 .. SeqRange - 1
  /\ readAt \in {"none", "loop", "pop", "lock", "take", "copy", "ended"}
  /\ current \in Buffers \cup {NONE}
  /\ popped \in Buffers \cup {NONE}
  /\ copied \in Seq(Nat \cup {JUNK})
  /\ appAt \in {"idle", "spawn", "close", "mark", "joinRcv", "joinRead"}
  /\ starts \in 0 .. MaxStarts
  /\ given \in [Buffers -> Seq(Nat \cup {STOP})]
  /\ taken \in Seq(Nat)
  /\ torn \in BOOLEAN /\ late \in BOOLEAN
  \* the receiving thread holds a lock exactly while it fills that buffer
  /\ \A b \in Buffers : lock[b] <=> rcvAt \in {"fill", "push"} /\ rcvPtr = b

Init ==
  /\ next = 0 /\ errors = 0
  /\ frames = [b \in Buffers |-> NewFrame]
  /\ lock = [b \in Buffers |-> FALSE]
  /\ queue = << >>
  /\ started = FALSE /\ quit = FALSE
  /\ rcvAt = "none" /\ rcvPtr = 0 /\ rcvSeq = -1
  /\ readAt = "none" /\ current = NONE /\ popped = NONE /\ copied = << >>
  /\ appAt = "idle" /\ starts = 0
  /\ given = [b \in Buffers |-> <<STOP>>]
  /\ taken = << >> /\ torn = FALSE /\ late = FALSE

(***************************************************************************)
(* External: what a read of an open source returns.                        *)
(***************************************************************************)
Delivered(n) ==
  /\ n \in 0 .. MaxPackets - 1
  /\ next - Late <= n /\ n <= next + Skipped
  /\ next' = IF n < next THEN next ELSE n + 1
  /\ UNCHANGED errors

SourceFails ==
  /\ errors < MaxErrors
  /\ errors' = errors + 1
  /\ UNCHANGED next

(***************************************************************************)
(* The receiving thread: _rcv_process.                                     *)
(***************************************************************************)
RcvGoes(from, to) == rcvAt = from /\ rcvAt' = to

\* The first packet only tells the kind of the stream; a source that fails
\* before it, or a stop, ends the thread.
RcvFirst ==
  /\ UNCHANGED <<bufVars, rcvPtr, rcvSeq, readVars, appVars, histVars>>
  /\ \/ /\ started
        /\ RcvGoes("first", "next")
        /\ \E n \in 0 .. MaxPackets - 1 : Delivered(n)
     \/ started /\ RcvGoes("first", "ended") /\ SourceFails
     \/ ~started /\ RcvGoes("first", "ended") /\ UNCHANGED netVars

\* The reader has not finished with buffer b.
InUse(b) ==
  \/ \E j \in 1 .. Len(queue) : queue[j] = b
  \/ readAt = "lock" /\ popped = b
  \/ current = b /\ (frames[b].avail # << >> \/ readAt \in {"take", "copy"})

EndsGiven(b) ==
  \/ given[b] = << >>
  \/ given[b][Len(given[b])] # STOP /\ IsEndOfFrame(given[b][Len(given[b])])

RcvNext ==
  /\ started
  /\ RcvGoes("next", "fill")
  /\ ~lock[rcvPtr]
  /\ lock' = [lock EXCEPT ![rcvPtr] = TRUE]
  /\ frames' = [frames EXCEPT ![rcvPtr] = Reset(@)]
  /\ given' = [given EXCEPT ![rcvPtr] = IF EndsGiven(rcvPtr) THEN << >> ELSE <<STOP>>]
  /\ late' = (late \/ InUse(rcvPtr))
  /\ UNCHANGED <<netVars, rcvPtr, rcvSeq, queue, readVars, appVars, taken, torn>>

RcvStopped ==
  /\ ~started
  /\ RcvGoes("next", "ended")
  /\ UNCHANGED <<netVars, rcvPtr, rcvSeq, bufVars, readVars, appVars, histVars>>

Unlock == lock' = [lock EXCEPT ![rcvPtr] = FALSE]

\* A packet that repeats the last one is dropped, any other one is added.
RcvPacket(n) ==
  /\ started
  /\ RcvGoes("fill", "fill")
  /\ ~frames[rcvPtr].complete
  /\ Delivered(n)
  /\ \/ SeqOf(n) = rcvSeq /\ UNCHANGED <<frames, rcvSeq, given, late>>
     \/ /\ SeqOf(n) # rcvSeq
        /\ rcvSeq' = SeqOf(n)
        /\ frames' = [frames EXCEPT ![rcvPtr] = AddPacket(@, n)]
        /\ given' = [given EXCEPT ![rcvPtr] =
                       IF EndsGiven(rcvPtr) THEN <<n>> ELSE Append(@, n)]
        /\ late' = (late \/ (frames'[rcvPtr].complete /\ current = rcvPtr))
  /\ UNCHANGED <<rcvPtr, lock, queue, readVars, appVars, taken, torn>>

\* Any other error loses the frame.
RcvError ==
  /\ started
  /\ RcvGoes("fill", "next")
  /\ ~frames[rcvPtr].complete
  /\ SourceFails
  /\ frames' = [frames EXCEPT ![rcvPtr] = Abort(@)]
  /\ given' = [given EXCEPT ![rcvPtr] = <<STOP>>]
  /\ Unlock
  /\ UNCHANGED <<rcvPtr, rcvSeq, queue, readVars, appVars, taken, torn, late>>

\* The read of a closed source returns; the frame stays as it is.
RcvLeave ==
  /\ ~started
  /\ RcvGoes("fill", "ended")
  /\ Unlock
  /\ UNCHANGED <<netVars, rcvPtr, rcvSeq, frames, queue, readVars, appVars, histVars>>

RcvComplete ==
  /\ started
  /\ RcvGoes("fill", "push")
  /\ frames[rcvPtr].complete
  /\ UNCHANGED <<netVars, rcvPtr, rcvSeq, bufVars, readVars, appVars, histVars>>

\* Variant: the queue is a stack.
RcvAnnounceFirst ==
  /\ RcvGoes("push", "next")
  /\ queue' = <<rcvPtr>> \o queue
  /\ rcvPtr' = (rcvPtr + 1) % NbBuffers
  /\ Unlock
  /\ UNCHANGED <<netVars, rcvSeq, frames, readVars, appVars, histVars>>

RcvAnnounce ==
  /\ RcvGoes("push", "next")
  /\ queue' = Append(queue, rcvPtr)
  /\ rcvPtr' = (rcvPtr + 1) % NbBuffers
  /\ Unlock
  /\ UNCHANGED <<netVars, rcvSeq, frames, readVars, appVars, histVars>>

Receiver ==
  \/ RcvFirst \/ RcvNext \/ RcvStopped
  \/ \E n \in 0 .. MaxPackets - 1 : RcvPacket(n)
  \/ RcvError \/ RcvLeave \/ RcvComplete \/ RcvAnnounce

(***************************************************************************)
(* The reading thread: CvMIInput::_process calls read until it must quit.  *)
(***************************************************************************)
ReadGoes(from, to) == readAt = from /\ readAt' = to

ReadKeeps == UNCHANGED <<netVars, rcvVars, lock, appVars, given, late>>

HasMedia == current # NONE /\ frames[current].avail # << >>

ReadLoop ==
  /\ \/ quit /\ ReadGoes("loop", "ended")
     \/ ~quit /\ HasMedia /\ ReadGoes("loop", "take")
     \/ ~quit /\ ~HasMedia /\ ReadGoes("loop", "pop")
  /\ UNCHANGED <<frames, queue, current, popped, copied, taken, torn>> /\ ReadKeeps

\* _get_next_frame waits for an index; the marker of stop makes the read fail.
ReadPop ==
  /\ queue # << >>
  /\ queue' = Tail(queue)
  /\ \/ /\ Head(queue) = STOP
        /\ ReadGoes("pop", "loop")
        /\ current' = NONE
        /\ UNCHANGED popped
     \/ /\ Head(queue) # STOP
        /\ ReadGoes("pop", "lock")
        /\ popped' = Head(queue)
        /\ UNCHANGED current
  /\ UNCHANGED <<frames, copied, taken, torn>> /\ ReadKeeps

\* The lock is held while the size of the frame is read, then given back.
ReadLock ==
  /\ ReadGoes("lock", "take")
  /\ ~lock[popped]
  /\ current' = popped
  /\ popped' = NONE
  /\ UNCHANGED <<frames, queue, copied, taken, torn>> /\ ReadKeeps

\* The next media buffer; no buffer left, or an ancillary one, is an error.
ReadTake ==
  /\ readAt = "take"
  /\ \/ /\ ~HasMedia
        /\ readAt' = "loop"
        /\ UNCHANGED <<frames, copied>>
     \/ /\ HasMedia
        /\ frames' = [frames EXCEPT ![current].avail = Tail(@)]
        /\ \/ Head(frames[current].avail) = "ANC" /\ readAt' = "loop" /\ UNCHANGED copied
           \/ /\ Head(frames[current].avail) # "ANC"
              /\ readAt' = "copy"
              /\ copied' = frames[current].data
  /\ UNCHANGED <<queue, current, popped, taken, torn>> /\ ReadKeeps

\* One whole frame, or the memory of a first frame.
Sound(d) ==
  /\ d # << >>
  /\ d \in {Junk(PktsPerFrame), FramePackets(FrameOf(d[1]))}

\* createFrameFromSmpteFrame reads the buffer to its end while the receiving
\* thread may write it again.
ReadCopied ==
  /\ ReadGoes("copy", "loop")
  /\ copied' = << >>
  /\ torn' = (torn \/ copied # frames[current].data \/ ~Sound(copied))
  /\ taken' = IF Sound(copied) /\ copied[1] # JUNK THEN Append(taken, FrameOf(copied[1]))
              ELSE taken
  /\ UNCHANGED <<frames, queue, current, popped>> /\ ReadKeeps

Reader == ReadLoop \/ ReadPop \/ ReadLock \/ ReadTake \/ ReadCopied

(***************************************************************************)
(* The application: CvMIInput::start and stop around those of the pin.     *)
(***************************************************************************)
AppGoes(from, to) == appAt = from /\ appAt' = to

AppKeeps == UNCHANGED <<netVars, bufVars, current, popped, copied, histVars>>

AppStart ==
  /\ ~started /\ starts < MaxStarts
  /\ AppGoes("idle", "spawn")
  /\ started' = TRUE /\ starts' = starts + 1
  /\ rcvAt' = "first" /\ rcvPtr' = 0 /\ rcvSeq' = -1
  /\ UNCHANGED <<quit, readAt, queue>> /\ AppKeeps

AppSpawn ==
  /\ AppGoes("spawn", "idle")
  /\ quit' = FALSE
  /\ readAt' = "loop"
  /\ UNCHANGED <<started, starts, rcvVars>> /\ AppKeeps

AppStop ==
  /\ started
  /\ AppGoes("idle", "close")
  /\ quit' = TRUE
  /\ UNCHANGED <<started, starts, rcvVars, readAt>> /\ AppKeeps

AppClose ==
  /\ AppGoes("close", "mark")
  /\ started' = FALSE
  /\ UNCHANGED <<quit, starts, rcvVars, readAt, queue>> /\ AppKeeps

\* Variant: the reader is not woken.
AppNoMark ==
  /\ AppGoes("mark", "joinRcv")
  /\ UNCHANGED <<started, quit, starts, rcvVars, readAt, queue>> /\ AppKeeps

AppMark ==
  /\ AppGoes("mark", "joinRcv")
  /\ queue' = Append(queue, STOP)
  /\ UNCHANGED <<netVars, frames, lock, started, quit, starts, rcvVars, readVars, histVars>>

AppJoinRcv ==
  /\ AppGoes("joinRcv", "joinRead")
  /\ rcvAt = "ended" /\ rcvAt' = "none"
  /\ UNCHANGED <<started, quit, starts, rcvPtr, rcvSeq, readAt>> /\ AppKeeps

AppJoinRead ==
  /\ AppGoes("joinRead", "idle")
  /\ readAt = "ended" /\ readAt' = "none"
  /\ UNCHANGED <<started, quit, starts, rcvVars>> /\ AppKeeps

AppThread == AppSpawn \/ AppClose \/ AppMark \/ AppJoinRcv \/ AppJoinRead

\* Nothing is left to happen: the pin was stopped for the last time.
Rest == appAt = "idle" /\ ~started /\ starts = MaxStarts /\ UNCHANGED vars

Next == Receiver \/ Reader \/ AppStart \/ AppStop \/ AppThread \/ Rest

Spec == Init /\ [][Next]_vars

\* The threads run; what the application calls and what the network delivers
\* is not assumed.
Fairness ==
  /\ WF_vars(RcvStopped) /\ WF_vars(RcvLeave) /\ WF_vars(RcvNext)
  /\ WF_vars(RcvComplete) /\ WF_vars(RcvAnnounce)
  /\ WF_vars(RcvFirst /\ ~started)
  /\ WF_vars(Reader) /\ WF_vars(AppThread)

FairSpec == Spec /\ Fairness

(***************************************************************************)
(* Properties.                                                             *)
(***************************************************************************)
\* A frame is only complete with exactly the packets of one frame, whatever the
\* network lost, repeated or reordered, across the wrap of the sequence number
\* and a restart.  The memory of the first frame of a buffer is never written.
CompleteFramesAreWhole ==
  \A b \in Buffers : frames[b].complete => Sound(frames[b].data)

\* No needless loss: a buffer in use that was given an end marker and then all
\* packets of a frame in order completes that frame.
GoodFramesComplete ==
  \A b \in Buffers :
    /\ given[b] # << >> /\ EndsGiven(b) /\ frames[b].size # 0
    /\ given[b] = FramePackets(FrameOf(given[b][1]))
    => frames[b].complete

Rising(s) == \A j \in 2 .. Len(s) : s[j - 1] <= s[j]

\* As long as the reader keeps up, it reads whole frames and never an older one
\* after a newer one.
KeepsUpReadsInOrder == ~late => ~torn /\ Rising(taken)

\* read gets a new frame once the current one is consumed.
ReadsGoForward == Rising(taken)

\* stop returns: neither the source, nor a lock, nor an empty queue keeps the
\* receiving thread or the reader for ever.
StopReturns == (appAt = "close") ~> (appAt = "idle")
=============================================================================
