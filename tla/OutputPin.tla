------------------------------- MODULE OutputPin -------------------------------
(***************************************************************************)
(* CvMIOutput (ip2vf/libvMI/vMI_output.cpp) over CQueue (common/queue.h):  *)
(* a queue of (marker, handle) pairs that libvMI_send fills and one thread *)
(* empties.  The thread tests m_quit_process, waits for an entry, sends    *)
(* the frame with the pin and gives its reference back.  stop() raises     *)
(* m_quit_process and queues a marker, so that a thread that waits wakes   *)
(* up, and then joins the thread.                                          *)
(***************************************************************************)
EXTENDS FrameMedia

CONSTANTS
  Outputs,              \* the output pins, 1 .. n in the order of m_OutputStreams
  Throwing              \* those whose m_output->send throws (outsmpte.cpp)

ASSUME OutputsAssumption ==
  IsFiniteSet(Outputs) /\ Outputs = 1 .. Cardinality(Outputs) /\ Throwing \subseteq Outputs

VARIABLES
  outState,             \* m_state
  outQuit,              \* m_quit_process
  outThread,            \* where the thread of m_th_process is
  outQueue,             \* m_frameQueue, the oldest entry first
  outFrame,             \* res.second of the entry being handled
  outPtr,               \* the frame object libvMI_frame_get returned for it
  sent,                 \* per pin: the frames handed to the network so far
  kept                  \* history, per pin: the frames it threw on and never released

outVars == <<outState, outQuit, outThread, outQueue, outFrame, outPtr, sent, kept>>

\* "none": m_th_process is not joinable; "ended": the thread has returned and
\* has not been joined.
OutThreads == {"none", "loop", "pop", "send", "release", "end", "ended"}

FrameEntry(h) == [marker |-> FALSE, frame |-> h]
StopEntry == [marker |-> TRUE, frame |-> INVALID]

OutTypeOK ==
  /\ outState \in [Outputs -> States]
  /\ outQuit \in [Outputs -> BOOLEAN]
  /\ outThread \in [Outputs -> OutThreads]
  /\ outQueue \in [Outputs -> Seq([marker : BOOLEAN, frame : Int])]
  /\ outFrame \in [Outputs -> Int]
  /\ outPtr \in [Outputs -> 0 .. MaxFrames]
  /\ sent \in [Outputs -> Seq(Nat)]
  /\ kept \in [Outputs -> SUBSET Int]

\* After _init.
OutInit ==
  /\ outState = [o \in Outputs |-> STOPPED]
  /\ outQuit = [o \in Outputs |-> FALSE]
  /\ outThread = [o \in Outputs |-> "none"]
  /\ outQueue = [o \in Outputs |-> << >>]
  /\ outFrame = [o \in Outputs |-> INVALID]
  /\ outPtr = [o \in Outputs |-> 0]
  /\ sent = [o \in Outputs |-> << >>]
  /\ kept = [o \in Outputs |-> {}]

OutGoes(o, from, to) ==
  /\ outThread[o] = from
  /\ outThread' = [outThread EXCEPT ![o] = to]

\* CQueue::push of one entry.
\* Variant: the queue is filled at the end it is emptied from.
PushFront(o, entry) == outQueue' = [outQueue EXCEPT ![o] = <<entry>> \o @]

Push(o, entry) == outQueue' = [outQueue EXCEPT ![o] = Append(@, entry)]

(***************************************************************************)
(* The thread: _process().                                                 *)
(***************************************************************************)
OutTestQuit(o) ==
  /\ OutGoes(o, "loop", IF outQuit[o] THEN "end" ELSE "pop")
  /\ UNCHANGED <<outState, outQuit, outQueue, outFrame, outPtr, sent, kept>>

\* CQueue::pop waits for an entry; the marker and the invalid handle end the
\* loop, and an unknown handle is skipped.
\* Variant: the handle 0 is taken for the invalid one.
AfterPopZero(entry) ==
  IF entry.marker \/ entry.frame <= 0 THEN "end"
  ELSE IF FrameGet(entry.frame) = 0 THEN "loop" ELSE "send"

AfterPop(entry) ==
  IF entry.marker \/ entry.frame = INVALID THEN "end"
  ELSE IF FrameGet(entry.frame) = 0 THEN "loop" ELSE "send"

OutPop(o) ==
  /\ outQueue[o] # << >>
  /\ LET entry == Head(outQueue[o])
     IN  /\ OutGoes(o, "pop", AfterPop(entry))
         /\ outFrame' = [outFrame EXCEPT ![o] = entry.frame]
         /\ outPtr' = [outPtr EXCEPT ![o] = FrameGet(entry.frame)]
  /\ outQueue' = [outQueue EXCEPT ![o] = Tail(@)]
  /\ UNCHANGED <<outState, outQuit, sent, kept>>

\* m_output->send(frame): what goes out is what the object carries then.
OutSend(o) ==
  /\ o \notin Throwing
  /\ OutGoes(o, "send", "release")
  /\ sent' = [sent EXCEPT ![o] = Append(@, media[outPtr[o]])]
  /\ UNCHANGED <<outState, outQuit, outQueue, outFrame, outPtr, kept>>

\* catch(...): the loop goes on without libvmi_frame_release.
OutThrow(o) ==
  /\ o \in Throwing
  /\ OutGoes(o, "send", "loop")
  /\ kept' = [kept EXCEPT ![o] = @ \cup {outFrame[o]}]
  /\ UNCHANGED <<outState, outQuit, outQueue, outFrame, outPtr, sent>>

OutRelease(o) ==
  /\ OutGoes(o, "release", "loop")
  /\ FrameRelease(outFrame[o])
  /\ UNCHANGED <<outState, outQuit, outQueue, outFrame, outPtr, sent, kept>>

\* Variant: the thread throws the entries left in its queue away.
OutEndClears(o) ==
  /\ OutGoes(o, "end", "ended")
  /\ outState' = [outState EXCEPT ![o] = STOPPED]
  /\ outQueue' = [outQueue EXCEPT ![o] = << >>]
  /\ UNCHANGED <<outQuit, outFrame, outPtr, sent, kept>>

OutEnd(o) ==
  /\ OutGoes(o, "end", "ended")
  /\ outState' = [outState EXCEPT ![o] = STOPPED]
  /\ UNCHANGED <<outQuit, outQueue, outFrame, outPtr, sent, kept>>

OutputRuns(o) ==
  \/ /\ OutTestQuit(o) \/ OutPop(o) \/ OutSend(o) \/ OutThrow(o) \/ OutEnd(o)
     /\ UNCHANGED poolVars
  \/ OutRelease(o)

(***************************************************************************)
(* The caller: start() and stop(), in the steps other threads can see.     *)
(***************************************************************************)
\* start() up to the new thread; std::thread::operator= needs a thread that is
\* not joinable.
OutSpawn(o) ==
  /\ outState[o] = STOPPED
  /\ OutGoes(o, "none", "loop")
  /\ outQuit' = [outQuit EXCEPT ![o] = FALSE]
  /\ UNCHANGED <<outState, outQueue, outFrame, outPtr, sent, kept>>

\* ... otherwise the assignment calls std::terminate.
OutSpawnTerminates(o) ==
  /\ outState[o] = STOPPED
  /\ outThread[o] # "none"

\* The last line of start(), after the thread has begun to run.
OutMarkStarted(o) ==
  /\ outState' = [outState EXCEPT ![o] = STARTED]
  /\ UNCHANGED <<outQuit, outThread, outQueue, outFrame, outPtr, sent, kept>>

OutRaiseQuit(o) ==
  /\ outState[o] = STARTED
  /\ outQuit' = [outQuit EXCEPT ![o] = TRUE]
  /\ UNCHANGED <<outState, outThread, outQueue, outFrame, outPtr, sent, kept>>

\* Variant: stop() queues no marker.
OutPushNoMarker(o) == UNCHANGED outVars

OutPushMarker(o) ==
  /\ Push(o, StopEntry)
  /\ UNCHANGED <<outState, outQuit, outThread, outFrame, outPtr, sent, kept>>

\* Variants: stop() does not wait for the thread; stop() does not join it.
OutJoinNoWait(o) ==
  /\ outState' = [outState EXCEPT ![o] = STOPPED]
  /\ UNCHANGED <<outQuit, outThread, outQueue, outFrame, outPtr, sent, kept>>
OutJoinForgotten(o) ==
  /\ outThread[o] = "none" \/ outThread[o] = "ended"
  /\ outState' = [outState EXCEPT ![o] = STOPPED]
  /\ UNCHANGED <<outQuit, outThread, outQueue, outFrame, outPtr, sent, kept>>

OutJoin(o) ==
  /\ outThread[o] = "none" \/ outThread[o] = "ended"
  /\ outThread' = [outThread EXCEPT ![o] = "none"]
  /\ outState' = [outState EXCEPT ![o] = STOPPED]
  /\ UNCHANGED <<outQuit, outQueue, outFrame, outPtr, sent, kept>>

=============================================================================
