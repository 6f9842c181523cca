-------------------------------- MODULE InputPin --------------------------------
(***************************************************************************)
(* CvMIInput (ip2vf/libvMI/vMI_input.cpp): one thread that takes a frame   *)
(* of the pool, reads the next media frame into it and gives the reference *)
(* to the callback of the client.  With no frame left in the pool it reads *)
(* into a frame of its own and drops it.  The pin (m_input) blocks in read *)
(* until a frame or an error arrives, or until stop() closes it.           *)
(***************************************************************************)
EXTENDS FrameMedia

CONSTANTS
  Inputs,               \* the input pins, 1 .. n in the order of m_InputStreams
  MaxReads              \* bound of the model: frames and errors the network delivers

ASSUME InputsAssumption ==
  IsFiniteSet(Inputs) /\ Inputs = 1 .. Cardinality(Inputs) /\ MaxReads \in Nat

VARIABLES
  inState,              \* m_state
  inQuit,               \* m_quit_process
  inThread,             \* where the thread of m_th_process is
  inFrame,              \* hFrame
  inPtr,                \* frame, the object of hFrame
  inOk,                 \* result == VMI_E_OK
  inOpen,               \* m_input has been started and not stopped
  reads                 \* frames and errors delivered so far, over all pins

inVars == <<inState, inQuit, inThread, inFrame, inPtr, inOk, inOpen, reads>>

\* "send" and "push" are places inside the callback of the client.
InThreads == {"none", "loop", "full", "read", "drain", "check", "tick", "send",
              "push", "end", "ended"}

InTypeOK ==
  /\ inState \in [Inputs -> States]
  /\ inQuit \in [Inputs -> BOOLEAN]
  /\ inThread \in [Inputs -> InThreads]
  /\ inFrame \in [Inputs -> Int]
  /\ inPtr \in [Inputs -> 0 .. MaxFrames]
  /\ inOk \in [Inputs -> BOOLEAN]
  /\ inOpen \in [Inputs -> BOOLEAN]
  /\ reads \in 0 .. MaxReads

\* After _init.
InInit ==
  /\ inState = [i \in Inputs |-> STOPPED]
  /\ inQuit = [i \in Inputs |-> FALSE]
  /\ inThread = [i \in Inputs |-> "none"]
  /\ inFrame = [i \in Inputs |-> INVALID]
  /\ inPtr = [i \in Inputs |-> 0]
  /\ inOk = [i \in Inputs |-> FALSE]
  /\ inOpen = [i \in Inputs |-> FALSE]
  /\ reads = 0

InGoes(i, from, to) ==
  /\ inThread[i] = from
  /\ inThread' = [inThread EXCEPT ![i] = to]

(***************************************************************************)
(* The thread: _process().                                                 *)
(***************************************************************************)
\* The loop test and libvmi_frame_create; the object is looked up while this
\* thread has the only reference.
InCreate(i) ==
  /\ ~inQuit[i]
  /\ \E h \in {nextHandle, INVALID} :
       /\ FrameCreate(h)
       /\ InGoes(i, "loop", IF h = INVALID THEN "full" ELSE "read")
       /\ inFrame' = [inFrame EXCEPT ![i] = h]
       /\ inPtr' = [inPtr EXCEPT ![i] = IF h = INVALID THEN 0 ELSE FrameGet(h)']
  /\ UNCHANGED <<media, inState, inQuit, inOk, inOpen, reads>>

InLeave(i) ==
  /\ inQuit[i]
  /\ InGoes(i, "loop", "end")
  /\ UNCHANGED <<poolVars, media, inState, inQuit, inFrame, inPtr, inOk, inOpen, reads>>

\* No frame left in the pool.
InFull(i) ==
  /\ InGoes(i, "full", IF inQuit[i] THEN "end" ELSE "drain")
  /\ UNCHANGED <<poolVars, media, inState, inQuit, inFrame, inPtr, inOk, inOpen, reads>>

\* m_input->read returns: a frame, an error, or the end of a stopped pin.
Delivered == reads < MaxReads /\ reads' = reads + 1

InReadFrame(i) ==
  /\ inOpen[i] /\ Delivered
  /\ InGoes(i, "read", "check")
  /\ Fill(inPtr[i], reads + 1)
  /\ inOk' = [inOk EXCEPT ![i] = TRUE]
  /\ UNCHANGED <<poolVars, inState, inQuit, inFrame, inPtr, inOpen>>

InReadError(i) ==
  /\ \/ inOpen[i] /\ Delivered
     \/ ~inOpen[i] /\ UNCHANGED reads
  /\ InGoes(i, "read", "check")
  /\ inOk' = [inOk EXCEPT ![i] = FALSE]
  /\ UNCHANGED <<poolVars, media, inState, inQuit, inFrame, inPtr, inOpen>>

\* The frame read into tmpFrame is dropped.
InDrain(i) ==
  /\ \/ inOpen[i] /\ Delivered
     \/ ~inOpen[i] /\ UNCHANGED reads
  /\ InGoes(i, "drain", "loop")
  /\ UNCHANGED <<poolVars, media, inState, inQuit, inFrame, inPtr, inOk, inOpen>>

\* A frame read while stop() ran, or not read at all, goes back to the pool.
InReject(i) ==
  /\ inQuit[i] \/ ~inOk[i]
  /\ InGoes(i, "check", IF inQuit[i] THEN "end" ELSE "loop")
  /\ FrameRelease(inFrame[i])
  /\ UNCHANGED <<media, inState, inQuit, inFrame, inPtr, inOk, inOpen, reads>>

\* callbackFunction(CMD_TICK): the callback owns the reference from here on.
InTick(i) ==
  /\ ~inQuit[i] /\ inOk[i]
  /\ InGoes(i, "check", "tick")
  /\ UNCHANGED <<poolVars, media, inState, inQuit, inFrame, inPtr, inOk, inOpen, reads>>

InEnd(i) ==
  /\ InGoes(i, "end", "ended")
  /\ inState' = [inState EXCEPT ![i] = STOPPED]
  /\ UNCHANGED <<poolVars, media, inQuit, inFrame, inPtr, inOk, inOpen, reads>>

\* The steps the thread takes by itself, and those that wait for the network.
InputRuns(i) == InCreate(i) \/ InLeave(i) \/ InFull(i) \/ InReject(i) \/ InTick(i) \/ InEnd(i)
InputReads(i) == InReadFrame(i) \/ InReadError(i) \/ InDrain(i)

(***************************************************************************)
(* The caller: start() and stop().                                         *)
(***************************************************************************)
\* The thread cannot end before m_quit_process is raised again, so the last
\* line of start(), m_state = STATE_STARTED, needs no step of its own.
InStart(i) ==
  /\ inState[i] = STOPPED
  /\ InGoes(i, "none", "loop")
  /\ inOpen' = [inOpen EXCEPT ![i] = TRUE]
  /\ inQuit' = [inQuit EXCEPT ![i] = FALSE]
  /\ inState' = [inState EXCEPT ![i] = STARTED]
  /\ UNCHANGED <<inFrame, inPtr, inOk, reads>>

InRaiseQuit(i) ==
  /\ inState[i] = STARTED
  /\ inState' = [inState EXCEPT ![i] = STOPPED]
  /\ inQuit' = [inQuit EXCEPT ![i] = TRUE]
  /\ UNCHANGED <<inThread, inFrame, inPtr, inOk, inOpen, reads>>

\* m_input->stop()
InClosePin(i) ==
  /\ inOpen' = [inOpen EXCEPT ![i] = FALSE]
  /\ UNCHANGED <<inState, inQuit, inThread, inFrame, inPtr, inOk, reads>>

InJoin(i) ==
  /\ InGoes(i, "ended", "none")
  /\ UNCHANGED <<inState, inQuit, inFrame, inPtr, inOk, inOpen, reads>>

=============================================================================
