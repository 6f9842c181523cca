------------------------------- MODULE VmiModule -------------------------------
(***************************************************************************)
(* One module of libvMI at work: the frame pool, the input threads with    *)
(* the callback of the client, the output threads, and the thread of the   *)
(* application that starts, stops, starts again and closes the module      *)
(* (CvMIModuleController in vMI_module.cpp, called by libvMI_start_module, *)
(* libvMI_stop_module and libvMI_close).  The callback is the one of       *)
(* libvMI/sample/sample.cpp, which the modules under vMIModules repeat: a  *)
(* video frame is sent to every output, any frame is then released.        *)
(***************************************************************************)
EXTENDS InputPin, OutputPin

CONSTANTS
  MaxStarts             \* bound of the model: calls of libvMI_start_module

ASSUME StartsAssumption == MaxStarts \in Nat

VARIABLES
  modState,             \* CvMIModuleController::m_state
  appAt,                \* where the application thread is
  appPin,               \* the pin its loop over m_InputStreams or m_OutputStreams is at
  closing,              \* libvMI_close has been called
  starts,               \* number of calls of libvMI_start_module
  cbOut,                \* per input: the output the loop of the callback is at
  accepted              \* per output: the frames libvMI_send has queued so far

appVars == <<modState, appAt, appPin, closing, starts>>
vars == <<poolVars, media, inVars, outVars, appVars, cbOut, accepted>>

AppPlaces == {"idle", "startIn", "startOut", "markOut", "stopIn", "closePin", "joinIn",
              "stopOut", "pushStop", "joinOut", "delete", "closed", "terminated"}

TypeOK ==
  /\ PoolTypeOK /\ MediaTypeOK /\ InTypeOK /\ OutTypeOK
  /\ modState \in States
  /\ appAt \in AppPlaces
  /\ appPin \in Nat
  /\ closing \in BOOLEAN
  /\ starts \in 0 .. MaxStarts
  /\ cbOut \in [Inputs -> Nat]
  /\ accepted \in [Outputs -> Seq(Nat)]

\* After libvMI_create_module: every pin has had its _init.
Init ==
  /\ PoolInit /\ MediaInit /\ InInit /\ OutInit
  /\ modState = STOPPED
  /\ appAt = "idle"
  /\ appPin = 1
  /\ closing = FALSE
  /\ starts = 0
  /\ cbOut = [i \in Inputs |-> 1]
  /\ accepted = [o \in Outputs |-> << >>]

(***************************************************************************)
(* The callback, in the thread of an input, and libvMI_send.               *)
(***************************************************************************)
\* A video frame goes to the outputs, any other one is only released.
CbVideo(i) ==
  /\ InGoes(i, "tick", "send")
  /\ cbOut' = [cbOut EXCEPT ![i] = 1]
  /\ UNCHANGED <<poolVars, inState, inQuit, inFrame, inPtr, inOk, inOpen, reads, accepted>>

CbOther(i) ==
  /\ InGoes(i, "tick", "loop")
  /\ FrameRelease(inFrame[i])
  /\ UNCHANGED <<inState, inQuit, inFrame, inPtr, inOk, inOpen, reads, cbOut, accepted>>

\* libvMI_send: the frame must be known; CvMIOutput::send takes a reference ...
CbSend(i) ==
  /\ cbOut[i] \in Outputs
  /\ FrameGet(inFrame[i]) # 0
  /\ InGoes(i, "send", "push")
  /\ FrameAddRef(inFrame[i])
  /\ UNCHANGED <<inState, inQuit, inFrame, inPtr, inOk, inOpen, reads, cbOut, accepted>>

\* ... and queues the handle.
CbPush(i) ==
  /\ InGoes(i, "push", "send")
  /\ Push(cbOut[i], FrameEntry(inFrame[i]))
  /\ accepted' = [accepted EXCEPT ![cbOut[i]] = Append(@, media[inPtr[i]])]
  /\ cbOut' = [cbOut EXCEPT ![i] = @ + 1]
  /\ UNCHANGED <<poolVars, inState, inQuit, inFrame, inPtr, inOk, inOpen, reads>>
  /\ UNCHANGED <<outState, outQuit, outThread, outFrame, outPtr, sent, kept>>

\* After the last output the callback releases its own reference.
\* Variant: the callback releases twice.
CbReleaseTwice(i) ==
  /\ cbOut[i] \notin Outputs
  /\ InGoes(i, "send", "loop")
  /\ items' = IF Find(inFrame[i]) = {} THEN items
              ELSE [items EXCEPT ![FirstOf(Find(inFrame[i]))] = Released(Released(@))]
  /\ UNCHANGED <<nextHandle, maxFrames>>
  /\ UNCHANGED <<inState, inQuit, inFrame, inPtr, inOk, inOpen, reads, cbOut, accepted>>

CbRelease(i) ==
  /\ cbOut[i] \notin Outputs
  /\ InGoes(i, "send", "loop")
  /\ FrameRelease(inFrame[i])
  /\ UNCHANGED <<inState, inQuit, inFrame, inPtr, inOk, inOpen, reads, cbOut, accepted>>

Callback(i) ==
  /\ UNCHANGED <<media, appVars>>
  /\ \/ (CbVideo(i) \/ CbOther(i) \/ CbSend(i) \/ CbRelease(i)) /\ UNCHANGED outVars
     \/ CbPush(i)

(***************************************************************************)
(* The application thread in CvMIModuleController.                         *)
(***************************************************************************)
AppGoes(from, to) == appAt = from /\ appAt' = to

\* The loops go over the pins in order; a pin in another state is passed over.
Here(S) == appPin \in S
NextPin == appPin' = appPin + 1

AppKeeps == UNCHANGED <<modState, closing, starts>>

\* start()
AppStart ==
  /\ modState = STOPPED
  /\ starts < MaxStarts
  /\ AppGoes("idle", "startIn")
  /\ appPin' = 1
  /\ starts' = starts + 1
  /\ UNCHANGED <<modState, closing, inVars, outVars>>

AppStartIn ==
  /\ Here(Inputs)
  /\ AppGoes("startIn", "startIn")
  /\ \/ InStart(appPin)
     \/ inState[appPin] # STOPPED /\ UNCHANGED inVars
  /\ NextPin /\ AppKeeps
  /\ UNCHANGED outVars

AppInsStarted ==
  /\ ~Here(Inputs)
  /\ AppGoes("startIn", "startOut")
  /\ appPin' = 1 /\ AppKeeps
  /\ UNCHANGED <<inVars, outVars>>

AppStartOut ==
  /\ Here(Outputs)
  /\ AppKeeps
  /\ \/ OutSpawn(appPin) /\ AppGoes("startOut", "markOut") /\ UNCHANGED appPin
     \/ /\ OutSpawnTerminates(appPin)
        /\ AppGoes("startOut", "terminated")
        /\ UNCHANGED <<appPin, outVars>>
     \/ outState[appPin] # STOPPED /\ AppGoes("startOut", "startOut") /\ NextPin /\ UNCHANGED outVars
  /\ UNCHANGED inVars

AppMarkOut ==
  /\ AppGoes("markOut", "startOut")
  /\ OutMarkStarted(appPin)
  /\ NextPin /\ AppKeeps
  /\ UNCHANGED inVars

AppStarted ==
  /\ ~Here(Outputs)
  /\ AppGoes("startOut", "idle")
  /\ modState' = STARTED
  /\ UNCHANGED <<appPin, closing, starts, inVars, outVars>>

\* stop(), called by the client or by close()
AppStop ==
  /\ modState = STARTED
  /\ AppGoes("idle", "stopIn")
  /\ appPin' = 1
  /\ closing' \in BOOLEAN
  /\ UNCHANGED <<modState, starts, inVars, outVars>>

AppStopIn ==
  /\ Here(Inputs)
  /\ AppKeeps
  /\ \/ InRaiseQuit(appPin) /\ AppGoes("stopIn", "closePin") /\ UNCHANGED appPin
     \/ inState[appPin] # STARTED /\ AppGoes("stopIn", "stopIn") /\ NextPin /\ UNCHANGED inVars
  /\ UNCHANGED outVars

AppClosePin ==
  /\ AppGoes("closePin", "joinIn")
  /\ InClosePin(appPin)
  /\ UNCHANGED appPin /\ AppKeeps
  /\ UNCHANGED outVars

AppJoinIn ==
  /\ AppGoes("joinIn", "stopIn")
  /\ InJoin(appPin)
  /\ NextPin /\ AppKeeps
  /\ UNCHANGED outVars

AppInsStopped ==
  /\ ~Here(Inputs)
  /\ AppGoes("stopIn", "stopOut")
  /\ appPin' = 1 /\ AppKeeps
  /\ UNCHANGED <<inVars, outVars>>

AppStopOut ==
  /\ Here(Outputs)
  /\ AppKeeps
  /\ \/ OutRaiseQuit(appPin) /\ AppGoes("stopOut", "pushStop") /\ UNCHANGED appPin
     \/ outState[appPin] # STARTED /\ AppGoes("stopOut", "stopOut") /\ NextPin /\ UNCHANGED outVars
  /\ UNCHANGED inVars

AppPushStop ==
  /\ AppGoes("pushStop", "joinOut")
  /\ OutPushMarker(appPin)
  /\ UNCHANGED appPin /\ AppKeeps
  /\ UNCHANGED inVars

AppJoinOut ==
  /\ AppGoes("joinOut", "stopOut")
  /\ OutJoin(appPin)
  /\ NextPin /\ AppKeeps
  /\ UNCHANGED inVars

AppStopped ==
  /\ ~Here(Outputs)
  /\ AppGoes("stopOut", IF closing THEN "delete" ELSE "idle")
  /\ modState' = STOPPED
  /\ UNCHANGED <<appPin, closing, starts, inVars, outVars>>

\* close() on a stopped module
AppClose ==
  /\ modState = STOPPED
  /\ AppGoes("idle", "delete")
  /\ closing' = TRUE
  /\ UNCHANGED <<modState, appPin, starts, inVars, outVars>>

\* The pins are deleted, the queues with them; deleting a std::thread that is
\* still joinable calls std::terminate.
Joinable == \/ \E i \in Inputs : inThread[i] # "none"
            \/ \E o \in Outputs : outThread[o] # "none"

AppDelete ==
  /\ AppGoes("delete", IF Joinable THEN "terminated" ELSE "closed")
  /\ outQueue' = [o \in Outputs |-> << >>]
  /\ UNCHANGED <<appPin, modState, closing, starts, inVars>>
  /\ UNCHANGED <<outState, outQuit, outThread, outFrame, outPtr, sent, kept>>

AppStep ==
  \/ AppStartIn \/ AppInsStarted \/ AppStartOut \/ AppMarkOut \/ AppStarted
  \/ AppStopIn \/ AppClosePin \/ AppJoinIn \/ AppInsStopped
  \/ AppStopOut \/ AppPushStop \/ AppJoinOut \/ AppStopped \/ AppDelete

\* What the client decides, and what then runs by itself.
AppCall == AppStart \/ AppStop \/ AppClose
AppThread == AppStep /\ UNCHANGED <<poolVars, media, cbOut, accepted>>

\* The process is over.
Over == appAt \in {"closed", "terminated"}
Rest == Over /\ UNCHANGED vars

InStep(i) ==
  \/ (InputRuns(i) \/ InputReads(i)) /\ UNCHANGED <<outVars, appVars, cbOut, accepted>>
  \/ Callback(i)

OutStep(o) == OutputRuns(o) /\ UNCHANGED <<media, inVars, appVars, cbOut, accepted>>

Next ==
  \/ Rest
  \/ /\ appAt # "terminated"
     /\ \/ AppCall /\ UNCHANGED <<poolVars, media, cbOut, accepted>>
        \/ AppThread
        \/ \E i \in Inputs : InStep(i)
        \/ \E o \in Outputs : OutStep(o)

Spec == Init /\ [][Next]_vars

\* Every thread runs on, and a read of a stopped pin returns.  The network owes
\* nothing to a pin that is open, and the client need not call anything.
Fairness ==
  /\ WF_vars(AppThread)
  /\ \A i \in Inputs :
       /\ WF_vars(InputRuns(i) /\ UNCHANGED <<outVars, appVars, cbOut, accepted>>)
       /\ WF_vars(~inOpen[i] /\ InputReads(i) /\ UNCHANGED <<outVars, appVars, cbOut, accepted>>)
       /\ WF_vars(Callback(i))
  /\ \A o \in Outputs : WF_vars(OutStep(o))

FairSpec == Spec /\ Fairness

------------------------------------------------------------------------------

\* The references there are to a handle: the input thread and its callback, the
\* one libvMI_send has taken and not yet queued, the entries of the queues, and
\* the output threads.
InputRefs(h) == {i \in Inputs : inFrame[i] = h /\
                   inThread[i] \in {"read", "check", "tick", "send", "push"}}
SendRefs(h) == {i \in Inputs : inFrame[i] = h /\ inThread[i] = "push"}
QueueRefs(h) == UNION {{<<o, n>> : n \in {m \in DOMAIN outQueue[o] :
                          outQueue[o][m] = FrameEntry(h)}} : o \in Outputs}
OutputRefs(h) == {o \in Outputs : outFrame[o] = h /\ outThread[o] \in {"send", "release"}}

References(h) == Cardinality(InputRefs(h)) + Cardinality(SendRefs(h))
                 + Cardinality(QueueRefs(h)) + Cardinality(OutputRefs(h))

Handles == {items[k].handle : k \in DOMAIN items} \ {INVALID}

\* A frame never has fewer counted references than places that use it, so none
\* is recycled under an input, a queue or an output (libvmi_frame_addref in
\* CvMIOutput::send against the releases of the callback and of the outputs).
NoEarlyRelease ==
  /\ \A h \in 0 .. nextHandle - 1 : References(h) > 0 => h \in Handles
  /\ \A k \in DOMAIN items : ~items[k].free => items[k].ref >= References(items[k].handle)

\* While the module exists no reference is lost either, through stops and new
\* starts: the frames left in a queue are still counted there.  Only an output
\* that throws keeps the reference of the frame it threw on.
NoLeak ==
  ~Over =>
    \A k \in DOMAIN items : ~items[k].free =>
      items[k].ref <= References(items[k].handle) + Cardinality({o \in Outputs : items[k].handle \in kept[o]})

\* Every output sends what libvMI_send was given, in that order, unchanged and
\* with no frame missing in between.
SendsInOrder ==
  \A o \in Outputs : /\ Len(sent[o]) <= Len(accepted[o])
                     /\ sent[o] = SubSeq(accepted[o], 1, Len(sent[o]))

\* After libvMI_stop_module has returned no thread of the module runs, and the
\* client gets no more frames (CMD_STOP, sample.cpp).
QuietWhenStopped ==
  modState = STOPPED /\ appAt \in {"idle", "delete", "closed"} =>
    /\ \A i \in Inputs : inThread[i] \in {"none", "ended"}
    /\ \A o \in Outputs : outThread[o] \in {"none", "ended"}

\* In the life of a module that is started once the threads are joined before
\* their objects are deleted: std::terminate is not reached.
NeverTerminates == starts <= 1 => appAt # "terminated"

\* While a module that is started once is started, the thread of each of its
\* outputs is there.  A second start may find the marker of the stop before in the
\* queue of an output, whose new thread then ends (vMI_output.cpp:186).
OutputsServe ==
  starts <= 1 /\ modState = STARTED /\ appAt = "idle" =>
    \A o \in Outputs : outThread[o] \notin {"end", "ended"}

\* Start, stop and close return: no thread waits for another that waits for it
\* (joins under the marker and the closed pin).
CallsReturn ==
  appAt \notin {"idle", "closed", "terminated"} ~> appAt \in {"idle", "closed", "terminated"}

\* An output that is behind catches up: every frame queued by libvMI_send is sent,
\* unless the output is told to stop or was started again.
FramesAreSent ==
  \A o \in Outputs \ Throwing :
    Len(sent[o]) < Len(accepted[o]) ~> Len(sent[o]) = Len(accepted[o]) \/ outQuit[o] \/ starts > 1

=============================================================================
