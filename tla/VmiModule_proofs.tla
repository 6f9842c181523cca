--------------------------- MODULE VmiModule_proofs ---------------------------
(***************************************************************************)
(* For any number of inputs and outputs, any pool and any number of starts:*)
(* what start, stop and close of a module leave of its threads.  No frame  *)
(* is recycled while it is used or lost when it is not, and every output   *)
(* sends what it was given in the order it was given.                      *)
(***************************************************************************)
EXTENDS VmiModule, TLAPS, FiniteSetTheorems, SequenceTheorems, FunctionTheorems,
        WellFoundedInduction

(***************************************************************************)
(* Where the application thread is says what it has done to each pin.      *)
(***************************************************************************)
\* The inputs that start() has started and stop() has not yet stopped, and the
\* one that stop() is about to join.
InUp(i) ==
  \/ appAt = "startIn" /\ i < appPin
  \/ appAt \in {"startOut", "markOut"}
  \/ appAt = "idle" /\ modState = STARTED
  \/ appAt = "stopIn" /\ i >= appPin
  \/ appAt \in {"closePin", "joinIn"} /\ i > appPin
InHalted(i) == appAt \in {"closePin", "joinIn"} /\ i = appPin

InRuns(i) == inState[i] = STARTED /\ ~inQuit[i] /\ inThread[i] \notin {"none", "end", "ended"}
InEnds(i) == inState[i] = STOPPED /\ inQuit[i] /\ inThread[i] # "none"
InIsStopped(i) == inState[i] = STOPPED /\ inThread[i] = "none"

InputsFollow ==
  \A i \in Inputs : /\ InUp(i) => InRuns(i)
                    /\ InHalted(i) => InEnds(i)
                    /\ ~InUp(i) /\ ~InHalted(i) => InIsStopped(i)

\* The same for the outputs; the thread of one may have ended by itself, on the
\* marker of an earlier stop.
OutUp(o) ==
  \/ appAt \in {"startOut", "markOut"} /\ o < appPin
  \/ appAt = "idle" /\ modState = STARTED
  \/ appAt \in {"stopIn", "closePin", "joinIn"}
  \/ appAt = "stopOut" /\ o >= appPin
  \/ appAt \in {"pushStop", "joinOut"} /\ o > appPin
OutTurns(o) == appAt \in {"markOut", "pushStop", "joinOut"} /\ o = appPin

OutIsStarted(o) == outThread[o] # "none" /\ (outState[o] = STARTED \/ outThread[o] = "ended")
OutIsStopped(o) == outState[o] = STOPPED /\ outThread[o] \in {"none", "ended"}

OutputsFollow ==
  \A o \in Outputs : /\ OutUp(o) => OutIsStarted(o)
                     /\ OutTurns(o) => outThread[o] # "none"
                     /\ ~OutUp(o) /\ ~OutTurns(o) => OutIsStopped(o)

AppFollows ==
  /\ appPin >= 1
  /\ appAt \in {"closePin", "joinIn"} => appPin \in Inputs
  /\ appAt \in {"markOut", "pushStop", "joinOut"} => appPin \in Outputs
  /\ appAt \in {"startIn", "startOut", "markOut", "delete", "closed"} => modState = STOPPED
  /\ appAt \in {"stopIn", "closePin", "joinIn", "stopOut", "pushStop", "joinOut"} => modState = STARTED
  /\ starts = 0 => modState = STOPPED /\ appAt \in {"idle", "delete", "closed"}

\* In the first life of the module: an output that was started serves, and its
\* queue has no marker before stop() puts it there.
Serves(o) == ~outQuit[o] /\ outThread[o] \in {"loop", "pop", "send", "release"}
NoMarker(o) == \A n \in DOMAIN outQueue[o] : outQueue[o][n] # StopEntry

FirstLife ==
  starts <= 1 =>
    /\ appAt # "terminated"
    /\ \A o \in Outputs :
         /\ OutUp(o) => outState[o] = STARTED /\ Serves(o) /\ NoMarker(o)
         /\ OutTurns(o) /\ appAt = "markOut" => Serves(o)
         /\ ~OutUp(o) /\ ~OutTurns(o) => outThread[o] = "none"
         /\ (appAt = "idle" /\ starts = 0) \/ appAt \in {"startIn", "startOut", "markOut"} => NoMarker(o)

\* The places of an input thread where it has a frame of the pool.
HoldsFrame(i) == inThread[i] \in {"read", "check", "tick", "send", "push"}

ThreadTypes ==
  /\ modState \in States /\ appPin \in Nat /\ starts \in Nat /\ appAt \in AppPlaces
  /\ inState \in [Inputs -> States] /\ inQuit \in [Inputs -> BOOLEAN]
  /\ inThread \in [Inputs -> InThreads] /\ inFrame \in [Inputs -> Int] /\ inOpen \in [Inputs -> BOOLEAN]
  /\ outState \in [Outputs -> States] /\ outQuit \in [Outputs -> BOOLEAN]
  /\ outThread \in [Outputs -> OutThreads] /\ outFrame \in [Outputs -> Int]
  /\ cbOut \in [Inputs -> Nat]
  /\ nextHandle \in Nat

\* What the queues can hold.
Entries == {StopEntry} \cup {FrameEntry(h) : h \in Nat}
QueueTypes ==
  /\ outQueue \in [Outputs -> Seq(Entries)]
  /\ \A i \in Inputs : HoldsFrame(i) => inFrame[i] \in Nat

Follow == InputsFollow /\ OutputsFollow /\ AppFollows

ControlInv == ThreadTypes /\ QueueTypes /\ (appAt # "terminated" => Follow) /\ FirstLife

LEMMA Pins ==
  \E n, m \in Nat : Inputs = 1 .. n /\ Outputs = 1 .. m
BY InputsAssumption, OutputsAssumption, FS_CardinalityType

LEMMA ControlInit == Init => ControlInv
<1> SUFFICES ASSUME Init PROVE ControlInv
  OBVIOUS
<1> USE DEF Init, PoolInit, MediaInit, InInit, OutInit, STOPPED, STARTED, INVALID
<1>1. ThreadTypes
  BY DEF ThreadTypes, States, AppPlaces, InThreads, OutThreads
<1>2. QueueTypes
  BY DEF QueueTypes, HoldsFrame
<1>3. Follow
  BY DEF Follow, InputsFollow, OutputsFollow, AppFollows, InUp, InHalted, InIsStopped, OutUp, OutTurns, OutIsStopped
<1>4. FirstLife
  BY DEF FirstLife, OutUp, OutTurns, NoMarker
<1> QED
  BY <1>1, <1>2, <1>3, <1>4 DEF ControlInv

(***************************************************************************)
(* What a step of a thread of the module can change.                       *)
(***************************************************************************)
\* The thread of an input: it leaves its loop only when it is told to.
LEMMA InStepMoves ==
  ASSUME ControlInv, appAt # "terminated", NEW i \in Inputs, InStep(i)
  PROVE  /\ UNCHANGED <<appVars, inQuit, inOpen, outState, outQuit, outThread, outFrame>>
         /\ \E t \in InThreads \ {"none"} :
              /\ inThread' = [inThread EXCEPT ![i] = t]
              /\ t \in {"end", "ended"} => inQuit[i]
         /\ inThread[i] \notin {"none", "ended"}
         /\ \/ inState' = inState
            \/ inThread[i] = "end" /\ inState' = [inState EXCEPT ![i] = STOPPED]
         /\ \/ outQueue' = outQueue
            \/ \E o \in Outputs : Push(o, FrameEntry(inFrame[i])) /\ HoldsFrame(i)
         /\ \/ UNCHANGED inFrame
            \/ \E h \in {nextHandle, INVALID} :
                 /\ inFrame' = [inFrame EXCEPT ![i] = h]
                 /\ inThread' = [inThread EXCEPT ![i] = IF h = INVALID THEN "full" ELSE "read"]
         /\ \A j \in Inputs : HoldsFrame(j)' => inFrame'[j] \in Nat
         /\ nextHandle' \in Nat /\ cbOut' \in [Inputs -> Nat]
<1> USE DEF ControlInv
<1>1. inThread \in [Inputs -> InThreads] /\ inState \in [Inputs -> States] /\ nextHandle \in Nat
      /\ cbOut \in [Inputs -> Nat] /\ inFrame \in [Inputs -> Int]
      /\ \A j \in Inputs : HoldsFrame(j) => inFrame[j] \in Nat
  BY DEF ThreadTypes, QueueTypes
<1>2. inThread[i] = "end" => inQuit[i]
  BY DEF Follow, InputsFollow, InRuns, InEnds, InIsStopped
<1>3. CASE InputRuns(i) /\ UNCHANGED <<outVars, appVars, cbOut, accepted>>
  <2>1. CASE InCreate(i)
    <3>1. PICK h \in {nextHandle, INVALID} :
            /\ FrameCreate(h) /\ InGoes(i, "loop", IF h = INVALID THEN "full" ELSE "read")
            /\ inFrame' = [inFrame EXCEPT ![i] = h]
      BY <2>1 DEF InCreate
    <3>2. nextHandle' \in Nat
      BY <1>1, <3>1 DEF FrameCreate, ReuseItem, AddItem
    <3>3. \A j \in Inputs : HoldsFrame(j)' => inFrame'[j] \in Nat
      BY <1>1, <3>1 DEF HoldsFrame, InGoes, INVALID
    <3> QED
      BY <1>1, <1>3, <2>1, <3>1, <3>2, <3>3 DEF InCreate, InGoes, InThreads, outVars
  <2>2. CASE InLeave(i) \/ InFull(i) \/ InTick(i) \/ InEnd(i)
    <3>1. UNCHANGED <<poolVars, inQuit, inFrame, inOpen>>
      BY <2>2 DEF InLeave, InFull, InTick, InEnd
    <3>2. \E t \in {"end", "drain", "tick", "ended"} :
            /\ inThread' = [inThread EXCEPT ![i] = t]
            /\ t \in {"end", "ended"} => inQuit[i]
            /\ t = "tick" => HoldsFrame(i)
      BY <1>2, <2>2 DEF InLeave, InFull, InTick, InEnd, InGoes, HoldsFrame
    <3>3. /\ inThread[i] \notin {"none", "ended"}
          /\ inState' = inState \/ (inThread[i] = "end" /\ inState' = [inState EXCEPT ![i] = STOPPED])
      BY <2>2 DEF InLeave, InFull, InTick, InEnd, InGoes
    <3>4. \A j \in Inputs : HoldsFrame(j)' => inFrame'[j] \in Nat
      BY <1>1, <3>1, <3>2 DEF HoldsFrame
    <3> QED
      BY <1>1, <1>3, <3>1, <3>2, <3>3, <3>4 DEF InThreads, outVars, poolVars
  <2>3. CASE InReject(i)
    <3>1. UNCHANGED <<nextHandle, inQuit, inFrame, inOpen, inState>>
      BY <2>3 DEF InReject, FrameRelease
    <3>2. \E t \in {"end", "loop"} : inThread' = [inThread EXCEPT ![i] = t] /\ (t = "end" => inQuit[i])
      BY <2>3 DEF InReject, InGoes
    <3>3. inThread[i] = "check"
      BY <2>3 DEF InReject, InGoes
    <3>4. \A j \in Inputs : HoldsFrame(j)' => inFrame'[j] \in Nat
      BY <1>1, <3>1, <3>2 DEF HoldsFrame
    <3> QED
      BY <1>1, <1>3, <3>1, <3>2, <3>3, <3>4 DEF InThreads, outVars
  <2> QED
    BY <1>3, <2>1, <2>2, <2>3 DEF InputRuns
<1>4. CASE InputReads(i) /\ UNCHANGED <<outVars, appVars, cbOut, accepted>>
  <2>1. UNCHANGED <<poolVars, inQuit, inFrame, inOpen, inState>>
    BY <1>4 DEF InputReads, InReadFrame, InReadError, InDrain
  <2>2. /\ inThread[i] \in {"read", "drain"}
        /\ \E t \in {"check", "loop"} : inThread' = [inThread EXCEPT ![i] = t] /\ (t = "check" => HoldsFrame(i))
    BY <1>4 DEF InputReads, InReadFrame, InReadError, InDrain, InGoes, HoldsFrame
  <2>3. \A j \in Inputs : HoldsFrame(j)' => inFrame'[j] \in Nat
    BY <1>1, <2>1, <2>2 DEF HoldsFrame
  <2> QED
    BY <1>1, <1>4, <2>1, <2>2, <2>3 DEF InThreads, outVars, poolVars
<1>5. CASE Callback(i)
  <2>1. UNCHANGED <<nextHandle, appVars, inQuit, inFrame, inOpen, inState, outState, outQuit, outThread, outFrame>>
    BY <1>5 DEF Callback, CbVideo, CbOther, CbSend, CbRelease, CbPush, FrameRelease, FrameAddRef, poolVars, outVars
  <2>2. /\ HoldsFrame(i) /\ inThread[i] \in {"tick", "send", "push"}
        /\ \E t \in {"send", "loop", "push"} : inThread' = [inThread EXCEPT ![i] = t]
    BY <1>5 DEF Callback, CbVideo, CbOther, CbSend, CbRelease, CbPush, InGoes, HoldsFrame
  <2>3. \A j \in Inputs : HoldsFrame(j)' => inFrame'[j] \in Nat
    BY <1>1, <2>1, <2>2 DEF HoldsFrame
  <2>4. cbOut' \in [Inputs -> Nat]
    BY <1>1, <1>5 DEF Callback, CbVideo, CbOther, CbSend, CbRelease, CbPush
  <2>5. CASE CbPush(i)
    <3>1. Push(cbOut[i], FrameEntry(inFrame[i]))
      BY <2>5 DEF CbPush
    <3>2. cbOut[i] \in Outputs \/ outQueue' = outQueue
      BY <3>1 DEF Push, ThreadTypes, QueueTypes
    <3> QED
      BY <1>1, <2>1, <2>2, <2>3, <2>4, <3>1, <3>2 DEF InThreads
  <2>6. CASE UNCHANGED outVars
    BY <1>1, <2>1, <2>2, <2>3, <2>4, <2>6 DEF InThreads, outVars
  <2> QED
    BY <1>5, <2>5, <2>6 DEF Callback
<1> QED
  BY <1>3, <1>4, <1>5 DEF InStep

\* The thread of an output: it ends only on a marker or when it is told to.
LEMMA OutStepMoves ==
  ASSUME ControlInv, NEW o \in Outputs, OutStep(o)
  PROVE  /\ UNCHANGED <<appVars, inState, inQuit, inThread, inFrame, inOpen, cbOut, outQuit, nextHandle>>
         /\ \E t \in OutThreads \ {"none"} :
              /\ outThread' = [outThread EXCEPT ![o] = t]
              /\ t = "ended" => outThread[o] = "end"
              /\ t = "end" => outQuit[o] \/ (outQueue[o] # << >> /\ Head(outQueue[o]) = StopEntry)
         /\ outThread[o] \notin {"none", "ended"}
         /\ \/ outState' = outState
            \/ /\ outThread[o] = "end" /\ outThread' = [outThread EXCEPT ![o] = "ended"]
               /\ outState' = [outState EXCEPT ![o] = STOPPED]
         /\ \/ outQueue' = outQueue
            \/ outQueue[o] # << >> /\ outQueue' = [outQueue EXCEPT ![o] = Tail(@)]
         /\ outFrame' \in [Outputs -> Int]
<1> USE DEF ControlInv
<1>1. /\ outThread \in [Outputs -> OutThreads] /\ outState \in [Outputs -> States]
      /\ outFrame \in [Outputs -> Int] /\ outQueue[o] \in Seq(Entries)
  BY DEF ThreadTypes, QueueTypes
<1>2. UNCHANGED <<appVars, inState, inQuit, inThread, inFrame, inOpen, cbOut>>
  BY DEF OutStep, inVars
<1>3. CASE OutTestQuit(o) \/ OutSend(o) \/ OutThrow(o) \/ OutEnd(o)
  <2>1. UNCHANGED <<outQuit, outQueue, outFrame, nextHandle>>
    BY <1>3 DEF OutStep, OutputRuns, OutTestQuit, OutPop, OutSend, OutThrow, OutEnd, OutRelease, FrameRelease, poolVars
  <2>2. /\ outThread[o] \notin {"none", "ended"}
        /\ \E t \in {"end", "pop", "release", "loop", "ended"} :
             /\ outThread' = [outThread EXCEPT ![o] = t]
             /\ t = "ended" => outThread[o] = "end"
             /\ t = "end" => outQuit[o]
    BY <1>3 DEF OutTestQuit, OutSend, OutThrow, OutEnd, OutGoes
  <2>3. \/ outState' = outState
        \/ /\ outThread[o] = "end" /\ outThread' = [outThread EXCEPT ![o] = "ended"]
           /\ outState' = [outState EXCEPT ![o] = STOPPED]
    BY <1>3 DEF OutTestQuit, OutSend, OutThrow, OutEnd, OutGoes
  <2> QED
    BY <1>1, <1>2, <2>1, <2>2, <2>3 DEF OutThreads
<1>4. CASE OutPop(o)
  <2> DEFINE entry == Head(outQueue[o])
  <2>1. /\ outQueue[o] # << >> /\ OutGoes(o, "pop", AfterPop(entry))
        /\ outFrame' = [outFrame EXCEPT ![o] = entry.frame]
        /\ outQueue' = [outQueue EXCEPT ![o] = Tail(@)]
        /\ UNCHANGED <<outState, outQuit>>
    BY <1>4 DEF OutPop
  <2>2. entry \in Entries
    BY <1>1, <2>1
  <2>3. entry.frame \in Int /\ (AfterPop(entry) = "end" => entry = StopEntry)
    <3>1. CASE entry = StopEntry
      BY <3>1 DEF StopEntry, INVALID
    <3>2. CASE \E h \in Nat : entry = FrameEntry(h)
      BY <3>2 DEF FrameEntry, INVALID, AfterPop
    <3> QED
      BY <2>2, <3>1, <3>2 DEF Entries
  <2>4. AfterPop(entry) \in {"end", "loop", "send"}
    BY DEF AfterPop
  <2>5. nextHandle' = nextHandle
    BY <1>4 DEF OutStep, OutputRuns, OutRelease, FrameRelease, poolVars
  <2> HIDE DEF entry
  <2>6. outFrame' \in [Outputs -> Int]
    BY <1>1, <2>1, <2>3
  <2>7. entry = Head(outQueue[o])
    BY DEF entry
  <2> QED
    BY <1>1, <1>2, <2>1, <2>3, <2>4, <2>5, <2>6, <2>7 DEF OutThreads, OutGoes
<1>5. CASE OutRelease(o)
  <2>1. /\ UNCHANGED <<outState, outQuit, outQueue, outFrame, nextHandle>>
        /\ outThread[o] = "release" /\ outThread' = [outThread EXCEPT ![o] = "loop"]
    BY <1>5 DEF OutRelease, FrameRelease, OutGoes
  <2>2. "loop" \in OutThreads \ {"none"}
    BY DEF OutThreads
  <2> QED
    BY <1>1, <1>2, <2>1, <2>2
<1> QED
  BY <1>3, <1>4, <1>5 DEF OutStep, OutputRuns

(***************************************************************************)
(* The threads keep the invariant.                                         *)
(***************************************************************************)
LEMMA PushTypes ==
  ASSUME ThreadTypes, QueueTypes, NEW o \in Outputs, NEW e \in Entries, Push(o, e)
  PROVE  /\ outQueue' \in [Outputs -> Seq(Entries)]
         /\ e # StopEntry => \A p \in Outputs : NoMarker(p) => NoMarker(p)'
         /\ \A p \in Outputs \ {o} : NoMarker(p)' <=> NoMarker(p)
<1>1. outQueue' = [outQueue EXCEPT ![o] = Append(@, e)] /\ outQueue \in [Outputs -> Seq(Entries)]
  BY DEF Push, QueueTypes
<1>2. ASSUME e # StopEntry, NEW p \in Outputs, NoMarker(p) PROVE NoMarker(p)'
  <2>1. CASE p = o
    BY <1>1, <1>2, <2>1 DEF NoMarker
  <2>2. CASE p # o
    BY <1>1, <1>2, <2>2 DEF NoMarker
  <2> QED
    BY <2>1, <2>2
<1> QED
  BY <1>1, <1>2 DEF NoMarker

LEMMA PopTypes ==
  ASSUME ThreadTypes, QueueTypes, NEW o \in Outputs, outQueue[o] # << >>,
         outQueue' = [outQueue EXCEPT ![o] = Tail(@)]
  PROVE  /\ outQueue' \in [Outputs -> Seq(Entries)]
         /\ \A p \in Outputs : NoMarker(p) => NoMarker(p)'
         /\ NoMarker(o) => Head(outQueue[o]) # StopEntry
<1>1. outQueue \in [Outputs -> Seq(Entries)]
  BY DEF QueueTypes
<1>2. ASSUME NEW p \in Outputs, NoMarker(p) PROVE NoMarker(p)'
  <2>1. CASE p = o
    BY <1>1, <1>2, <2>1 DEF NoMarker
  <2>2. CASE p # o
    BY <1>1, <1>2, <2>2 DEF NoMarker
  <2> QED
    BY <2>1, <2>2
<1> QED
  BY <1>1, <1>2 DEF NoMarker

LEMMA ControlKeptByInput ==
  ASSUME ControlInv, appAt # "terminated", NEW i \in Inputs, InStep(i)
  PROVE  ControlInv'
<1> USE DEF ControlInv
<1>1. PICK t \in InThreads \ {"none"} : inThread' = [inThread EXCEPT ![i] = t] /\ (t \in {"end", "ended"} => inQuit[i])
  BY InStepMoves
<1>2. /\ UNCHANGED <<appVars, inQuit, inOpen, outState, outQuit, outThread, outFrame>>
      /\ inThread[i] \notin {"none", "ended"}
      /\ \/ inState' = inState
         \/ inThread[i] = "end" /\ inState' = [inState EXCEPT ![i] = STOPPED]
      /\ nextHandle' \in Nat /\ cbOut' \in [Inputs -> Nat]
      /\ \A j \in Inputs : HoldsFrame(j)' => inFrame'[j] \in Nat
  BY InStepMoves
<1>3. /\ outQueue' \in [Outputs -> Seq(Entries)]
      /\ \A o \in Outputs : NoMarker(o) => NoMarker(o)'
  <2>1. CASE outQueue' = outQueue
    BY <2>1 DEF QueueTypes, NoMarker
  <2>2. ASSUME NEW o \in Outputs, Push(o, FrameEntry(inFrame[i])), HoldsFrame(i)
        PROVE  /\ outQueue' \in [Outputs -> Seq(Entries)]
               /\ \A p \in Outputs : NoMarker(p) => NoMarker(p)'
    <3>1. inFrame[i] \in Nat
      BY <2>2 DEF QueueTypes
    <3>2. FrameEntry(inFrame[i]) \in Entries /\ FrameEntry(inFrame[i]) # StopEntry
      BY <3>1 DEF Entries, FrameEntry, StopEntry
    <3> QED
      BY <2>2, <3>2, PushTypes
  <2> QED
    BY <2>1, <2>2, InStepMoves
<1>4. inFrame' \in [Inputs -> Int]
  <2>1. \/ UNCHANGED inFrame
        \/ \E h \in {nextHandle, INVALID} : inFrame' = [inFrame EXCEPT ![i] = h]
    BY InStepMoves
  <2> QED
    BY <2>1 DEF ThreadTypes, INVALID
<1>5. ThreadTypes'
  BY <1>1, <1>2, <1>4 DEF ThreadTypes, appVars, States
<1>6. QueueTypes'
  BY <1>2, <1>3 DEF QueueTypes
<1>7. Follow'
  <2>1. \A j \in Inputs : (InUp(j)' <=> InUp(j)) /\ (InHalted(j)' <=> InHalted(j))
    BY <1>2 DEF InUp, InHalted, appVars
  <2>2. \A o \in Outputs : (OutUp(o)' <=> OutUp(o)) /\ (OutTurns(o)' <=> OutTurns(o))
    BY <1>2 DEF OutUp, OutTurns, appVars
  <2>3. InputsFollow'
    <3> SUFFICES ASSUME NEW j \in Inputs
                 PROVE  /\ InUp(j) => InRuns(j)'
                        /\ InHalted(j) => InEnds(j)'
                        /\ ~InUp(j) /\ ~InHalted(j) => InIsStopped(j)'
      BY <2>1 DEF InputsFollow
    <3>1. CASE j = i
      BY <1>1, <1>2, <3>1 DEF ThreadTypes, Follow, InputsFollow, InRuns, InEnds, InIsStopped
    <3>2. CASE j # i
      BY <1>1, <1>2, <3>2 DEF ThreadTypes, Follow, InputsFollow, InRuns, InEnds, InIsStopped
    <3> QED
      BY <3>1, <3>2
  <2>4. OutputsFollow'
    BY <1>2, <2>2 DEF Follow, OutputsFollow, OutIsStarted, OutIsStopped
  <2>5. AppFollows'
    BY <1>2 DEF Follow, AppFollows, appVars
  <2> QED
    BY <2>3, <2>4, <2>5 DEF Follow
<1>8. FirstLife'
  <2>1. \A o \in Outputs : (OutUp(o)' <=> OutUp(o)) /\ (OutTurns(o)' <=> OutTurns(o)) /\ (Serves(o)' <=> Serves(o))
    BY <1>2 DEF OutUp, OutTurns, Serves, appVars
  <2> QED
    BY <1>2, <1>3, <2>1 DEF FirstLife, appVars
<1> QED
  BY <1>5, <1>6, <1>7, <1>8

LEMMA ControlKeptByOutput ==
  ASSUME ControlInv, appAt # "terminated", NEW o \in Outputs, OutStep(o)
  PROVE  ControlInv'
<1> USE DEF ControlInv
<1>1. PICK t \in OutThreads \ {"none"} :
        /\ outThread' = [outThread EXCEPT ![o] = t]
        /\ t = "ended" => outThread[o] = "end"
        /\ t = "end" => outQuit[o] \/ (outQueue[o] # << >> /\ Head(outQueue[o]) = StopEntry)
  BY OutStepMoves
<1>2. /\ UNCHANGED <<appVars, inState, inQuit, inThread, inFrame, inOpen, cbOut, outQuit, nextHandle>>
      /\ outThread[o] \notin {"none", "ended"}
      /\ \/ outState' = outState
         \/ /\ outThread[o] = "end" /\ outThread' = [outThread EXCEPT ![o] = "ended"]
            /\ outState' = [outState EXCEPT ![o] = STOPPED]
      /\ outFrame' \in [Outputs -> Int]
  BY OutStepMoves
<1>3. /\ outQueue' \in [Outputs -> Seq(Entries)]
      /\ \A p \in Outputs : NoMarker(p) => NoMarker(p)'
      /\ NoMarker(o) /\ outQueue[o] # << >> => Head(outQueue[o]) # StopEntry
  <2>1. CASE outQueue' = outQueue
    <3>1. outQueue[o] \in Seq(Entries)
      BY DEF QueueTypes
    <3> QED
      BY <2>1, <3>1 DEF QueueTypes, NoMarker
  <2>2. CASE outQueue[o] # << >> /\ outQueue' = [outQueue EXCEPT ![o] = Tail(@)]
    BY <2>2, PopTypes
  <2> QED
    BY <2>1, <2>2, OutStepMoves
<1>5. ThreadTypes'
  BY <1>1, <1>2 DEF ThreadTypes, appVars, States
<1>6. QueueTypes'
  BY <1>2, <1>3 DEF QueueTypes, HoldsFrame
<1>u. \A p \in Outputs : (OutUp(p)' <=> OutUp(p)) /\ (OutTurns(p)' <=> OutTurns(p))
  BY <1>2 DEF OutUp, OutTurns, appVars
<1>7. Follow'
  <2>1. InputsFollow' /\ AppFollows'
    BY <1>2 DEF Follow, InputsFollow, AppFollows, InUp, InHalted, InRuns, InEnds, InIsStopped, appVars
  <2>2. OutputsFollow'
    <3> SUFFICES ASSUME NEW p \in Outputs
                 PROVE  /\ OutUp(p) => OutIsStarted(p)'
                        /\ OutTurns(p) => outThread'[p] # "none"
                        /\ ~OutUp(p) /\ ~OutTurns(p) => OutIsStopped(p)'
      BY <1>u DEF OutputsFollow
    <3>1. CASE p = o
      BY <1>1, <1>2, <3>1 DEF ThreadTypes, Follow, OutputsFollow, OutIsStarted, OutIsStopped
    <3>2. CASE p # o
      BY <1>1, <1>2, <3>2 DEF ThreadTypes, Follow, OutputsFollow, OutIsStarted, OutIsStopped
    <3> QED
      BY <3>1, <3>2
  <2> QED
    BY <2>1, <2>2 DEF Follow
<1>8. FirstLife'
  <2> SUFFICES ASSUME starts <= 1, NEW p \in Outputs
               PROVE  /\ OutUp(p) => outState'[p] = STARTED /\ Serves(p)' /\ NoMarker(p)'
                      /\ OutTurns(p) /\ appAt = "markOut" => Serves(p)'
                      /\ ~OutUp(p) /\ ~OutTurns(p) => outThread'[p] = "none"
                      /\ (appAt = "idle" /\ starts = 0) \/ appAt \in {"startIn", "startOut", "markOut"} => NoMarker(p)'
    BY <1>2, <1>u DEF FirstLife, appVars
  <2>1. CASE p = o
    <3>1. Serves(o) /\ NoMarker(o) => Serves(o)'
      BY <1>1, <1>2, <1>3 DEF Serves, OutThreads, ThreadTypes
    <3> QED
      BY <1>1, <1>2, <1>3, <2>1, <3>1 DEF FirstLife, ThreadTypes, Serves
  <2>2. CASE p # o
    <3>1. outState'[p] = outState[p] /\ outThread'[p] = outThread[p] /\ outQuit'[p] = outQuit[p]
      BY <1>1, <1>2, <2>2 DEF ThreadTypes
    <3> QED
      BY <1>3, <3>1 DEF FirstLife, Serves
  <2> QED
    BY <2>1, <2>2
<1> QED
  BY <1>5, <1>6, <1>7, <1>8

(***************************************************************************)
(* The application thread keeps it too.                                    *)
(***************************************************************************)
\* start(), stop() and close() are entered.
LEMMA ControlKeptByCall ==
  ASSUME ControlInv, AppCall, UNCHANGED <<poolVars, media, cbOut, accepted>>
  PROVE  ControlInv'
<1> USE DEF ControlInv, AppGoes, STOPPED, STARTED
<1>1. appAt = "idle" /\ UNCHANGED <<inVars, outVars, cbOut, nextHandle, modState>>
  BY DEF AppCall, AppStart, AppStop, AppClose, poolVars
<1>2. \/ /\ appAt' = "startIn" /\ appPin' = 1 /\ starts' = starts + 1 /\ modState = STOPPED
      \/ /\ appAt' = "stopIn" /\ appPin' = 1 /\ starts' = starts /\ modState = STARTED
      \/ /\ appAt' = "delete" /\ appPin' = appPin /\ starts' = starts /\ modState = STOPPED
  BY DEF AppCall, AppStart, AppStop, AppClose
<1>3. PICK n, m \in Nat : Inputs = 1 .. n /\ Outputs = 1 .. m
  BY Pins
<1>4. ThreadTypes' /\ QueueTypes'
  BY <1>1, <1>2 DEF ThreadTypes, QueueTypes, HoldsFrame, AppPlaces, inVars, outVars
<1>5. Follow'
  <2>1. InputsFollow'
    BY <1>1, <1>2, <1>3 DEF Follow, InputsFollow, InUp, InHalted, InRuns, InEnds, InIsStopped, inVars
  <2>2. OutputsFollow'
    BY <1>1, <1>2, <1>3 DEF Follow, OutputsFollow, OutUp, OutTurns, OutIsStarted, OutIsStopped, outVars
  <2>3. AppFollows'
    BY <1>1, <1>2 DEF ThreadTypes, Follow, AppFollows
  <2> QED
    BY <2>1, <2>2, <2>3 DEF Follow
<1>6. FirstLife'
  BY <1>1, <1>2, <1>3 DEF ThreadTypes, Follow, AppFollows, FirstLife, OutUp, OutTurns, Serves, NoMarker, outVars
<1> QED
  BY <1>4, <1>5, <1>6

\* The steps of start() and stop() that change no output.
LEMMA ControlKeptByAppOnInputs ==
  ASSUME ControlInv, UNCHANGED <<poolVars, media, cbOut, accepted>>,
         AppStartIn \/ AppInsStarted \/ AppStopIn \/ AppClosePin \/ AppJoinIn \/ AppInsStopped
  PROVE  ControlInv'
<1> USE DEF ControlInv, AppGoes, AppKeeps, Here, NextPin
<1> DEFINE WhatItDoes ==
      \/ /\ appAt = "startIn" /\ appAt' = "startIn" /\ appPin \in Inputs /\ appPin' = appPin + 1
         /\ inState' = [inState EXCEPT ![appPin] = STARTED] /\ inQuit' = [inQuit EXCEPT ![appPin] = FALSE]
         /\ inThread' = [inThread EXCEPT ![appPin] = "loop"]
         /\ inOpen' = [inOpen EXCEPT ![appPin] = TRUE]
      \/ /\ appAt = "startIn" /\ appAt' = "startOut" /\ appPin \notin Inputs /\ appPin' = 1
         /\ UNCHANGED <<inState, inQuit, inThread, inOpen>>
      \/ /\ appAt = "stopIn" /\ appAt' = "closePin" /\ appPin \in Inputs /\ appPin' = appPin
         /\ inState' = [inState EXCEPT ![appPin] = STOPPED] /\ inQuit' = [inQuit EXCEPT ![appPin] = TRUE]
         /\ UNCHANGED <<inThread, inOpen>>
      \/ /\ appAt = "closePin" /\ appAt' = "joinIn" /\ appPin' = appPin
         /\ inOpen' = [inOpen EXCEPT ![appPin] = FALSE]
         /\ UNCHANGED <<inState, inQuit, inThread>>
      \/ /\ appAt = "joinIn" /\ appAt' = "stopIn" /\ appPin' = appPin + 1
         /\ inThread' = [inThread EXCEPT ![appPin] = "none"]
         /\ UNCHANGED <<inState, inQuit, inOpen>>
      \/ /\ appAt = "stopIn" /\ appAt' = "stopOut" /\ appPin \notin Inputs /\ appPin' = 1
         /\ UNCHANGED <<inState, inQuit, inThread, inOpen>>
<1>1. appAt # "terminated" /\ UNCHANGED <<modState, closing, starts, outVars, cbOut, nextHandle, inFrame>>
  BY DEF AppStartIn, AppInsStarted, AppStopIn, AppClosePin, AppJoinIn, AppInsStopped,
         InStart, InRaiseQuit, InClosePin, InJoin, InGoes, inVars, poolVars
<1>2. PICK n, m \in Nat : Inputs = 1 .. n /\ Outputs = 1 .. m
  BY Pins
<1>3. InputsFollow /\ OutputsFollow /\ AppFollows
  BY <1>1 DEF Follow
<1>4. WhatItDoes
  <2>1. CASE AppStartIn
    <3>1. inState[appPin] = STOPPED
      BY <1>2, <1>3, <2>1 DEF AppStartIn, InputsFollow, InUp, InHalted, InIsStopped
    <3> QED
      BY <2>1, <3>1 DEF AppStartIn, InStart, InGoes
  <2>2. CASE AppInsStarted
    BY <2>2 DEF AppInsStarted, inVars
  <2>3. CASE AppStopIn
    <3>1. inState[appPin] = STARTED
      BY <1>2, <1>3, <2>3 DEF AppStopIn, InputsFollow, InUp, InRuns
    <3> QED
      BY <2>3, <3>1 DEF AppStopIn, InRaiseQuit
  <2>4. CASE AppClosePin
    BY <2>4 DEF AppClosePin, InClosePin
  <2>5. CASE AppJoinIn
    BY <2>5 DEF AppJoinIn, InJoin, InGoes
  <2>6. CASE AppInsStopped
    BY <2>6 DEF AppInsStopped, inVars
  <2> QED
    BY <2>1, <2>2, <2>3, <2>4, <2>5, <2>6
<1>5. ThreadTypes' /\ QueueTypes'
  <2>1. ThreadTypes'
    <3>1. appAt' \in AppPlaces /\ appPin' \in Nat
      BY <1>4 DEF ThreadTypes, AppPlaces
    <3>2. inState' \in [Inputs -> States] /\ inQuit' \in [Inputs -> BOOLEAN] /\ inOpen' \in [Inputs -> BOOLEAN]
      BY <1>4 DEF ThreadTypes, States
    <3>3. inThread' \in [Inputs -> InThreads]
      BY <1>4 DEF ThreadTypes, InThreads
    <3> HIDE DEF WhatItDoes
    <3> QED
      BY <1>1, <3>1, <3>2, <3>3 DEF ThreadTypes, outVars
  <2>2. \A i \in Inputs : HoldsFrame(i)' => HoldsFrame(i)
    BY <1>4 DEF HoldsFrame, ThreadTypes
  <2> QED
    BY <1>1, <2>1, <2>2 DEF QueueTypes, outVars
<1>6. InputsFollow'
  <2> SUFFICES ASSUME NEW i \in Inputs
               PROVE  /\ InUp(i)' => InRuns(i)'
                      /\ InHalted(i)' => InEnds(i)'
                      /\ ~InUp(i)' /\ ~InHalted(i)' => InIsStopped(i)'
    BY DEF InputsFollow
  <2>1. i \in Nat /\ i >= 1 /\ i <= n /\ appPin \in Nat /\ appPin >= 1
    BY <1>2, <1>3 DEF AppFollows, ThreadTypes
  <2>2. /\ inState \in [Inputs -> States] /\ inQuit \in [Inputs -> BOOLEAN]
        /\ inThread \in [Inputs -> InThreads]
    BY DEF ThreadTypes
  <2>3. /\ InUp(i) => InRuns(i)
        /\ InHalted(i) => InEnds(i)
        /\ ~InUp(i) /\ ~InHalted(i) => InIsStopped(i)
    BY <1>3 DEF InputsFollow
  <2>4. CASE i = appPin
    BY <1>1, <1>2, <1>4, <2>1, <2>2, <2>3, <2>4
       DEF InUp, InHalted, InRuns, InEnds, InIsStopped, STOPPED, STARTED
  <2>5. CASE i # appPin
    <3>1. UNCHANGED <<inState[i], inQuit[i], inThread[i]>>
      BY <1>4, <2>2, <2>5
    <3>2. (InUp(i)' <=> InUp(i)) /\ ~InHalted(i) /\ ~InHalted(i)'
      BY <1>1, <1>2, <1>4, <2>1, <2>5 DEF InUp, InHalted
    <3> QED
      BY <2>3, <3>1, <3>2 DEF InRuns, InEnds, InIsStopped
  <2> QED
    BY <2>4, <2>5
<1>7. \A o \in Outputs : (OutUp(o)' <=> OutUp(o)) /\ ~OutTurns(o)' /\ ~OutTurns(o)
  BY <1>1, <1>2, <1>3, <1>4 DEF OutUp, OutTurns, AppFollows
<1>8. OutputsFollow' /\ AppFollows'
  <2>1. OutputsFollow'
    BY <1>1, <1>3, <1>7 DEF OutputsFollow, OutIsStarted, OutIsStopped, outVars
  <2>2. AppFollows'
    BY <1>1, <1>2, <1>3, <1>4 DEF AppFollows, ThreadTypes
  <2> QED
    BY <2>1, <2>2
<1>9. FirstLife'
  <2>1. appAt' \notin {"terminated", "idle", "markOut"}
    BY <1>4
  <2>2. appAt' \in {"startIn", "startOut"} => appAt = "startIn"
    BY <1>4
  <2> QED
    BY <1>1, <1>7, <2>1, <2>2 DEF FirstLife, Serves, NoMarker, outVars
<1> QED
  BY <1>5, <1>6, <1>8, <1>9 DEF Follow

\* The steps that change no input, up to the deletion of the pins.
LEMMA ControlKeptByAppOnOutputs ==
  ASSUME ControlInv, UNCHANGED <<poolVars, media, cbOut, accepted>>,
         AppStartOut \/ AppMarkOut \/ AppStarted \/ AppStopOut \/ AppPushStop \/ AppJoinOut \/ AppStopped
  PROVE  ControlInv'
<1> USE DEF ControlInv, AppGoes, AppKeeps, Here, NextPin
<1> DEFINE WhatItDoes ==
      \/ /\ appAt = "startOut" /\ appAt' = "markOut" /\ appPin \in Outputs /\ appPin' = appPin
         /\ outQuit' = [outQuit EXCEPT ![appPin] = FALSE] /\ outThread' = [outThread EXCEPT ![appPin] = "loop"]
         /\ UNCHANGED <<modState, outState>>
      \/ /\ appAt = "startOut" /\ appAt' = "terminated" /\ appPin' = appPin /\ appPin \in Outputs
         /\ outThread[appPin] # "none" /\ UNCHANGED <<modState, outState, outQuit, outThread>>
      \/ /\ appAt = "markOut" /\ appAt' = "startOut" /\ appPin' = appPin + 1
         /\ outState' = [outState EXCEPT ![appPin] = STARTED] /\ UNCHANGED <<modState, outQuit, outThread>>
      \/ /\ appAt = "startOut" /\ appAt' = "idle" /\ appPin \notin Outputs /\ appPin' = appPin
         /\ modState' = STARTED /\ UNCHANGED <<outState, outQuit, outThread>>
      \/ /\ appAt = "stopOut" /\ appAt' = "pushStop" /\ appPin \in Outputs /\ appPin' = appPin
         /\ outState[appPin] = STARTED
         /\ outQuit' = [outQuit EXCEPT ![appPin] = TRUE] /\ UNCHANGED <<modState, outState, outThread>>
      \/ /\ appAt = "stopOut" /\ appAt' = "stopOut" /\ appPin \in Outputs /\ appPin' = appPin + 1
         /\ outState[appPin] # STARTED /\ UNCHANGED <<modState, outState, outQuit, outThread>>
      \/ /\ appAt = "pushStop" /\ appAt' = "joinOut" /\ appPin' = appPin
         /\ UNCHANGED <<modState, outState, outQuit, outThread>>
      \/ /\ appAt = "joinOut" /\ appAt' = "stopOut" /\ appPin' = appPin + 1
         /\ outState' = [outState EXCEPT ![appPin] = STOPPED] /\ outThread' = [outThread EXCEPT ![appPin] = "none"]
         /\ UNCHANGED <<modState, outQuit>>
      \/ /\ appAt = "stopOut" /\ appAt' \in {"delete", "idle"} /\ appPin \notin Outputs /\ appPin' = appPin
         /\ modState' = STOPPED /\ UNCHANGED <<outState, outQuit, outThread>>
<1>1. appAt # "terminated" /\ UNCHANGED <<starts, inVars, cbOut, nextHandle, outFrame>>
  BY DEF AppStartOut, AppMarkOut, AppStarted, AppStopOut, AppPushStop, AppJoinOut, AppStopped,
         OutSpawn, OutMarkStarted, OutRaiseQuit, OutPushMarker, OutJoin, outVars, poolVars
<1>2. PICK n, m \in Nat : Inputs = 1 .. n /\ Outputs = 1 .. m
  BY Pins
<1>3. InputsFollow /\ OutputsFollow /\ AppFollows
  BY <1>1 DEF Follow
<1>4. WhatItDoes
  <2>1. CASE AppStartOut
    <3>1. outState[appPin] = STOPPED
      BY <1>2, <1>3, <2>1 DEF AppStartOut, OutputsFollow, OutUp, OutTurns, OutIsStopped
    <3> QED
      BY <2>1, <3>1 DEF AppStartOut, OutSpawn, OutSpawnTerminates, OutGoes, outVars
  <2>2. CASE AppMarkOut
    BY <2>2 DEF AppMarkOut, OutMarkStarted
  <2>3. CASE AppStarted
    BY <2>3 DEF AppStarted, outVars
  <2>4. CASE AppStopOut
    BY <2>4 DEF AppStopOut, OutRaiseQuit, outVars
  <2>5. CASE AppPushStop
    BY <2>5 DEF AppPushStop, OutPushMarker
  <2>6. CASE AppJoinOut
    BY <2>6 DEF AppJoinOut, OutJoin
  <2>7. CASE AppStopped
    BY <2>7 DEF AppStopped, outVars
  <2> QED
    BY <2>1, <2>2, <2>3, <2>4, <2>5, <2>6, <2>7
<1>5. /\ outQueue' \in [Outputs -> Seq(Entries)]
      /\ \A o \in Outputs : (appAt # "pushStop" \/ o # appPin) /\ NoMarker(o) => NoMarker(o)'
  <2>1. CASE AppPushStop
    <3>1. appPin \in Outputs /\ appAt = "pushStop" /\ Push(appPin, StopEntry) /\ StopEntry \in Entries
      BY <1>3, <2>1 DEF AppPushStop, OutPushMarker, AppFollows, Entries
    <3> QED
      BY <3>1, PushTypes
  <2>2. CASE ~AppPushStop
    <3>1. outQueue' = outQueue
      BY <2>2 DEF AppStartOut, AppMarkOut, AppStarted, AppStopOut, AppJoinOut, AppStopped,
                  OutSpawn, OutMarkStarted, OutRaiseQuit, OutJoin, outVars
    <3> QED
      BY <3>1 DEF QueueTypes, NoMarker
  <2> QED
    BY <2>1, <2>2
<1>6. ThreadTypes' /\ QueueTypes'
  <2>1. appAt' \in AppPlaces /\ appPin' \in Nat /\ modState' \in States
    BY <1>4 DEF ThreadTypes, AppPlaces, States
  <2>2. outState' \in [Outputs -> States] /\ outQuit' \in [Outputs -> BOOLEAN]
    BY <1>4 DEF ThreadTypes, States
  <2>3. outThread' \in [Outputs -> OutThreads]
    BY <1>4 DEF ThreadTypes, OutThreads
  <2> HIDE DEF WhatItDoes
  <2> QED
    BY <1>1, <1>5, <2>1, <2>2, <2>3 DEF ThreadTypes, QueueTypes, HoldsFrame, inVars
<1>7. ASSUME appAt' # "terminated" PROVE Follow'
  <2>1. \A i \in Inputs : (InUp(i)' <=> InUp(i)) /\ ~InHalted(i)' /\ ~InHalted(i)
    BY <1>1, <1>3, <1>4, <1>7 DEF InUp, InHalted, AppFollows, STOPPED, STARTED
  <2>2. InputsFollow'
    BY <1>1, <1>3, <2>1 DEF InputsFollow, InRuns, InEnds, InIsStopped, inVars
  <2>3. AppFollows'
    BY <1>1, <1>2, <1>3, <1>4, <1>7 DEF AppFollows, ThreadTypes
  <2>4. OutputsFollow'
    <3> SUFFICES ASSUME NEW o \in Outputs
                 PROVE  /\ OutUp(o)' => OutIsStarted(o)'
                        /\ OutTurns(o)' => outThread'[o] # "none"
                        /\ ~OutUp(o)' /\ ~OutTurns(o)' => OutIsStopped(o)'
      BY DEF OutputsFollow
    <3>1. o \in Nat /\ o >= 1 /\ o <= m /\ appPin \in Nat /\ appPin >= 1
      BY <1>2, <1>3 DEF AppFollows, ThreadTypes
    <3>2. /\ outState \in [Outputs -> States] /\ outQuit \in [Outputs -> BOOLEAN]
          /\ outThread \in [Outputs -> OutThreads]
      BY DEF ThreadTypes
    <3>3. /\ OutUp(o) => OutIsStarted(o)
          /\ OutTurns(o) => outThread[o] # "none"
          /\ ~OutUp(o) /\ ~OutTurns(o) => OutIsStopped(o)
      BY <1>3 DEF OutputsFollow
    <3>4. CASE o = appPin
      BY <1>1, <1>2, <1>3, <1>4, <1>7, <3>1, <3>2, <3>3, <3>4
         DEF OutUp, OutTurns, OutIsStarted, OutIsStopped, AppFollows, States, STOPPED, STARTED
    <3>5. CASE o # appPin
      <4>1. UNCHANGED <<outState[o], outThread[o]>>
        BY <1>4, <3>2, <3>5
      <4>2. (OutUp(o)' <=> OutUp(o)) /\ ~OutTurns(o) /\ ~OutTurns(o)'
        BY <1>1, <1>2, <1>3, <1>4, <1>7, <3>1, <3>5 DEF OutUp, OutTurns, AppFollows, STOPPED, STARTED
      <4> QED
        BY <3>3, <4>1, <4>2 DEF OutIsStarted, OutIsStopped
    <3> QED
      BY <3>4, <3>5
  <2> QED
    BY <2>2, <2>3, <2>4 DEF Follow
<1>8. FirstLife'
  <2> SUFFICES ASSUME starts <= 1
               PROVE  /\ appAt' # "terminated"
                      /\ \A o \in Outputs :
                           /\ OutUp(o)' => outState'[o] = STARTED /\ Serves(o)' /\ NoMarker(o)'
                           /\ OutTurns(o)' /\ appAt' = "markOut" => Serves(o)'
                           /\ ~OutUp(o)' /\ ~OutTurns(o)' => outThread'[o] = "none"
                           /\ (appAt' = "idle" /\ starts = 0) \/ appAt' \in {"startIn", "startOut", "markOut"}
                                => NoMarker(o)'
    BY <1>1 DEF FirstLife
  <2>0. \A o \in Outputs :
           /\ OutUp(o) => outState[o] = STARTED /\ Serves(o) /\ NoMarker(o)
           /\ OutTurns(o) /\ appAt = "markOut" => Serves(o)
           /\ ~OutUp(o) /\ ~OutTurns(o) => outThread[o] = "none"
           /\ appAt \in {"startIn", "startOut", "markOut"} => NoMarker(o)
    BY DEF FirstLife
  <2>1. appAt' # "terminated"
    <3>1. appAt = "startOut" /\ appPin \in Outputs => outThread[appPin] = "none"
      BY <1>2, <2>0 DEF OutUp, OutTurns
    <3> QED
      BY <1>4, <3>1
  <2>2. starts # 0
    BY <1>3, <1>4 DEF AppFollows
  <2> SUFFICES ASSUME NEW o \in Outputs
               PROVE  /\ OutUp(o)' => outState'[o] = STARTED /\ Serves(o)' /\ NoMarker(o)'
                      /\ OutTurns(o)' /\ appAt' = "markOut" => Serves(o)'
                      /\ ~OutUp(o)' /\ ~OutTurns(o)' => outThread'[o] = "none"
                      /\ appAt' \in {"startIn", "startOut", "markOut"} => NoMarker(o)'
    BY <2>1, <2>2
  <2>3. o \in Nat /\ o >= 1 /\ o <= m /\ appPin \in Nat /\ appPin >= 1
    BY <1>2, <1>3 DEF AppFollows, ThreadTypes
  <2>4. /\ outState \in [Outputs -> States] /\ outQuit \in [Outputs -> BOOLEAN]
        /\ outThread \in [Outputs -> OutThreads]
    BY DEF ThreadTypes
  <2>5. appAt' \in {"startIn", "startOut", "markOut"} => NoMarker(o)'
    BY <1>4, <1>5, <2>0
  <2>6. CASE o = appPin
    <3>1. appAt = "startOut" => outState[o] = STOPPED
      BY <1>2, <1>3, <2>6 DEF OutputsFollow, OutUp, OutTurns, OutIsStopped
    <3>2. CASE OutUp(o)'
      <4>1. appAt = "markOut"
        BY <1>1, <1>2, <1>3, <1>4, <2>0, <2>3, <2>6, <3>2 DEF OutUp, AppFollows, STOPPED, STARTED
      <4>2. Serves(o) /\ appAt' = "startOut"
        BY <1>4, <2>0, <2>6, <4>1 DEF OutTurns
      <4> QED
        BY <1>4, <2>3, <2>4, <2>5, <2>6, <3>2, <4>1, <4>2 DEF Serves, OutTurns
    <3>3. CASE OutTurns(o)' /\ appAt' = "markOut"
      BY <1>4, <2>3, <2>4, <2>5, <2>6, <3>3 DEF Serves, OutUp, OutTurns
    <3>4. CASE ~OutUp(o)' /\ ~OutTurns(o)'
      BY <1>2, <1>4, <2>0, <2>3, <2>4, <2>5, <2>6, <3>4 DEF OutUp, OutTurns
    <3>5. CASE OutTurns(o)' /\ appAt' # "markOut"
      BY <2>5, <2>3, <3>5 DEF OutUp, OutTurns
    <3> QED
      BY <3>2, <3>3, <3>4, <3>5
  <2>7. CASE o # appPin
    <3>1. UNCHANGED <<outState[o], outThread[o], outQuit[o]>>
      BY <1>4, <2>4, <2>7
    <3>2. (OutUp(o)' <=> OutUp(o)) /\ ~OutTurns(o) /\ ~OutTurns(o)'
      BY <1>1, <1>2, <1>3, <1>4, <2>1, <2>3, <2>7 DEF OutUp, OutTurns, AppFollows, STOPPED, STARTED
    <3>3. NoMarker(o) => NoMarker(o)'
      BY <1>5, <2>7
    <3> QED
      BY <2>0, <2>5, <3>1, <3>2, <3>3 DEF Serves
  <2> QED
    BY <2>6, <2>7
<1> QED
  BY <1>6, <1>7, <1>8

\* close() deletes the pins.
LEMMA ControlKeptByDelete ==
  ASSUME ControlInv, UNCHANGED <<poolVars, media, cbOut, accepted>>, AppDelete
  PROVE  ControlInv'
<1> USE DEF ControlInv, AppGoes
<1>1. /\ appAt = "delete" /\ appAt' = IF Joinable THEN "terminated" ELSE "closed"
      /\ outQueue' = [o \in Outputs |-> << >>]
      /\ UNCHANGED <<appPin, modState, starts, inVars, cbOut, nextHandle>>
      /\ UNCHANGED <<outState, outQuit, outThread, outFrame>>
  BY DEF AppDelete, poolVars
<1>2. ThreadTypes' /\ QueueTypes'
  BY <1>1 DEF ThreadTypes, QueueTypes, HoldsFrame, AppPlaces, inVars
<1>3. \A i \in Inputs : ~InUp(i) /\ ~InHalted(i) /\ (appAt' = "closed" => ~InUp(i)' /\ ~InHalted(i)')
  BY <1>1 DEF InUp, InHalted
<1>4. \A o \in Outputs : ~OutUp(o) /\ ~OutTurns(o) /\ ~OutUp(o)' /\ ~OutTurns(o)'
  BY <1>1 DEF OutUp, OutTurns
<1>5. Follow
  BY <1>1
<1>6. ASSUME appAt' # "terminated" PROVE Follow'
  <2>1. InputsFollow'
    BY <1>1, <1>3, <1>5, <1>6 DEF Follow, InputsFollow, InIsStopped, inVars
  <2>2. OutputsFollow'
    BY <1>1, <1>4, <1>5 DEF Follow, OutputsFollow, OutIsStopped
  <2>3. AppFollows'
    BY <1>1, <1>5, <1>6 DEF Follow, AppFollows
  <2> QED
    BY <2>1, <2>2, <2>3 DEF Follow
<1>7. FirstLife'
  <2> SUFFICES ASSUME starts <= 1 PROVE FirstLife'
    BY <1>1 DEF FirstLife, ThreadTypes
  <2>1. \A o \in Outputs : outThread[o] = "none"
    BY <1>4 DEF FirstLife
  <2>2. \A i \in Inputs : inThread[i] = "none"
    BY <1>3, <1>5 DEF Follow, InputsFollow, InIsStopped
  <2>3. appAt' = "closed"
    BY <1>1, <2>1, <2>2 DEF Joinable
  <2> QED
    BY <1>1, <1>4, <2>1, <2>3 DEF FirstLife
<1> QED
  BY <1>2, <1>6, <1>7

LEMMA ControlUnchanged ==
  ASSUME ControlInv, UNCHANGED vars
  PROVE  ControlInv'
BY DEF ControlInv, vars, poolVars, inVars, outVars, appVars, ThreadTypes, QueueTypes, HoldsFrame,
       Follow, InputsFollow, OutputsFollow, AppFollows, FirstLife, InUp, InHalted, InRuns, InEnds,
       InIsStopped, OutUp, OutTurns, OutIsStarted, OutIsStopped, Serves, NoMarker

LEMMA ControlStep ==
  ASSUME ControlInv, [Next]_vars
  PROVE  ControlInv'
<1>1. CASE UNCHANGED vars
  BY <1>1, ControlUnchanged
<1>2. CASE Next
  <2>1. CASE Rest
    BY <2>1, ControlUnchanged DEF Rest
  <2>2. CASE AppCall /\ UNCHANGED <<poolVars, media, cbOut, accepted>>
    BY <2>2, ControlKeptByCall
  <2>3. CASE AppThread
    BY <2>3, ControlKeptByAppOnInputs, ControlKeptByAppOnOutputs, ControlKeptByDelete DEF AppThread, AppStep
  <2>4. CASE appAt # "terminated" /\ \E i \in Inputs : InStep(i)
    BY <2>4, ControlKeptByInput
  <2>5. CASE appAt # "terminated" /\ \E o \in Outputs : OutStep(o)
    BY <2>5, ControlKeptByOutput
  <2> QED
    BY <1>2, <2>1, <2>2, <2>3, <2>4, <2>5 DEF Next
<1> QED
  BY <1>1, <1>2

LEMMA ControlAlways == Spec => []ControlInv
<1>1. ControlInv /\ [Next]_vars => ControlInv'
  BY ControlStep
<1> QED
  BY ControlInit, <1>1, PTL DEF Spec

(***************************************************************************)
(* What the client may count on.                                           *)
(***************************************************************************)
\* Once libvMI_stop_module has returned no thread of the module is left at work,
\* whatever the number of inputs, outputs and starts: CvMIInput::stop and
\* CvMIOutput::stop join each thread they told to leave.
THEOREM ModuleIsQuiet == Spec => []QuietWhenStopped
<1>1. ControlInv => QuietWhenStopped
  BY DEF ControlInv, Follow, InputsFollow, OutputsFollow, InUp, InHalted, InIsStopped,
         OutUp, OutTurns, OutIsStopped, QuietWhenStopped, STOPPED, STARTED
<1> QED
  BY ControlAlways, <1>1, PTL

\* std::terminate is not reached in the first life of a module: no thread object is
\* assigned or deleted while it is joinable.
THEOREM ModuleSurvives == Spec => []NeverTerminates
<1>1. ControlInv => NeverTerminates
  BY DEF ControlInv, FirstLife, NeverTerminates
<1> QED
  BY ControlAlways, <1>1, PTL

\* In its first life a started module has a live thread behind each of its outputs.
THEOREM OutputsAreServed == Spec => []OutputsServe
<1>1. ControlInv => OutputsServe
  BY DEF ControlInv, FirstLife, OutUp, Serves, OutputsServe
<1> QED
  BY ControlAlways, <1>1, PTL

(***************************************************************************)
(* The list of frames.                                                     *)
(***************************************************************************)
Live(h) == \E k \in DOMAIN items : ~items[k].free /\ items[k].handle = h

PoolShape ==
  /\ items \in Seq(Item) /\ nextHandle \in Nat
  /\ maxFrames = MaxFrames /\ Len(items) <= MaxFrames
  /\ \A k \in DOMAIN items :
       /\ items[k].free => items[k].handle = INVALID /\ items[k].ref = 0
       /\ ~items[k].free => items[k].handle \in 0 .. nextHandle - 1
  /\ \A k, l \in DOMAIN items : ~items[k].free /\ items[k].handle = items[l].handle => k = l

(***************************************************************************)
(* The places a reference can be at, and the count of a frame.             *)
(***************************************************************************)
Queued(o, h) == \E n \in DOMAIN outQueue[o] : outQueue[o][n] = FrameEntry(h)
Sending(o, h) == outFrame[o] = h /\ outThread[o] \in {"send", "release"}
Touches(o, h) == Queued(o, h) \/ Sending(o, h) \/ h \in kept[o]

QueuedAt(h) == {o \in Outputs : Queued(o, h)}
KeptAt(h) == {o \in Outputs : h \in kept[o]}

Count(h) == Cardinality(InputRefs(h)) + Cardinality(SendRefs(h)) + Cardinality(QueuedAt(h))
            + Cardinality(OutputRefs(h)) + Cardinality(KeptAt(h))

\* Every reference is counted, and a frame that has one is in the list.
Counted ==
  /\ \A k \in DOMAIN items : ~items[k].free => items[k].ref = Count(items[k].handle)
  /\ \A h \in Int : Count(h) > 0 => Live(h)

(***************************************************************************)
(* No frame is at the same place twice: two inputs never have the same     *)
(* frame, and an output sees a frame once.                                 *)
(***************************************************************************)
Distinct(o) == \A m, n \in DOMAIN outQueue[o] :
                 outQueue[o][m] = outQueue[o][n] /\ outQueue[o][m] # StopEntry => m = n

Once ==
  /\ \A i, j \in Inputs : HoldsFrame(i) /\ HoldsFrame(j) /\ inFrame[i] = inFrame[j] => i = j
  /\ \A i \in Inputs, o \in Outputs : HoldsFrame(i) /\ Touches(o, inFrame[i]) =>
       inThread[i] \in {"send", "push"} /\ o < cbOut[i]
  /\ \A i \in Inputs : inThread[i] = "push" => cbOut[i] \in Outputs
  /\ \A o \in Outputs : Distinct(o)
  /\ \A o \in Outputs, h \in Int : /\ ~(Queued(o, h) /\ Sending(o, h))
                                   /\ ~(Queued(o, h) /\ h \in kept[o])
                                   /\ ~(Sending(o, h) /\ h \in kept[o])

\* The objects the threads work on are those of the frames they hold.
Pointers ==
  /\ \A i \in Inputs : HoldsFrame(i) =>
       inPtr[i] \in DOMAIN items /\ items[inPtr[i]].handle = inFrame[i]
  /\ \A o \in Outputs : outThread[o] \in {"send", "release"} =>
       outPtr[o] \in DOMAIN items /\ items[outPtr[o]].handle = outFrame[o] /\ outFrame[o] \in Nat

RefTypes ==
  /\ inPtr \in [Inputs -> 0 .. MaxFrames] /\ outPtr \in [Outputs -> 0 .. MaxFrames]
  /\ kept \in [Outputs -> SUBSET Int]

RefsInv == RefTypes /\ PoolShape /\ Counted /\ Once /\ Pointers

(***************************************************************************)
(* What an output has sent, is sending and has in its queue, together, is  *)
(* what it accepted.  Steps numbers the entries of a queue by the frames of*)
(* accepted that they stand for; a marker stands for none.                 *)
(***************************************************************************)
InHand(o) == IF outThread[o] = "send" THEN 1 ELSE 0
Weight(entry) == IF entry.marker THEN 0 ELSE 1

Numbers(o, f) ==
  /\ f \in [0 .. Len(outQueue[o]) -> 0 .. Len(accepted[o])]
  /\ f[0] = Len(sent[o]) + InHand(o)
  /\ f[Len(outQueue[o])] = Len(accepted[o])
  /\ \A n \in 1 .. Len(outQueue[o]) : f[n] = f[n - 1] + Weight(outQueue[o][n])
  /\ \A n \in 1 .. Len(outQueue[o]), k \in DOMAIN items :
       ~outQueue[o][n].marker /\ items[k].handle = outQueue[o][n].frame =>
         accepted[o][f[n]] = media[k]

Sends(o) ==
  /\ \E f \in [0 .. Len(outQueue[o]) -> 0 .. Len(accepted[o])] : Numbers(o, f)
  /\ outThread[o] = "send" => accepted[o][Len(sent[o]) + 1] = media[outPtr[o]]
  /\ \A n \in 1 .. Len(sent[o]) : sent[o][n] = accepted[o][n]

OrderTypes ==
  /\ media \in [1 .. MaxFrames -> Nat]
  /\ sent \in [Outputs -> Seq(Nat)] /\ accepted \in [Outputs -> Seq(Nat)]
  /\ reads \in Nat

OrderInv ==
  /\ OrderTypes
  /\ \A o \in Outputs \ Throwing : Sends(o)
  /\ \A o \in Outputs \cap Throwing : sent[o] = << >>

(***************************************************************************)
(* Once the module is deleted or std::terminate was called nothing moves.  *)
(***************************************************************************)
FramesInv ==
  /\ ~Over => RefsInv /\ OrderInv
  /\ Over => NoEarlyRelease /\ SendsInOrder
  /\ appAt = "closed" => ~Joinable

(***************************************************************************)
(* The operations of the pool.                                             *)
(***************************************************************************)
\* The loops over g_vMIFramesArray return the first item that satisfies their test.
LEMMA FirstIsMember ==
  ASSUME NEW S, S \subseteq Nat, S # {}
  PROVE  FirstOf(S) \in S
<1>1. PICK k \in S : \A j \in S : <<j, k>> \notin OpToRel(<, Nat)
  BY WFMin, NatLessThanWellFounded
<1>2. \A j \in S : ~(j < k)
  BY <1>1 DEF OpToRel
<1>3. \A j \in S : k <= j
  BY <1>2
<1> QED
  BY <1>3 DEF FirstOf

LEMMA ShapeFacts ==
  ASSUME PoolShape
  PROVE  /\ DOMAIN items = 1 .. Len(items) /\ Len(items) \in Nat /\ Len(items) <= MaxFrames
         /\ MaxFrames \in Nat /\ nextHandle \in Nat
         /\ \A k \in DOMAIN items :
              /\ items[k] \in Item /\ items[k].ref \in Int /\ items[k].handle \in Int
              /\ items[k].free \in BOOLEAN
              /\ items[k].handle \in Nat <=> ~items[k].free
              /\ ~items[k].free => items[k].handle < nextHandle
<1>1. items \in Seq(Item) /\ Len(items) <= MaxFrames /\ nextHandle \in Nat
  BY DEF PoolShape
<1>2. DOMAIN items = 1 .. Len(items) /\ Len(items) \in Nat
  BY <1>1
<1>3. \A k \in DOMAIN items : items[k] \in Item
  BY <1>1
<1>4. \A k \in DOMAIN items : items[k].ref \in Int /\ items[k].handle \in Int /\ items[k].free \in BOOLEAN
  BY <1>3 DEF Item
<1>5. \A k \in DOMAIN items : /\ items[k].handle \in Nat <=> ~items[k].free
                              /\ ~items[k].free => items[k].handle < nextHandle
  BY <1>1, <1>4 DEF PoolShape, INVALID
<1> QED
  BY <1>1, <1>2, <1>3, <1>4, <1>5, MaxFramesAssumption

\* A handle in use is found at one position.
LEMMA FindLive ==
  ASSUME PoolShape, NEW k \in DOMAIN items, items[k].handle \in Nat
  PROVE  Find(items[k].handle) = {k} /\ FirstOf(Find(items[k].handle)) = k /\ FrameGet(items[k].handle) = k
<1>1. Find(items[k].handle) = {k}
  BY ShapeFacts DEF Find, PoolShape
<1>2. k \in Nat
  BY ShapeFacts
<1>3. FirstOf({k}) = k
  BY <1>2, FirstIsMember
<1> QED
  BY <1>1, <1>3 DEF FrameGet

\* libvMI_frame_get finds a frame that is in use.
GetLive ==
  PoolShape => \A h \in Nat : Live(h) =>
    /\ FrameGet(h) \in 1 .. MaxFrames /\ FrameGet(h) \in DOMAIN items
    /\ \A k : k = FrameGet(h) => items[k].handle = h

LEMMA GetLiveNow == GetLive /\ GetLive'
<1>1. GetLive
  <2> SUFFICES ASSUME PoolShape, NEW h \in Nat, Live(h)
               PROVE  /\ FrameGet(h) \in 1 .. MaxFrames /\ FrameGet(h) \in DOMAIN items
                      /\ \A k : k = FrameGet(h) => items[k].handle = h
    BY DEF GetLive
  <2>1. PICK k \in DOMAIN items : items[k].handle = h
    BY DEF Live
  <2>2. FrameGet(h) = k
    BY <2>1, FindLive
  <2> QED
    BY <2>1, <2>2, ShapeFacts
<1> QED
  BY <1>1, PTL

\* What a pool operation leaves of the list: an item that is still counted stays
\* where it is, and an item with an old handle is an old item.
Moved ==
  /\ \A k \in DOMAIN items, h \in Nat : items[k].handle = h /\ Count(h)' > 0 =>
       k \in DOMAIN items' /\ ~items'[k].free /\ items'[k].handle = h
  /\ \A k \in DOMAIN items' : items'[k].handle \in 0 .. nextHandle - 1 =>
       /\ k \in DOMAIN items /\ items[k].handle = items'[k].handle

PoolMoves == PoolShape' /\ Counted' /\ Moved

LEMMA CountIsNat ==
  ASSUME NEW h
  PROVE  /\ IsFiniteSet(InputRefs(h)) /\ Cardinality(InputRefs(h)) \in Nat
         /\ IsFiniteSet(SendRefs(h)) /\ Cardinality(SendRefs(h)) \in Nat
         /\ IsFiniteSet(QueuedAt(h)) /\ Cardinality(QueuedAt(h)) \in Nat
         /\ IsFiniteSet(OutputRefs(h)) /\ Cardinality(OutputRefs(h)) \in Nat
         /\ IsFiniteSet(KeptAt(h)) /\ Cardinality(KeptAt(h)) \in Nat
         /\ Count(h) \in Nat
<1>1. IsFiniteSet(InputRefs(h)) /\ IsFiniteSet(SendRefs(h))
  BY InputsAssumption, FS_Subset DEF InputRefs, SendRefs
<1>2. IsFiniteSet(QueuedAt(h)) /\ IsFiniteSet(OutputRefs(h)) /\ IsFiniteSet(KeptAt(h))
  BY OutputsAssumption, FS_Subset DEF QueuedAt, OutputRefs, KeptAt
<1> HIDE DEF InputRefs, SendRefs, QueuedAt, OutputRefs, KeptAt
<1> QED
  BY <1>1, <1>2, FS_CardinalityType DEF Count

\* A place that has a reference is counted.
LEMMA UseIsCounted ==
  ASSUME NEW h
  PROVE  /\ \A i \in Inputs : HoldsFrame(i) /\ inFrame[i] = h => Count(h) > 0
         /\ \A o \in Outputs : Touches(o, h) => Count(h) > 0
<1>1. \A S : IsFiniteSet(S) /\ S # {} => Cardinality(S) # 0
  BY FS_EmptySet
<1>2. ASSUME NEW i \in Inputs, HoldsFrame(i), inFrame[i] = h PROVE Count(h) > 0
  <2>1. InputRefs(h) # {}
    BY <1>2 DEF InputRefs, HoldsFrame
  <2>2. Cardinality(InputRefs(h)) # 0
    BY <1>1, <2>1, CountIsNat
  <2> QED
    BY <2>2, CountIsNat DEF Count
<1>3. ASSUME NEW o \in Outputs, Touches(o, h) PROVE Count(h) > 0
  <2>1. QueuedAt(h) # {} \/ OutputRefs(h) # {} \/ KeptAt(h) # {}
    BY <1>3 DEF Touches, Sending, QueuedAt, OutputRefs, KeptAt
  <2>2. Cardinality(QueuedAt(h)) # 0 \/ Cardinality(OutputRefs(h)) # 0 \/ Cardinality(KeptAt(h)) # 0
    BY <1>1, <2>1, CountIsNat
  <2> QED
    BY <2>2, CountIsNat DEF Count
<1> QED
  BY <1>2, <1>3

\* A new frame has one reference, and its handle is new.
LEMMA CreateMoves ==
  ASSUME PoolShape, Counted, NEW g \in Nat, g = nextHandle, FrameCreate(g),
         Count(g)' = Count(g) + 1,
         \A h \in Int \ {g} : Count(h)' = Count(h)
  PROVE  /\ PoolMoves
         /\ nextHandle' = g + 1
         /\ Live(g)'
<1> DEFINE new == [handle |-> g, ref |-> 1, free |-> FALSE]
<1>1. nextHandle = g /\ g # INVALID
  BY DEF INVALID
<1>2. Count(g) = 0
  <2>1. ~Live(g)
    BY ShapeFacts DEF Live
  <2> QED
    BY <1>1, <2>1, CountIsNat DEF Counted
<1>3. nextHandle' = g + 1 /\ maxFrames' = maxFrames
  BY <1>1 DEF FrameCreate, ReuseItem, AddItem
<1>4. new \in Item
  BY <1>1 DEF Item
<1>5. \E n \in DOMAIN items' :
        /\ items' \in Seq(Item) /\ Len(items') <= MaxFrames
        /\ DOMAIN items' = DOMAIN items \cup {n}
        /\ items'[n] = new
        /\ n \in DOMAIN items => items[n].free
        /\ \A k \in DOMAIN items \ {n} : items'[k] = items[k]
  <2>1. CASE ReuseItem
    <3>1. FreeItems # {} /\ FreeItems \subseteq Nat
      BY <2>1, ShapeFacts DEF ReuseItem, FreeItems
    <3>2. FirstOf(FreeItems) \in FreeItems
      BY <3>1, FirstIsMember
    <3>3. PICK n \in DOMAIN items : n = FirstOf(FreeItems) /\ items[n].free
      BY <3>2 DEF FreeItems
    <3>4. items[n].ref = 0
      BY <3>3 DEF PoolShape
    <3>5. items' = [items EXCEPT ![n] = new]
      BY <2>1, <3>3, <3>4 DEF ReuseItem
    <3> HIDE DEF new
    <3>6. items \in Seq(Item) /\ Len(items) <= MaxFrames
      BY DEF PoolShape
    <3>7. items' \in Seq(Item) /\ DOMAIN items' = DOMAIN items /\ Len(items') = Len(items)
      BY <1>4, <3>3, <3>5, <3>6
    <3> QED
      BY <3>3, <3>5, <3>6, <3>7
  <2>2. CASE AddItem
    <3>1. items' = Append(items, new) /\ Len(items) < maxFrames
      BY <2>2 DEF AddItem
    <3>2. items \in Seq(Item) /\ maxFrames = MaxFrames /\ Len(items) \in Nat
      BY ShapeFacts DEF PoolShape
    <3> HIDE DEF new
    <3>3. items' \in Seq(Item) /\ Len(items') = Len(items) + 1
      BY <1>4, <3>1, <3>2
    <3>4. DOMAIN items' = DOMAIN items \cup {Len(items) + 1}
      BY <3>2, <3>3
    <3>5. items'[Len(items) + 1] = new /\ \A k \in DOMAIN items : items'[k] = items[k]
      BY <1>4, <3>1, <3>2
    <3>6. Len(items) + 1 \notin DOMAIN items
      BY <3>2
    <3>7. Len(items') <= MaxFrames
      BY <3>1, <3>2, <3>3, ShapeFacts
    <3> QED
      BY <3>3, <3>4, <3>5, <3>6, <3>7
  <2> QED
    BY <1>1, <2>1, <2>2 DEF FrameCreate
<1>6. PICK n \in DOMAIN items' :
        /\ items' \in Seq(Item) /\ Len(items') <= MaxFrames
        /\ DOMAIN items' = DOMAIN items \cup {n}
        /\ items'[n] = new
        /\ n \in DOMAIN items => items[n].free
        /\ \A k \in DOMAIN items \ {n} : items'[k] = items[k]
  BY <1>5
<1>7. new.handle = g /\ new.ref = 1 /\ new.free = FALSE
  OBVIOUS
<1> HIDE DEF new
<1>8. \A k \in DOMAIN items' \ {n} : k \in DOMAIN items /\ items'[k] = items[k]
  BY <1>6
<1>9. PoolShape'
  BY <1>1, <1>3, <1>6, <1>7, <1>8, ShapeFacts DEF PoolShape
<1>10. \A h \in Int : Live(h) => Live(h)'
  BY <1>6 DEF Live
<1>11. Counted'
  <2>1. ASSUME NEW k \in DOMAIN items', ~items'[k].free, NEW h, h = items'[k].handle
        PROVE  items'[k].ref = Count(h)'
    <3>1. CASE k = n
      <4>1. h = g /\ items'[k].ref = 1
        BY <1>6, <1>7, <2>1, <3>1
      <4>2. Count(g)' = 1
        BY <1>2
      <4> QED
        BY <4>1, <4>2
    <3>2. CASE k # n
      <4>1. items'[k] = items[k] /\ k \in DOMAIN items /\ items[k].handle = h /\ h \in Int \ {g}
        BY <1>8, <2>1, <3>2, ShapeFacts
      <4>2. items[k].ref = Count(h)
        BY <2>1, <4>1 DEF Counted
      <4> QED
        BY <4>1, <4>2
    <3> QED
      BY <3>1, <3>2
  <2>2. ASSUME NEW h \in Int, Count(h)' > 0 PROVE Live(h)'
    <3>1. CASE h = g
      BY <1>6, <1>7, <3>1 DEF Live
    <3>2. CASE h # g
      BY <1>10, <2>2, <3>2 DEF Counted
    <3> QED
      BY <3>1, <3>2
  <2> QED
    BY <2>1, <2>2 DEF Counted
<1>12. Moved
  <2>1. ASSUME NEW k \in DOMAIN items, items[k].handle \in Nat
        PROVE  k \in DOMAIN items' /\ ~items'[k].free /\ items'[k].handle = items[k].handle
    BY <1>6, <2>1, ShapeFacts
  <2>2. ASSUME NEW k \in DOMAIN items', items'[k].handle \in 0 .. nextHandle - 1
        PROVE  k \in DOMAIN items /\ items[k].handle = items'[k].handle
    BY <1>1, <1>6, <1>7, <1>8, <2>2
  <2> QED
    BY <2>1, <2>2 DEF Moved
<1> QED
  BY <1>3, <1>6, <1>7, <1>9, <1>11, <1>12 DEF PoolMoves, Live

\* One more reference to a frame that has one.
LEMMA AddRefMoves ==
  ASSUME PoolShape, Counted, NEW h \in Nat, Live(h), FrameAddRef(h),
         Count(h)' = Count(h) + 1,
         \A g \in Int \ {h} : Count(g)' = Count(g)
  PROVE  PoolMoves
<1>1. PICK n \in DOMAIN items : ~items[n].free /\ items[n].handle = h
  BY DEF Live
<1>2. items' = [items EXCEPT ![n].ref = @ + 1] /\ nextHandle' = nextHandle /\ maxFrames' = maxFrames
  BY <1>1, FindLive DEF FrameAddRef
<1> DEFINE new == [items[n] EXCEPT !.ref = @ + 1]
<1>3. new \in Item /\ new.handle = h /\ new.ref = items[n].ref + 1 /\ ~new.free
  BY <1>1, ShapeFacts DEF Item
<1>4. /\ items' \in Seq(Item) /\ Len(items') = Len(items) /\ DOMAIN items' = DOMAIN items /\ items'[n] = new
      /\ \A k \in DOMAIN items \ {n} : items'[k] = items[k]
  BY <1>2, <1>3 DEF PoolShape
<1> HIDE DEF new
<1>5. PoolShape'
  BY <1>1, <1>2, <1>3, <1>4, ShapeFacts DEF PoolShape
<1>6. \A k \in DOMAIN items : items'[k].handle = items[k].handle /\ (items'[k].free <=> items[k].free)
  BY <1>1, <1>3, <1>4
<1>7. Counted'
  <2>1. ASSUME NEW k \in DOMAIN items, ~items[k].free, NEW g, g = items[k].handle
        PROVE  items'[k].ref = Count(g)'
    <3>1. CASE k = n
      <4>1. g = h /\ items'[k].ref = items[n].ref + 1 /\ items[n].ref = Count(h)
        BY <1>1, <1>3, <1>4, <2>1, <3>1 DEF Counted
      <4> QED
        BY <4>1
    <3>2. CASE k # n
      <4>1. items'[k] = items[k] /\ g \in Int \ {h}
        BY <1>1, <1>4, <2>1, <3>2, ShapeFacts DEF PoolShape
      <4>2. items[k].ref = Count(g)
        BY <2>1 DEF Counted
      <4> QED
        BY <4>1, <4>2
    <3> QED
      BY <3>1, <3>2
  <2>2. ASSUME NEW g \in Int, Count(g)' > 0 PROVE Live(g)'
    <3>1. Live(g)
      BY <2>2 DEF Counted
    <3> QED
      BY <1>4, <1>6, <3>1 DEF Live
  <2> QED
    BY <1>4, <1>6, <2>1, <2>2 DEF Counted
<1>8. Moved
  BY <1>4, <1>6, ShapeFacts DEF Moved
<1> QED
  BY <1>5, <1>7, <1>8 DEF PoolMoves

\* One reference less; the last one frees the item.
LEMMA ReleaseMoves ==
  ASSUME PoolShape, Counted, NEW h \in Nat, Live(h), FrameRelease(h),
         Count(h)' = Count(h) - 1,
         \A g \in Int \ {h} : Count(g)' = Count(g)
  PROVE  PoolMoves
<1>1. PICK n \in DOMAIN items : ~items[n].free /\ items[n].handle = h
  BY DEF Live
<1> DEFINE new == Released(items[n])
<1>2. items' = [items EXCEPT ![n] = new] /\ nextHandle' = nextHandle /\ maxFrames' = maxFrames
  BY <1>1, FindLive DEF FrameRelease
<1>3. items[n].ref = Count(h) /\ items[n] \in Item
  BY <1>1, ShapeFacts DEF Counted
<1>4. /\ Count(h) = 1 => new = [handle |-> INVALID, ref |-> 0, free |-> TRUE]
      /\ Count(h) # 1 => new = [items[n] EXCEPT !.ref = @ - 1]
  BY <1>3 DEF Released
<1>5. /\ new \in Item
      /\ Count(h) = 1 => new.handle = INVALID /\ new.ref = 0 /\ new.free
      /\ Count(h) # 1 => new.handle = h /\ new.ref = Count(h)' /\ ~new.free
  <2>1. CASE Count(h) = 1
    <3>1. new = [handle |-> INVALID, ref |-> 0, free |-> TRUE]
      BY <1>4, <2>1
    <3> HIDE DEF new
    <3> QED
      BY <2>1, <3>1 DEF Item, INVALID
  <2>2. CASE Count(h) # 1
    BY <1>1, <1>3, <1>4, <2>2 DEF Item
  <2> QED
    BY <2>1, <2>2
<1> HIDE DEF new
<1>6. /\ items' \in Seq(Item) /\ Len(items') = Len(items) /\ DOMAIN items' = DOMAIN items /\ items'[n] = new
      /\ \A k \in DOMAIN items \ {n} : items'[k] = items[k]
  BY <1>2, <1>5 DEF PoolShape
<1>7. \A k \in DOMAIN items \ {n} : items[k].handle # h
  BY <1>1, ShapeFacts DEF PoolShape
<1>8. \/ Count(h) = 1 /\ Count(h)' = 0 /\ items'[n].handle = INVALID /\ items'[n].ref = 0 /\ items'[n].free
      \/ Count(h) # 1 /\ items'[n].handle = h /\ items'[n].ref = Count(h)' /\ ~items'[n].free
  BY <1>5, <1>6
<1>9. PoolShape'
  BY <1>1, <1>2, <1>6, <1>7, <1>8, ShapeFacts DEF PoolShape, INVALID
<1>10. Counted'
  <2>1. ASSUME NEW k \in DOMAIN items, ~items'[k].free, NEW g, g = items'[k].handle
        PROVE  items'[k].ref = Count(g)'
    <3>1. CASE k = n
      BY <1>8, <2>1, <3>1
    <3>2. CASE k # n
      <4>1. items'[k] = items[k] /\ g = items[k].handle /\ g \in Int \ {h} /\ ~items[k].free
        BY <1>6, <1>7, <2>1, <3>2, ShapeFacts
      <4>2. items[k].ref = Count(g)
        BY <4>1 DEF Counted
      <4> QED
        BY <4>1, <4>2
    <3> QED
      BY <3>1, <3>2
  <2>2. ASSUME NEW g \in Int, Count(g)' > 0 PROVE Live(g)'
    <3>1. CASE g = h
      BY <1>6, <1>8, <2>2, <3>1 DEF Live
    <3>2. CASE g # h
      <4>1. Live(g)
        BY <2>2, <3>2 DEF Counted
      <4> QED
        BY <1>1, <1>6, <3>2, <4>1 DEF Live
    <3> QED
      BY <3>1, <3>2
  <2> QED
    BY <1>6, <2>1, <2>2 DEF Counted
<1>11. Moved
  <2>1. ASSUME NEW k \in DOMAIN items, NEW g \in Nat, items[k].handle = g, Count(g)' > 0
        PROVE  ~items'[k].free /\ items'[k].handle = g
    BY <1>1, <1>6, <1>8, <2>1, ShapeFacts
  <2>2. ASSUME NEW k \in DOMAIN items, items'[k].handle \in 0 .. nextHandle - 1
        PROVE  items[k].handle = items'[k].handle
    BY <1>1, <1>6, <1>8, <2>2 DEF INVALID
  <2> QED
    BY <1>6, <2>1, <2>2 DEF Moved
<1> QED
  BY <1>9, <1>10, <1>11 DEF PoolMoves

\* The pool is not touched.
LEMMA StillMoves ==
  ASSUME PoolShape, Counted, UNCHANGED poolVars, \A g \in Int : Count(g)' = Count(g)
  PROVE  PoolMoves
<1>1. PoolShape' /\ \A g \in Int : Live(g)' <=> Live(g)
  BY DEF PoolShape, Live, poolVars
<1>2. Counted'
  <2>1. \A k \in DOMAIN items : items[k].handle \in Int
    BY ShapeFacts
  <2> QED
    BY <1>1, <2>1 DEF Counted, poolVars
<1> QED
  BY <1>1, <1>2, ShapeFacts DEF PoolMoves, Moved, poolVars

(***************************************************************************)
(* Counting before and after a step.                                       *)
(***************************************************************************)
LEMMA OneMore ==
  ASSUME NEW S, NEW T, NEW x, IsFiniteSet(S), x \notin S, T = S \cup {x}
  PROVE  Cardinality(T) = Cardinality(S) + 1
BY FS_AddElement

LEMMA OneLess ==
  ASSUME NEW S, NEW T, NEW x, IsFiniteSet(S), x \in S, T = S \ {x}
  PROVE  Cardinality(T) = Cardinality(S) - 1
BY FS_RemoveElement

UsesCounted ==
  \A h \in Int : /\ Count(h) \in Nat
                 /\ \A i \in Inputs : HoldsFrame(i) /\ inFrame[i] = h => Count(h) > 0
                 /\ \A o \in Outputs : Touches(o, h) => Count(h) > 0

LEMMA UsesCountedNow == UsesCounted /\ UsesCounted'
<1>1. UsesCounted
  BY CountIsNat, UseIsCounted DEF UsesCounted
<1> QED
  BY <1>1, PTL

\* A frame somebody uses has one item, with an old handle.
LEMMA UsedIsLive ==
  ASSUME RefsInv, NEW h \in Int
  PROVE  /\ \A i \in Inputs : HoldsFrame(i) /\ inFrame[i] = h => Live(h) /\ h < nextHandle /\ h \in Nat
         /\ \A o \in Outputs : Touches(o, h) => Live(h) /\ h < nextHandle /\ h \in Nat
<1>1. Live(h) => h < nextHandle /\ h \in Nat
  BY ShapeFacts DEF Live, RefsInv
<1>2. Count(h) > 0 => Live(h)
  BY DEF RefsInv, Counted
<1> QED
  BY <1>1, <1>2, UsesCountedNow DEF UsesCounted

\* A thread that keeps its frame keeps the object.
LEMMA PointersKept ==
  ASSUME RefsInv, ThreadTypes, ThreadTypes', PoolMoves, RefTypes', QueueTypes,
         \A i \in Inputs : HoldsFrame(i)' =>
           \/ HoldsFrame(i) /\ inFrame'[i] = inFrame[i] /\ inPtr'[i] = inPtr[i]
           \/ inPtr'[i] \in DOMAIN items' /\ items'[inPtr'[i]].handle = inFrame'[i],
         \A o \in Outputs : outThread'[o] \in {"send", "release"} =>
           \/ /\ outThread[o] \in {"send", "release"}
              /\ outFrame'[o] = outFrame[o] /\ outPtr'[o] = outPtr[o]
           \/ outPtr'[o] \in DOMAIN items' /\ items'[outPtr'[o]].handle = outFrame'[o] /\ outFrame'[o] \in Nat
  PROVE  Pointers'
<1>1. ASSUME NEW i \in Inputs, HoldsFrame(i)'
      PROVE  inPtr'[i] \in DOMAIN items' /\ items'[inPtr'[i]].handle = inFrame'[i]
  <2>1. CASE HoldsFrame(i) /\ inFrame'[i] = inFrame[i] /\ inPtr'[i] = inPtr[i]
    <3>1. PICK h \in Nat : h = inFrame[i]
      BY <2>1 DEF QueueTypes
    <3>2. Count(h)' > 0
      BY <1>1, <2>1, <3>1, UsesCountedNow DEF UsesCounted
    <3>3. inPtr[i] \in DOMAIN items /\ items[inPtr[i]].handle = h
      BY <2>1, <3>1 DEF RefsInv, Pointers
    <3> QED
      BY <2>1, <3>1, <3>2, <3>3 DEF PoolMoves, Moved
  <2> QED
    BY <1>1, <2>1
<1>2. ASSUME NEW o \in Outputs, outThread'[o] \in {"send", "release"}
      PROVE  outPtr'[o] \in DOMAIN items' /\ items'[outPtr'[o]].handle = outFrame'[o] /\ outFrame'[o] \in Nat
  <2>1. CASE outThread[o] \in {"send", "release"} /\ outFrame'[o] = outFrame[o] /\ outPtr'[o] = outPtr[o]
    <3>1. PICK h \in Nat : h = outFrame[o]
      BY <2>1 DEF RefsInv, Pointers
    <3>2. Count(h)' > 0
      BY <1>2, <2>1, <3>1, UsesCountedNow DEF UsesCounted, Touches, Sending
    <3>3. outPtr[o] \in DOMAIN items /\ items[outPtr[o]].handle = h
      BY <2>1, <3>1 DEF RefsInv, Pointers
    <3> QED
      BY <2>1, <3>1, <3>2, <3>3 DEF PoolMoves, Moved
  <2> QED
    BY <1>2, <2>1
<1> QED
  BY <1>1, <1>2 DEF Pointers

\* The steps that move no reference.
QuietIn ==
  \A i \in Inputs :
    /\ HoldsFrame(i)' <=> HoldsFrame(i)
    /\ inThread'[i] = "push" <=> inThread[i] = "push"
    /\ HoldsFrame(i) => inFrame'[i] = inFrame[i] /\ inPtr'[i] = inPtr[i]
    /\ inThread[i] \in {"send", "push"} => inThread'[i] \in {"send", "push"} /\ cbOut'[i] = cbOut[i]

QuietQueues ==
  \A o \in Outputs : /\ \A h \in Int : Queued(o, h)' <=> Queued(o, h)
                     /\ Distinct(o) => Distinct(o)'

QuietOut ==
  /\ \A o \in Outputs :
       /\ outThread'[o] \in {"send", "release"} <=> outThread[o] \in {"send", "release"}
       /\ outThread[o] \in {"send", "release"} => outFrame'[o] = outFrame[o] /\ outPtr'[o] = outPtr[o]
       /\ kept'[o] = kept[o]
  /\ QuietQueues

LEMMA QuietStep ==
  ASSUME ControlInv, ControlInv', RefsInv, UNCHANGED poolVars, QuietIn, QuietOut, RefTypes'
  PROVE  RefsInv' /\ Moved
<1> USE DEF RefsInv
<1>1. ThreadTypes /\ ThreadTypes' /\ QueueTypes
  BY DEF ControlInv
<1>2. \A g \in Int : Count(g)' = Count(g)
  <2> SUFFICES ASSUME NEW g \in Int PROVE Count(g)' = Count(g)
    OBVIOUS
  <2>1. InputRefs(g)' = InputRefs(g) /\ SendRefs(g)' = SendRefs(g)
    <3>1. \A i \in Inputs : (HoldsFrame(i)' /\ inFrame'[i] = g) <=> (HoldsFrame(i) /\ inFrame[i] = g)
      BY DEF QuietIn
    <3>2. \A i \in Inputs : inThread[i] = "push" => HoldsFrame(i)
      BY DEF HoldsFrame
    <3>3. \A i \in Inputs : (inThread'[i] = "push" /\ inFrame'[i] = g) <=> (inThread[i] = "push" /\ inFrame[i] = g)
      BY <3>2 DEF QuietIn
    <3> QED
      BY <3>1, <3>3 DEF InputRefs, SendRefs, HoldsFrame
  <2>2. QueuedAt(g)' = QueuedAt(g)
    BY DEF QuietOut, QuietQueues, QueuedAt
  <2>3. OutputRefs(g)' = OutputRefs(g) /\ KeptAt(g)' = KeptAt(g)
    BY DEF QuietOut, OutputRefs, KeptAt
  <2> QED
    BY <2>1, <2>2, <2>3 DEF Count
<1>3. PoolMoves
  BY <1>2, StillMoves
<1>4. \A o \in Outputs, h \in Int : (Sending(o, h)' <=> Sending(o, h)) /\ (Queued(o, h)' <=> Queued(o, h))
                                    /\ (Touches(o, h)' <=> Touches(o, h))
  BY DEF QuietOut, QuietQueues, Sending, Touches
<1>5. Once'
  <2>1. \A i, j \in Inputs : HoldsFrame(i)' /\ HoldsFrame(j)' /\ inFrame'[i] = inFrame'[j] => i = j
    BY DEF QuietIn, Once
  <2>2. ASSUME NEW i \in Inputs, NEW o \in Outputs, HoldsFrame(i)', NEW h, h = inFrame[i], Touches(o, h)'
        PROVE  inThread'[i] \in {"send", "push"} /\ o < cbOut'[i]
    <3>1. h \in Int /\ HoldsFrame(i)
      BY <1>1, <2>2 DEF ThreadTypes, QuietIn
    <3>2. Touches(o, inFrame[i])
      BY <1>4, <2>2, <3>1
    <3> QED
      BY <3>1, <3>2 DEF QuietIn, Once
  <2>3. \A i \in Inputs : HoldsFrame(i)' => inFrame'[i] = inFrame[i]
    BY DEF QuietIn
  <2>4. \A i \in Inputs : inThread'[i] = "push" => cbOut'[i] \in Outputs
    BY DEF QuietIn, Once
  <2>5. \A o \in Outputs : Distinct(o)'
    BY DEF QuietOut, QuietQueues, Once
  <2>6. \A o \in Outputs, h \in Int : /\ ~(Queued(o, h)' /\ Sending(o, h)')
                                      /\ ~(Queued(o, h)' /\ h \in kept'[o])
                                      /\ ~(Sending(o, h)' /\ h \in kept'[o])
    BY <1>4 DEF QuietOut, Once
  <2>7. ASSUME NEW i \in Inputs, NEW o \in Outputs, HoldsFrame(i)', Touches(o, inFrame[i])'
        PROVE  inThread'[i] \in {"send", "push"} /\ o < cbOut'[i]
    <3>1. PICK h : h = inFrame[i]
      OBVIOUS
    <3>2. Touches(o, h)'
      BY <2>3, <2>7, <3>1
    <3> QED
      BY <2>2, <2>7, <3>1, <3>2
  <2> QED
    BY <2>1, <2>4, <2>5, <2>6, <2>7 DEF Once
<1>6. Pointers'
  BY <1>1, <1>3, PointersKept DEF QuietIn, QuietOut
<1> QED
  BY <1>3, <1>5, <1>6 DEF PoolMoves

(***************************************************************************)
(* The steps of the thread of an input that move a reference.              *)
(***************************************************************************)
\* While no output moves the references of the outputs stay.
LEMMA OutputsStay ==
  ASSUME UNCHANGED outVars
  PROVE  \A h \in Int :
           /\ QueuedAt(h)' = QueuedAt(h) /\ OutputRefs(h)' = OutputRefs(h) /\ KeptAt(h)' = KeptAt(h)
           /\ \A o \in Outputs : /\ Queued(o, h)' <=> Queued(o, h)
                                 /\ Sending(o, h)' <=> Sending(o, h)
                                 /\ Touches(o, h)' <=> Touches(o, h)
BY DEF outVars, QueuedAt, OutputRefs, KeptAt, Queued, Sending, Touches

\* The thread gives the reference of its frame back: after a failed read, while
\* stop() runs, or at the end of the callback.
LEMMA InDrops ==
  ASSUME ControlInv, ControlInv', RefsInv, NEW i \in Inputs,
         inThread[i] \in {"check", "tick", "send"},
         NEW t \in {"end", "loop"}, inThread' = [inThread EXCEPT ![i] = t],
         FrameRelease(inFrame[i]), UNCHANGED <<inFrame, inPtr, cbOut, outVars>>
  PROVE  RefsInv' /\ Moved
<1> USE DEF RefsInv
<1>1. ThreadTypes /\ ThreadTypes' /\ QueueTypes
  BY DEF ControlInv
<1>2. PICK h \in Nat : h = inFrame[i]
  BY <1>1 DEF QueueTypes, HoldsFrame
<1>3. Live(h)
  BY <1>2, UsedIsLive DEF HoldsFrame
<1>4. /\ inThread'[i] = t /\ ~HoldsFrame(i)' /\ inThread'[i] # "push"
      /\ \A j \in Inputs \ {i} : inThread'[j] = inThread[j] /\ (HoldsFrame(j)' <=> HoldsFrame(j))
      /\ inThread \in [Inputs -> InThreads]
  BY <1>1 DEF ThreadTypes, HoldsFrame
<1>5. \A g \in Int : /\ g # h => InputRefs(g)' = InputRefs(g)
                     /\ g = h => InputRefs(g)' = InputRefs(g) \ {i} /\ i \in InputRefs(g)
                     /\ SendRefs(g)' = SendRefs(g)
  <2> SUFFICES ASSUME NEW g \in Int
               PROVE  /\ g # h => InputRefs(g)' = InputRefs(g)
                      /\ g = h => InputRefs(g)' = InputRefs(g) \ {i} /\ i \in InputRefs(g)
                      /\ SendRefs(g)' = SendRefs(g)
    OBVIOUS
  <2>1. \A j \in Inputs \ {i} : j \in InputRefs(g)' <=> j \in InputRefs(g)
    BY <1>4 DEF InputRefs
  <2>2. i \notin InputRefs(g)' /\ (i \in InputRefs(g) <=> g = h)
    BY <1>2, <1>4 DEF InputRefs
  <2>3. InputRefs(g) \subseteq Inputs /\ InputRefs(g)' \subseteq Inputs
    BY DEF InputRefs
  <2>4. SendRefs(g)' = SendRefs(g)
    BY <1>4 DEF SendRefs
  <2> QED
    BY <2>1, <2>2, <2>3, <2>4
<1>6. Count(h)' = Count(h) - 1
  <2>1. Cardinality(InputRefs(h)') = Cardinality(InputRefs(h)) - 1
    BY <1>5, CountIsNat, OneLess
  <2> QED
    BY <1>5, <2>1, OutputsStay, CountIsNat DEF Count
<1>7. \A g \in Int \ {h} : Count(g)' = Count(g)
  BY <1>5, OutputsStay DEF Count
<1>8. PoolMoves
  BY <1>2, <1>3, <1>6, <1>7, ReleaseMoves
<1>9. RefTypes'
  BY DEF RefTypes, outVars
<1>10. Once'
  <2>1. \A j, l \in Inputs : HoldsFrame(j)' /\ HoldsFrame(l)' /\ inFrame'[j] = inFrame'[l] => j = l
    BY <1>4 DEF Once
  <2>2. ASSUME NEW j \in Inputs, NEW o \in Outputs, HoldsFrame(j)', Touches(o, inFrame[j])'
        PROVE  inThread'[j] \in {"send", "push"} /\ o < cbOut'[j]
    <3>1. j # i /\ HoldsFrame(j) /\ inThread'[j] = inThread[j]
      BY <1>4, <2>2
    <3>2. Touches(o, inFrame[j])
      BY <2>2 DEF Touches, Queued, Sending, outVars
    <3> QED
      BY <2>2, <3>1, <3>2 DEF Once
  <2>3. \A j \in Inputs : inThread'[j] = "push" => cbOut'[j] \in Outputs
    BY <1>4 DEF Once
  <2>4. \A o \in Outputs : Distinct(o)'
    BY DEF Once, Distinct, outVars
  <2>5. \A o \in Outputs, g \in Int : /\ ~(Queued(o, g)' /\ Sending(o, g)')
                                      /\ ~(Queued(o, g)' /\ g \in kept'[o])
                                      /\ ~(Sending(o, g)' /\ g \in kept'[o])
    BY DEF Once, Queued, Sending, outVars
  <2> QED
    BY <2>1, <2>2, <2>3, <2>4, <2>5 DEF Once
<1>11. Pointers'
  <2>1. \A j \in Inputs : HoldsFrame(j)' => HoldsFrame(j) /\ inFrame'[j] = inFrame[j] /\ inPtr'[j] = inPtr[j]
    BY <1>4
  <2> QED
    BY <1>1, <1>8, <1>9, <2>1, PointersKept DEF outVars
<1> QED
  BY <1>8, <1>9, <1>10, <1>11 DEF PoolMoves

\* libvmi_frame_create finds an item.
LEMMA InCreates ==
  ASSUME ControlInv, ControlInv', RefsInv, NEW i \in Inputs,
         inThread[i] = "loop", inThread' = [inThread EXCEPT ![i] = "read"],
         NEW h \in Nat, h = nextHandle, FrameCreate(h),
         inFrame' = [inFrame EXCEPT ![i] = h],
         inPtr' = [inPtr EXCEPT ![i] = FrameGet(h)'],
         UNCHANGED <<cbOut, outVars>>
  PROVE  RefsInv' /\ Moved
<1> USE DEF RefsInv
<1>1. ThreadTypes /\ ThreadTypes' /\ QueueTypes
  BY DEF ControlInv
<1>4. /\ inThread'[i] = "read" /\ HoldsFrame(i)' /\ ~HoldsFrame(i) /\ inFrame'[i] = h
      /\ \A j \in Inputs \ {i} : /\ inThread'[j] = inThread[j] /\ (HoldsFrame(j)' <=> HoldsFrame(j))
                                 /\ inFrame'[j] = inFrame[j]
      /\ inThread \in [Inputs -> InThreads] /\ inFrame \in [Inputs -> Int]
  BY <1>1 DEF ThreadTypes, HoldsFrame
<1>3. /\ \A j \in Inputs : HoldsFrame(j) => inFrame[j] # h
      /\ \A o \in Outputs : ~Touches(o, h)
  BY <1>4, UsedIsLive
<1>5. \A g \in Int : /\ g # h => InputRefs(g)' = InputRefs(g)
                     /\ g = h => InputRefs(g)' = InputRefs(g) \cup {i} /\ i \notin InputRefs(g)
                     /\ SendRefs(g)' = SendRefs(g)
  <2> SUFFICES ASSUME NEW g \in Int
               PROVE  /\ g # h => InputRefs(g)' = InputRefs(g)
                      /\ g = h => InputRefs(g)' = InputRefs(g) \cup {i} /\ i \notin InputRefs(g)
                      /\ SendRefs(g)' = SendRefs(g)
    OBVIOUS
  <2>1. \A j \in Inputs \ {i} : j \in InputRefs(g)' <=> j \in InputRefs(g)
    BY <1>4 DEF InputRefs
  <2>2. i \notin InputRefs(g) /\ (i \in InputRefs(g)' <=> g = h)
    BY <1>4 DEF InputRefs
  <2>3. InputRefs(g) \subseteq Inputs /\ InputRefs(g)' \subseteq Inputs
    BY DEF InputRefs
  <2>4. SendRefs(g)' = SendRefs(g)
    BY <1>4 DEF SendRefs
  <2> QED
    BY <2>1, <2>2, <2>3, <2>4
<1>6. Count(h)' = Count(h) + 1
  <2>1. Cardinality(InputRefs(h)') = Cardinality(InputRefs(h)) + 1
    <3>1. InputRefs(h)' = InputRefs(h) \cup {i} /\ i \notin InputRefs(h)
      BY <1>5
    <3>2. IsFiniteSet(InputRefs(h))
      BY CountIsNat
    <3> QED
      BY <3>1, <3>2, OneMore
  <2> QED
    BY <1>5, <2>1, OutputsStay, CountIsNat DEF Count
<1>7. \A g \in Int \ {h} : Count(g)' = Count(g)
  BY <1>5, OutputsStay DEF Count
<1>8. PoolMoves /\ Live(h)'
  BY <1>6, <1>7, CreateMoves
<1>2. /\ FrameGet(h)' \in 1 .. MaxFrames /\ FrameGet(h)' \in DOMAIN items'
      /\ \A k : k = FrameGet(h)' => items'[k].handle = h
  BY <1>8, GetLiveNow DEF PoolMoves, GetLive
<1>9. RefTypes'
  BY <1>2, <1>8 DEF RefTypes, outVars, PoolMoves
<1>10. Once'
  <2>1. \A j, l \in Inputs : HoldsFrame(j)' /\ HoldsFrame(l)' /\ inFrame'[j] = inFrame'[l] => j = l
    BY <1>3, <1>4 DEF Once
  <2>2. ASSUME NEW j \in Inputs, NEW o \in Outputs, HoldsFrame(j)', Touches(o, inFrame[j])'
        PROVE  inThread'[j] \in {"send", "push"} /\ o < cbOut'[j]
    <3>1. Touches(o, inFrame'[j])
      BY <2>2 DEF Touches, Queued, Sending, outVars
    <3>2. j # i
      BY <1>3, <1>4, <3>1
    <3> QED
      BY <1>4, <2>2, <3>1, <3>2 DEF Once
  <2>3. \A j \in Inputs : inThread'[j] = "push" => cbOut'[j] \in Outputs
    BY <1>4 DEF Once
  <2>4. \A o \in Outputs : Distinct(o)'
    BY DEF Once, Distinct, outVars
  <2>5. \A o \in Outputs, g \in Int : /\ ~(Queued(o, g)' /\ Sending(o, g)')
                                      /\ ~(Queued(o, g)' /\ g \in kept'[o])
                                      /\ ~(Sending(o, g)' /\ g \in kept'[o])
    BY DEF Once, Queued, Sending, outVars
  <2> QED
    BY <2>1, <2>2, <2>3, <2>4, <2>5 DEF Once
<1>11. Pointers'
  <2>1. \A j \in Inputs \ {i} : inPtr'[j] = inPtr[j]
    BY DEF RefTypes
  <2>2. inPtr'[i] \in DOMAIN items' /\ items'[inPtr'[i]].handle = inFrame'[i]
    BY <1>2, <1>4, <1>8 DEF PoolMoves, RefTypes
  <2>3. \A j \in Inputs : HoldsFrame(j)' =>
           \/ HoldsFrame(j) /\ inFrame'[j] = inFrame[j] /\ inPtr'[j] = inPtr[j]
           \/ inPtr'[j] \in DOMAIN items' /\ items'[inPtr'[j]].handle = inFrame'[j]
    BY <1>4, <2>1, <2>2
  <2> QED
    BY <1>1, <1>8, <1>9, <2>3, PointersKept DEF outVars
<1> QED
  BY <1>8, <1>9, <1>10, <1>11 DEF PoolMoves

\* libvMI_send takes a reference for the output it is about to queue the frame at.
LEMMA InSends ==
  ASSUME ControlInv, ControlInv', RefsInv, NEW i \in Inputs,
         inThread[i] = "send", inThread' = [inThread EXCEPT ![i] = "push"], cbOut[i] \in Outputs,
         FrameAddRef(inFrame[i]), UNCHANGED <<inFrame, inPtr, cbOut, outVars>>
  PROVE  RefsInv' /\ Moved
<1> USE DEF RefsInv
<1>1. ThreadTypes /\ ThreadTypes' /\ QueueTypes
  BY DEF ControlInv
<1>2. PICK h \in Nat : h = inFrame[i]
  BY <1>1 DEF QueueTypes, HoldsFrame
<1>3. Live(h)
  BY <1>2, UsedIsLive DEF HoldsFrame
<1>4. /\ inThread'[i] = "push" /\ HoldsFrame(i) /\ HoldsFrame(i)'
      /\ \A j \in Inputs \ {i} : inThread'[j] = inThread[j] /\ (HoldsFrame(j)' <=> HoldsFrame(j))
      /\ inThread \in [Inputs -> InThreads]
  BY <1>1 DEF ThreadTypes, HoldsFrame
<1>5. \A g \in Int : /\ InputRefs(g)' = InputRefs(g)
                     /\ g # h => SendRefs(g)' = SendRefs(g)
                     /\ g = h => SendRefs(g)' = SendRefs(g) \cup {i} /\ i \notin SendRefs(g)
  <2> SUFFICES ASSUME NEW g \in Int
               PROVE  /\ InputRefs(g)' = InputRefs(g)
                      /\ g # h => SendRefs(g)' = SendRefs(g)
                      /\ g = h => SendRefs(g)' = SendRefs(g) \cup {i} /\ i \notin SendRefs(g)
    OBVIOUS
  <2>1. \A j \in Inputs \ {i} : j \in SendRefs(g)' <=> j \in SendRefs(g)
    BY <1>4 DEF SendRefs
  <2>2. i \notin SendRefs(g) /\ (i \in SendRefs(g)' <=> g = h)
    BY <1>2, <1>4 DEF SendRefs
  <2>3. SendRefs(g) \subseteq Inputs /\ SendRefs(g)' \subseteq Inputs
    BY DEF SendRefs
  <2>4. InputRefs(g)' = InputRefs(g)
    BY <1>4 DEF InputRefs, HoldsFrame
  <2> QED
    BY <2>1, <2>2, <2>3, <2>4
<1>6. Count(h)' = Count(h) + 1
  <2>1. SendRefs(h)' = SendRefs(h) \cup {i} /\ i \notin SendRefs(h) /\ IsFiniteSet(SendRefs(h))
    BY <1>5, CountIsNat
  <2>2. Cardinality(SendRefs(h)') = Cardinality(SendRefs(h)) + 1
    BY <2>1, OneMore
  <2> QED
    BY <1>5, <2>2, OutputsStay, CountIsNat DEF Count
<1>7. \A g \in Int \ {h} : Count(g)' = Count(g)
  BY <1>5, OutputsStay DEF Count
<1>8. PoolMoves
  BY <1>2, <1>3, <1>6, <1>7, AddRefMoves
<1>9. RefTypes'
  BY DEF RefTypes, outVars
<1>10. Once'
  <2>1. \A j, l \in Inputs : HoldsFrame(j)' /\ HoldsFrame(l)' /\ inFrame'[j] = inFrame'[l] => j = l
    BY <1>4 DEF Once
  <2>2. ASSUME NEW j \in Inputs, NEW o \in Outputs, HoldsFrame(j)', Touches(o, inFrame[j])'
        PROVE  inThread'[j] \in {"send", "push"} /\ o < cbOut'[j]
    <3>1. HoldsFrame(j) /\ (inThread'[j] = inThread[j] \/ inThread'[j] = "push")
      BY <1>4, <2>2
    <3>2. Touches(o, inFrame[j])
      BY <2>2 DEF Touches, Queued, Sending, outVars
    <3> QED
      BY <2>2, <3>1, <3>2 DEF Once
  <2>3. \A j \in Inputs : inThread'[j] = "push" => cbOut'[j] \in Outputs
    BY <1>4 DEF Once
  <2>4. \A o \in Outputs : Distinct(o)'
    BY DEF Once, Distinct, outVars
  <2>5. \A o \in Outputs, g \in Int : /\ ~(Queued(o, g)' /\ Sending(o, g)')
                                      /\ ~(Queued(o, g)' /\ g \in kept'[o])
                                      /\ ~(Sending(o, g)' /\ g \in kept'[o])
    BY DEF Once, Queued, Sending, outVars
  <2> QED
    BY <2>1, <2>2, <2>3, <2>4, <2>5 DEF Once
<1>11. Pointers'
  <2>1. \A j \in Inputs : HoldsFrame(j)' => HoldsFrame(j) /\ inFrame'[j] = inFrame[j] /\ inPtr'[j] = inPtr[j]
    BY <1>4
  <2> QED
    BY <1>1, <1>8, <1>9, <2>1, PointersKept DEF outVars
<1> QED
  BY <1>8, <1>9, <1>10, <1>11 DEF PoolMoves

LEMMA EntriesDiffer ==
  /\ \A g, h \in Int : FrameEntry(g) = FrameEntry(h) => g = h
  /\ \A h \in Int : FrameEntry(h) # StopEntry
<1>1. \A g : FrameEntry(g).frame = g /\ FrameEntry(g).marker = FALSE
  BY DEF FrameEntry
<1>2. StopEntry.marker = TRUE
  BY DEF StopEntry
<1> QED
  BY <1>1, <1>2

\* An entry at the end of a queue.
LEMMA PushAdds ==
  ASSUME QueueTypes, NEW o \in Outputs, NEW e \in Entries, Push(o, e)
  PROVE  /\ \A p \in Outputs \ {o} : outQueue'[p] = outQueue[p]
         /\ outQueue'[o] = Append(outQueue[o], e)
         /\ Len(outQueue'[o]) = Len(outQueue[o]) + 1 /\ Len(outQueue[o]) \in Nat
         /\ DOMAIN outQueue'[o] = 1 .. Len(outQueue[o]) + 1 /\ DOMAIN outQueue[o] = 1 .. Len(outQueue[o])
         /\ outQueue'[o][Len(outQueue[o]) + 1] = e
         /\ \A n \in DOMAIN outQueue[o] : outQueue'[o][n] = outQueue[o][n]
         /\ \A p \in Outputs, h \in Int : Queued(p, h)' <=> Queued(p, h) \/ (p = o /\ e = FrameEntry(h))
         /\ \A p \in Outputs : Distinct(p) /\ (p = o => \A h \in Int : e = FrameEntry(h) => ~Queued(o, h))
                                 => Distinct(p)'
<1>1. outQueue \in [Outputs -> Seq(Entries)] /\ outQueue' = [outQueue EXCEPT ![o] = Append(@, e)]
  BY DEF QueueTypes, Push
<1>2. /\ \A p \in Outputs \ {o} : outQueue'[p] = outQueue[p]
      /\ outQueue'[o] = Append(outQueue[o], e) /\ outQueue[o] \in Seq(Entries)
  BY <1>1
<1>3. /\ Len(outQueue'[o]) = Len(outQueue[o]) + 1 /\ Len(outQueue[o]) \in Nat
      /\ DOMAIN outQueue'[o] = 1 .. Len(outQueue[o]) + 1 /\ DOMAIN outQueue[o] = 1 .. Len(outQueue[o])
      /\ outQueue'[o][Len(outQueue[o]) + 1] = e
      /\ \A n \in DOMAIN outQueue[o] : outQueue'[o][n] = outQueue[o][n]
  BY <1>2
<1>4. DOMAIN outQueue'[o] = DOMAIN outQueue[o] \cup {Len(outQueue[o]) + 1}
  BY <1>3
<1>5. ASSUME NEW p \in Outputs, NEW h \in Int
      PROVE  Queued(p, h)' <=> Queued(p, h) \/ (p = o /\ e = FrameEntry(h))
  <2>1. CASE p = o
    BY <1>3, <1>4, <2>1 DEF Queued
  <2>2. CASE p # o
    BY <1>2, <2>2 DEF Queued
  <2> QED
    BY <2>1, <2>2
<1>6. ASSUME NEW p \in Outputs, Distinct(p),
             p = o => \A h \in Int : e = FrameEntry(h) => ~Queued(o, h)
      PROVE  Distinct(p)'
  <2>1. CASE p = o
    <3>1. ASSUME NEW n \in DOMAIN outQueue[o], e # StopEntry PROVE outQueue[o][n] # e
      BY <1>6, <2>1, <3>1 DEF Queued, Entries
    <3>2. ASSUME NEW m \in DOMAIN outQueue'[o], NEW n \in DOMAIN outQueue'[o],
                 outQueue'[o][m] = outQueue'[o][n], outQueue'[o][m] # StopEntry
          PROVE  m = n
      BY <1>3, <1>4, <1>6, <2>1, <3>1, <3>2 DEF Distinct
    <3> QED
      BY <2>1, <3>2 DEF Distinct
  <2>2. CASE p # o
    BY <1>2, <1>6, <2>2 DEF Distinct
  <2> QED
    BY <2>1, <2>2
<1> QED
  BY <1>2, <1>3, <1>5, <1>6

\* ... and queues the handle, which then carries the reference.
LEMMA InPushes ==
  ASSUME ControlInv, ControlInv', RefsInv, NEW i \in Inputs,
         inThread[i] = "push", inThread' = [inThread EXCEPT ![i] = "send"],
         Push(cbOut[i], FrameEntry(inFrame[i])),
         cbOut' = [cbOut EXCEPT ![i] = @ + 1],
         UNCHANGED <<poolVars, inFrame, inPtr, outThread, outFrame, outPtr, kept>>
  PROVE  RefsInv' /\ Moved
<1> USE DEF RefsInv
<1>1. ThreadTypes /\ ThreadTypes' /\ QueueTypes
  BY DEF ControlInv
<1>2. PICK h \in Nat : h = inFrame[i]
  BY <1>1 DEF QueueTypes, HoldsFrame
<1>3. PICK q \in Outputs : q = cbOut[i]
  BY DEF Once
<1>4. /\ inThread'[i] = "send" /\ HoldsFrame(i) /\ HoldsFrame(i)' /\ cbOut'[i] = q + 1
      /\ \A j \in Inputs \ {i} : /\ inThread'[j] = inThread[j] /\ (HoldsFrame(j)' <=> HoldsFrame(j))
                                 /\ cbOut'[j] = cbOut[j]
      /\ inThread \in [Inputs -> InThreads]
  BY <1>1, <1>3 DEF ThreadTypes, HoldsFrame
<1>5. ~Touches(q, h)
  <2>1. q \in Nat
    BY Pins
  <2> QED
    BY <1>2, <1>3, <1>4, <2>1 DEF Once
<1>6. /\ \A p \in Outputs, g \in Int : Queued(p, g)' <=> Queued(p, g) \/ (p = q /\ g = h)
      /\ \A p \in Outputs : Distinct(p)'
      /\ \A p \in Outputs, g \in Int : Sending(p, g)' <=> Sending(p, g)
      /\ \A p \in Outputs, g \in Int : Touches(p, g)' <=> Touches(p, g) \/ (p = q /\ g = h)
  <2>1. FrameEntry(h) \in Entries /\ Push(q, FrameEntry(h))
    BY <1>2, <1>3 DEF Entries
  <2>2. \A p \in Outputs, g \in Int : Queued(p, g)' <=> Queued(p, g) \/ (p = q /\ FrameEntry(h) = FrameEntry(g))
    BY <1>1, <2>1, PushAdds
  <2>3. \A g \in Int : FrameEntry(h) = FrameEntry(g) <=> g = h
    BY EntriesDiffer
  <2>4. \A p \in Outputs, g \in Int : Queued(p, g)' <=> Queued(p, g) \/ (p = q /\ g = h)
    BY <2>2, <2>3
  <2>5. ~Queued(q, h)
    BY <1>5 DEF Touches
  <2>6. \A p \in Outputs : Distinct(p)'
    BY <1>1, <2>1, <2>3, <2>5, PushAdds DEF Once
  <2>7. \A p \in Outputs, g \in Int : Sending(p, g)' <=> Sending(p, g)
    BY DEF Sending
  <2> QED
    BY <2>4, <2>6, <2>7 DEF Touches
<1>7. \A g \in Int : /\ InputRefs(g)' = InputRefs(g) /\ OutputRefs(g)' = OutputRefs(g) /\ KeptAt(g)' = KeptAt(g)
                     /\ g # h => SendRefs(g)' = SendRefs(g) /\ QueuedAt(g)' = QueuedAt(g)
                     /\ g = h => /\ SendRefs(g)' = SendRefs(g) \ {i} /\ i \in SendRefs(g)
                                 /\ QueuedAt(g)' = QueuedAt(g) \cup {q} /\ q \notin QueuedAt(g)
  <2> SUFFICES ASSUME NEW g \in Int
               PROVE  /\ InputRefs(g)' = InputRefs(g) /\ OutputRefs(g)' = OutputRefs(g) /\ KeptAt(g)' = KeptAt(g)
                      /\ g # h => SendRefs(g)' = SendRefs(g) /\ QueuedAt(g)' = QueuedAt(g)
                      /\ g = h => /\ SendRefs(g)' = SendRefs(g) \ {i} /\ i \in SendRefs(g)
                                  /\ QueuedAt(g)' = QueuedAt(g) \cup {q} /\ q \notin QueuedAt(g)
    OBVIOUS
  <2>1. \A j \in Inputs \ {i} : j \in SendRefs(g)' <=> j \in SendRefs(g)
    BY <1>4 DEF SendRefs
  <2>2. i \notin SendRefs(g)' /\ (i \in SendRefs(g) <=> g = h)
    BY <1>2, <1>4 DEF SendRefs
  <2>3. SendRefs(g) \subseteq Inputs /\ SendRefs(g)' \subseteq Inputs
    BY DEF SendRefs
  <2>4. InputRefs(g)' = InputRefs(g)
    BY <1>4 DEF InputRefs, HoldsFrame
  <2>5. OutputRefs(g)' = OutputRefs(g) /\ KeptAt(g)' = KeptAt(g)
    BY DEF OutputRefs, KeptAt
  <2>6. \A p \in Outputs : p \in QueuedAt(g)' <=> p \in QueuedAt(g) \/ (p = q /\ g = h)
    BY <1>6 DEF QueuedAt
  <2>7. QueuedAt(g) \subseteq Outputs /\ QueuedAt(g)' \subseteq Outputs /\ (g = h => q \notin QueuedAt(g))
    BY <1>5 DEF QueuedAt, Touches
  <2>8. SendRefs(g)' = IF g = h THEN SendRefs(g) \ {i} ELSE SendRefs(g)
    BY <2>1, <2>2, <2>3
  <2>9. QueuedAt(g)' = IF g = h THEN QueuedAt(g) \cup {q} ELSE QueuedAt(g)
    BY <2>6, <2>7
  <2> QED
    BY <2>2, <2>4, <2>5, <2>7, <2>8, <2>9
<1>8. \A g \in Int : Count(g)' = Count(g)
  <2> SUFFICES ASSUME NEW g \in Int PROVE Count(g)' = Count(g)
    OBVIOUS
  <2>1. CASE g # h
    BY <1>7, <2>1 DEF Count
  <2>2. CASE g = h
    <3>1. /\ SendRefs(g)' = SendRefs(g) \ {i} /\ i \in SendRefs(g)
          /\ QueuedAt(g)' = QueuedAt(g) \cup {q} /\ q \notin QueuedAt(g)
          /\ IsFiniteSet(SendRefs(g)) /\ IsFiniteSet(QueuedAt(g))
      BY <1>7, <2>2, CountIsNat
    <3>2. Cardinality(SendRefs(g)') = Cardinality(SendRefs(g)) - 1
      BY <3>1, OneLess
    <3>3. Cardinality(QueuedAt(g)') = Cardinality(QueuedAt(g)) + 1
      BY <3>1, OneMore
    <3> QED
      BY <1>7, <3>2, <3>3, CountIsNat DEF Count
  <2> QED
    BY <2>1, <2>2
<1>9. PoolMoves
  BY <1>8, StillMoves
<1>10. RefTypes'
  BY DEF RefTypes
<1>11. Once'
  <2>1. \A j, l \in Inputs : HoldsFrame(j)' /\ HoldsFrame(l)' /\ inFrame'[j] = inFrame'[l] => j = l
    BY <1>4 DEF Once
  <2>2. ASSUME NEW j \in Inputs, NEW o \in Outputs, HoldsFrame(j)', Touches(o, inFrame[j])'
        PROVE  inThread'[j] \in {"send", "push"} /\ o < cbOut'[j]
    <3>1. PICK g \in Int : g = inFrame[j] /\ inFrame'[j] = g
      BY <1>1 DEF ThreadTypes
    <3>2. Touches(o, g)'
      BY <2>2, <3>1
    <3>3. Touches(o, g) \/ (o = q /\ g = h)
      BY <1>6, <3>2
    <3>4. CASE j = i
      <4>1. q \in Nat /\ o \in Nat
        BY Pins
      <4>2. Touches(o, g) => o < q
        BY <1>3, <1>4, <3>1, <3>4 DEF Once
      <4> QED
        BY <1>4, <3>3, <3>4, <4>1, <4>2
    <3>5. CASE j # i
      <4>1. HoldsFrame(j) /\ g # h
        BY <1>2, <1>4, <2>2, <3>1, <3>5 DEF Once
      <4>2. Touches(o, inFrame[j])
        BY <3>1, <3>3, <4>1
      <4> QED
        BY <1>4, <3>5, <4>1, <4>2 DEF Once
    <3> QED
      BY <3>4, <3>5
  <2>3. \A j \in Inputs : inThread'[j] = "push" => cbOut'[j] \in Outputs
    BY <1>4 DEF Once
  <2>4. \A o \in Outputs : Distinct(o)'
    BY <1>6
  <2>5. \A o \in Outputs, g \in Int : /\ ~(Queued(o, g)' /\ Sending(o, g)')
                                      /\ ~(Queued(o, g)' /\ g \in kept'[o])
                                      /\ ~(Sending(o, g)' /\ g \in kept'[o])
    BY <1>5, <1>6 DEF Once, Touches
  <2> QED
    BY <2>1, <2>2, <2>3, <2>4, <2>5 DEF Once
<1>12. Pointers'
  <2>1. \A j \in Inputs : HoldsFrame(j)' => HoldsFrame(j) /\ inFrame'[j] = inFrame[j] /\ inPtr'[j] = inPtr[j]
    BY <1>4
  <2> QED
    BY <1>1, <1>9, <1>10, <2>1, PointersKept
<1> QED
  BY <1>9, <1>10, <1>11, <1>12 DEF PoolMoves

(***************************************************************************)
(* The steps of the thread of an output that move a reference.             *)
(***************************************************************************)
\* An entry taken from the front of a queue.
LEMMA PopTakes ==
  ASSUME QueueTypes, NEW o \in Outputs, outQueue[o] # << >>,
         outQueue' = [outQueue EXCEPT ![o] = Tail(@)],
         NEW e, e = Head(outQueue[o])
  PROVE  /\ e \in Entries /\ e = outQueue[o][1] /\ 1 \in DOMAIN outQueue[o]
         /\ \A p \in Outputs \ {o} : outQueue'[p] = outQueue[p]
         /\ Len(outQueue[o]) \in Nat \ {0} /\ Len(outQueue'[o]) = Len(outQueue[o]) - 1
         /\ DOMAIN outQueue'[o] = 1 .. Len(outQueue[o]) - 1 /\ DOMAIN outQueue[o] = 1 .. Len(outQueue[o])
         /\ \A n \in DOMAIN outQueue'[o] : outQueue'[o][n] = outQueue[o][n + 1]
         /\ \A p \in Outputs \ {o}, h \in Int : Queued(p, h)' <=> Queued(p, h)
         /\ \A h \in Int : Queued(o, h) <=> Queued(o, h)' \/ e = FrameEntry(h)
         /\ \A p \in Outputs : Distinct(p) => Distinct(p)'
         /\ \A h \in Int : Distinct(o) /\ e = FrameEntry(h) => ~Queued(o, h)'
<1>1. outQueue \in [Outputs -> Seq(Entries)]
  BY DEF QueueTypes
<1>2. /\ \A p \in Outputs \ {o} : outQueue'[p] = outQueue[p]
      /\ outQueue'[o] = Tail(outQueue[o]) /\ outQueue[o] \in Seq(Entries)
  BY <1>1
<1>3. /\ Len(outQueue[o]) \in Nat \ {0} /\ Len(outQueue'[o]) = Len(outQueue[o]) - 1
      /\ DOMAIN outQueue'[o] = 1 .. Len(outQueue[o]) - 1 /\ DOMAIN outQueue[o] = 1 .. Len(outQueue[o])
      /\ \A n \in DOMAIN outQueue'[o] : outQueue'[o][n] = outQueue[o][n + 1]
      /\ e = outQueue[o][1] /\ e \in Entries
  <2>1. PICK q \in Seq(Entries) : q = outQueue[o]
    BY <1>2
  <2>2. q # << >> /\ outQueue'[o] = Tail(q) /\ e = Head(q)
    BY <1>2, <2>1
  <2>3. /\ Len(q) \in Nat \ {0} /\ Len(Tail(q)) = Len(q) - 1
        /\ DOMAIN Tail(q) = 1 .. Len(q) - 1 /\ DOMAIN q = 1 .. Len(q)
    BY <2>2
  <2>4. \A n \in 1 .. Len(q) - 1 : Tail(q)[n] = q[n + 1]
    BY <2>2
  <2>5. Head(q) = q[1] /\ Head(q) \in Entries
    BY <2>2
  <2> QED
    BY <2>1, <2>2, <2>3, <2>4, <2>5
<1>4. \A n \in DOMAIN outQueue[o] : n = 1 \/ n - 1 \in DOMAIN outQueue'[o]
  BY <1>3
<1>5. ASSUME NEW h \in Int
      PROVE  Queued(o, h) <=> Queued(o, h)' \/ e = FrameEntry(h)
  <2>1. ASSUME Queued(o, h), e # FrameEntry(h) PROVE Queued(o, h)'
    <3>1. PICK n \in DOMAIN outQueue[o] : outQueue[o][n] = FrameEntry(h)
      BY <2>1 DEF Queued
    <3>2. n - 1 \in DOMAIN outQueue'[o] /\ outQueue'[o][n - 1] = outQueue[o][n]
      BY <1>3, <1>4, <2>1, <3>1
    <3> QED
      BY <3>1, <3>2 DEF Queued
  <2>2. ASSUME Queued(o, h)' PROVE Queued(o, h)
    <3>1. PICK n \in DOMAIN outQueue'[o] : outQueue'[o][n] = FrameEntry(h)
      BY <2>2 DEF Queued
    <3>2. n + 1 \in DOMAIN outQueue[o] /\ outQueue[o][n + 1] = FrameEntry(h)
      BY <1>3, <3>1
    <3> QED
      BY <3>2 DEF Queued
  <2>3. ASSUME e = FrameEntry(h) PROVE Queued(o, h)
    BY <1>3, <2>3 DEF Queued
  <2> QED
    BY <2>1, <2>2, <2>3
<1>6. ASSUME NEW p \in Outputs, Distinct(p) PROVE Distinct(p)'
  <2>1. CASE p = o
    <3>1. ASSUME NEW m \in DOMAIN outQueue'[o], NEW n \in DOMAIN outQueue'[o],
                 outQueue'[o][m] = outQueue'[o][n], outQueue'[o][m] # StopEntry
          PROVE  m = n
      <4>1. /\ m + 1 \in DOMAIN outQueue[o] /\ n + 1 \in DOMAIN outQueue[o] /\ m \in Nat /\ n \in Nat
            /\ outQueue[o][m + 1] = outQueue[o][n + 1] /\ outQueue[o][m + 1] # StopEntry
        BY <1>3, <3>1
      <4>2. m + 1 = n + 1
        BY <1>6, <2>1, <4>1 DEF Distinct
      <4> QED
        BY <4>1, <4>2
    <3> QED
      BY <2>1, <3>1 DEF Distinct
  <2>2. CASE p # o
    BY <1>2, <1>6, <2>2 DEF Distinct
  <2> QED
    BY <2>1, <2>2
<1>7. ASSUME NEW h \in Int, Distinct(o), e = FrameEntry(h), Queued(o, h)' PROVE FALSE
  <2>1. PICK n \in DOMAIN outQueue'[o] : outQueue'[o][n] = FrameEntry(h)
    BY <1>7 DEF Queued
  <2>2. /\ n + 1 \in DOMAIN outQueue[o] /\ 1 \in DOMAIN outQueue[o] /\ n \in Nat \ {0}
        /\ outQueue[o][n + 1] = outQueue[o][1] /\ outQueue[o][1] # StopEntry
    BY <1>3, <1>7, <2>1, EntriesDiffer
  <2>3. n + 1 = 1
    BY <1>7, <2>2 DEF Distinct
  <2> QED
    BY <2>2, <2>3
<1>8. \A p \in Outputs \ {o}, h \in Int : Queued(p, h)' <=> Queued(p, h)
  BY <1>2 DEF Queued
<1> QED
  BY <1>2, <1>3, <1>5, <1>6, <1>7, <1>8

\* While no input moves the references of the inputs stay.
LEMMA InputsStay ==
  ASSUME UNCHANGED <<inVars, cbOut>>
  PROVE  /\ \A h \in Int : InputRefs(h)' = InputRefs(h) /\ SendRefs(h)' = SendRefs(h)
         /\ \A i \in Inputs : /\ HoldsFrame(i)' <=> HoldsFrame(i)
                              /\ inThread'[i] = inThread[i] /\ inFrame'[i] = inFrame[i] /\ inPtr'[i] = inPtr[i]
                              /\ cbOut'[i] = cbOut[i]
BY DEF inVars, InputRefs, SendRefs, HoldsFrame

\* A frame that no output sees for the first time stays where the inputs need it.
LEMMA OnceKept ==
  ASSUME ControlInv, RefsInv, UNCHANGED <<inVars, cbOut>>,
         \A o \in Outputs, h \in Int : Touches(o, h)' => Touches(o, h)
  PROVE  /\ \A i, j \in Inputs : HoldsFrame(i)' /\ HoldsFrame(j)' /\ inFrame'[i] = inFrame'[j] => i = j
         /\ \A i \in Inputs, o \in Outputs : (HoldsFrame(i) /\ Touches(o, inFrame[i]) =>
              inThread[i] \in {"send", "push"} /\ o < cbOut[i])'
         /\ \A i \in Inputs : inThread'[i] = "push" => cbOut'[i] \in Outputs
<1>1. ASSUME NEW i \in Inputs, NEW o \in Outputs, HoldsFrame(i)', Touches(o, inFrame[i])'
      PROVE  inThread'[i] \in {"send", "push"} /\ o < cbOut'[i]
  <2>1. PICK g \in Int : g = inFrame[i] /\ inFrame'[i] = g
    BY InputsStay DEF ControlInv, ThreadTypes
  <2>2. Touches(o, g)'
    BY <1>1, <2>1
  <2>3. Touches(o, inFrame[i])
    BY <2>1, <2>2
  <2> QED
    BY <1>1, <2>3, InputsStay DEF RefsInv, Once
<1>2. \A i, j \in Inputs : HoldsFrame(i)' /\ HoldsFrame(j)' /\ inFrame'[i] = inFrame'[j] => i = j
  BY InputsStay DEF RefsInv, Once
<1>3. \A i \in Inputs : inThread'[i] = "push" => cbOut'[i] \in Outputs
  BY InputsStay DEF RefsInv, Once
<1> QED
  BY <1>1, <1>2, <1>3

\* The thread takes the oldest frame: the reference goes from the queue to it.
LEMMA OutTakes ==
  ASSUME ControlInv, ControlInv', RefsInv, NEW o \in Outputs,
         NEW h \in Nat, outQueue[o] # << >>, Head(outQueue[o]) = FrameEntry(h),
         outThread[o] = "pop", outThread' = [outThread EXCEPT ![o] = "send"],
         outFrame' = [outFrame EXCEPT ![o] = h],
         outPtr' = [outPtr EXCEPT ![o] = FrameGet(h)],
         outQueue' = [outQueue EXCEPT ![o] = Tail(@)],
         UNCHANGED <<poolVars, inVars, cbOut, kept>>
  PROVE  RefsInv' /\ Moved
<1> USE DEF RefsInv
<1>1. ThreadTypes /\ ThreadTypes' /\ QueueTypes
  BY DEF ControlInv
<1>2. PICK e : e = Head(outQueue[o]) /\ e = FrameEntry(h)
  OBVIOUS
<1>3. /\ \A p \in Outputs \ {o}, g \in Int : Queued(p, g)' <=> Queued(p, g)
      /\ \A g \in Int : Queued(o, g) <=> Queued(o, g)' \/ g = h
      /\ \A p \in Outputs : Distinct(p)'
      /\ ~Queued(o, h)'
  <2>1. \A g \in Int : e = FrameEntry(g) <=> g = h
    BY <1>2, EntriesDiffer
  <2>2. /\ \A p \in Outputs \ {o}, g \in Int : Queued(p, g)' <=> Queued(p, g)
        /\ \A g \in Int : Queued(o, g) <=> Queued(o, g)' \/ e = FrameEntry(g)
        /\ \A p \in Outputs : Distinct(p) => Distinct(p)'
        /\ \A g \in Int : Distinct(o) /\ e = FrameEntry(g) => ~Queued(o, g)'
    BY <1>1, <1>2, PopTakes
  <2> QED
    BY <2>1, <2>2 DEF Once
<1>4. /\ \A p \in Outputs \ {o} : /\ outThread'[p] = outThread[p] /\ outFrame'[p] = outFrame[p]
                                  /\ \A g \in Int : Sending(p, g)' <=> Sending(p, g)
      /\ \A g \in Int : ~Sending(o, g) /\ (Sending(o, g)' <=> g = h)
      /\ outThread'[o] = "send" /\ outFrame'[o] = h
  BY <1>1 DEF ThreadTypes, Sending
<1>5. Queued(o, h) /\ ~Sending(o, h) /\ Touches(o, h)
  BY <1>3, <1>4 DEF Touches
<1>6. \A p \in Outputs, g \in Int : Touches(p, g)' <=> Touches(p, g)
  <2>1. ASSUME NEW p \in Outputs, NEW g \in Int PROVE Touches(p, g)' <=> Touches(p, g)
    <3>1. CASE p = o
      BY <1>3, <1>4, <3>1 DEF Touches
    <3>2. CASE p # o
      BY <1>3, <1>4, <3>2 DEF Touches
    <3> QED
      BY <3>1, <3>2
  <2> QED
    BY <2>1
<1>7. \A g \in Int : /\ KeptAt(g)' = KeptAt(g)
                     /\ QueuedAt(g)' = IF g = h THEN QueuedAt(g) \ {o} ELSE QueuedAt(g)
                     /\ OutputRefs(g)' = IF g = h THEN OutputRefs(g) \cup {o} ELSE OutputRefs(g)
                     /\ g = h => o \in QueuedAt(g) /\ o \notin OutputRefs(g)
  <2> SUFFICES ASSUME NEW g \in Int
               PROVE  /\ KeptAt(g)' = KeptAt(g)
                      /\ QueuedAt(g)' = IF g = h THEN QueuedAt(g) \ {o} ELSE QueuedAt(g)
                      /\ OutputRefs(g)' = IF g = h THEN OutputRefs(g) \cup {o} ELSE OutputRefs(g)
                      /\ g = h => o \in QueuedAt(g) /\ o \notin OutputRefs(g)
    OBVIOUS
  <2>1. KeptAt(g)' = KeptAt(g)
    BY DEF KeptAt
  <2>2. /\ \A p \in Outputs : p \in QueuedAt(g)' <=> p \in QueuedAt(g) /\ ~(p = o /\ g = h)
        /\ QueuedAt(g) \subseteq Outputs /\ QueuedAt(g)' \subseteq Outputs
    BY <1>3 DEF QueuedAt
  <2>3. /\ \A p \in Outputs : p \in OutputRefs(g)' <=> p \in OutputRefs(g) \/ (p = o /\ g = h)
        /\ OutputRefs(g) \subseteq Outputs /\ OutputRefs(g)' \subseteq Outputs
    BY <1>4 DEF OutputRefs, Sending
  <2>4. g = h => o \in QueuedAt(g) /\ o \notin OutputRefs(g)
    BY <1>5 DEF QueuedAt, OutputRefs, Sending
  <2> QED
    BY <2>1, <2>2, <2>3, <2>4
<1>8. \A g \in Int : Count(g)' = Count(g)
  <2> SUFFICES ASSUME NEW g \in Int PROVE Count(g)' = Count(g)
    OBVIOUS
  <2>1. CASE g # h
    BY <1>7, <2>1, InputsStay DEF Count
  <2>2. CASE g = h
    <3>1. /\ QueuedAt(g)' = QueuedAt(g) \ {o} /\ o \in QueuedAt(g)
          /\ OutputRefs(g)' = OutputRefs(g) \cup {o} /\ o \notin OutputRefs(g)
          /\ IsFiniteSet(QueuedAt(g)) /\ IsFiniteSet(OutputRefs(g))
      BY <1>7, <2>2, CountIsNat
    <3>2. Cardinality(QueuedAt(g)') = Cardinality(QueuedAt(g)) - 1
      BY <3>1, OneLess
    <3>3. Cardinality(OutputRefs(g)') = Cardinality(OutputRefs(g)) + 1
      BY <3>1, OneMore
    <3>4. InputRefs(g)' = InputRefs(g) /\ SendRefs(g)' = SendRefs(g) /\ KeptAt(g)' = KeptAt(g)
      BY <1>7, InputsStay
    <3> QED
      BY <3>2, <3>3, <3>4, CountIsNat DEF Count
  <2> QED
    BY <2>1, <2>2
<1>9. PoolMoves
  BY <1>8, StillMoves
<1>10. /\ FrameGet(h) \in 1 .. MaxFrames /\ FrameGet(h) \in DOMAIN items
       /\ \A k : k = FrameGet(h) => items[k].handle = h
  <2>1. Live(h)
    BY <1>5, UsedIsLive
  <2> QED
    BY <2>1, GetLiveNow DEF GetLive
<1>11. RefTypes'
  BY <1>10 DEF RefTypes, inVars
<1>12. Once'
  <2>1. \A p \in Outputs, g \in Int : /\ ~(Queued(p, g)' /\ Sending(p, g)')
                                      /\ ~(Queued(p, g)' /\ g \in kept'[p])
                                      /\ ~(Sending(p, g)' /\ g \in kept'[p])
    <3>1. ASSUME NEW p \in Outputs, NEW g \in Int
          PROVE  /\ ~(Queued(p, g)' /\ Sending(p, g)')
                 /\ ~(Queued(p, g)' /\ g \in kept'[p])
                 /\ ~(Sending(p, g)' /\ g \in kept'[p])
      <4>1. CASE p = o
        BY <1>3, <1>4, <1>5, <4>1 DEF Once
      <4>2. CASE p # o
        BY <1>3, <1>4, <4>2 DEF Once
      <4> QED
        BY <4>1, <4>2
    <3> QED
      BY <3>1
  <2> QED
    BY <1>3, <1>6, <2>1, OnceKept DEF Once
<1>13. Pointers'
  <2>1. outPtr'[o] = FrameGet(h)
    BY DEF RefTypes
  <2>2. outPtr'[o] \in DOMAIN items' /\ items'[outPtr'[o]].handle = outFrame'[o] /\ outFrame'[o] \in Nat
    BY <1>4, <1>10, <2>1 DEF poolVars
  <2>3. \A p \in Outputs \ {o} : outPtr'[p] = outPtr[p]
    BY DEF RefTypes
  <2>4. \A p \in Outputs : outThread'[p] \in {"send", "release"} =>
           \/ /\ outThread[p] \in {"send", "release"}
              /\ outFrame'[p] = outFrame[p] /\ outPtr'[p] = outPtr[p]
           \/ outPtr'[p] \in DOMAIN items' /\ items'[outPtr'[p]].handle = outFrame'[p] /\ outFrame'[p] \in Nat
    BY <1>4, <2>2, <2>3
  <2> QED
    BY <1>1, <1>9, <1>11, <2>4, InputsStay, PointersKept
<1> QED
  BY <1>9, <1>11, <1>12, <1>13 DEF PoolMoves

\* The thread leaves its frame: it gives the reference back, or it has thrown and
\* keeps it.
LEMMA OutLeaves ==
  ASSUME ControlInv, ControlInv', RefsInv, NEW o \in Outputs,
         outThread[o] \in {"send", "release"}, outThread' = [outThread EXCEPT ![o] = "loop"],
         UNCHANGED <<inVars, cbOut, outFrame, outPtr, outQueue>>,
         \/ FrameRelease(outFrame[o]) /\ UNCHANGED kept
         \/ UNCHANGED poolVars /\ kept' = [kept EXCEPT ![o] = @ \cup {outFrame[o]}]
  PROVE  RefsInv' /\ Moved
<1> USE DEF RefsInv
<1>1. ThreadTypes /\ ThreadTypes' /\ QueueTypes
  BY DEF ControlInv
<1>2. PICK h \in Nat : h = outFrame[o]
  BY DEF Pointers
<1>3. /\ \A p \in Outputs \ {o} : /\ outThread'[p] = outThread[p]
                                  /\ \A g \in Int : Sending(p, g)' <=> Sending(p, g)
      /\ \A g \in Int : ~Sending(o, g)' /\ (Sending(o, g) <=> g = h)
      /\ outThread'[o] = "loop"
      /\ \A p \in Outputs, g \in Int : Queued(p, g)' <=> Queued(p, g)
      /\ \A p \in Outputs : Distinct(p)' <=> Distinct(p)
  BY <1>1, <1>2 DEF ThreadTypes, Sending, Queued, Distinct
<1>4. Sending(o, h) /\ ~Queued(o, h) /\ h \notin kept[o] /\ Touches(o, h)
  BY <1>3 DEF Once, Touches
<1>5. \A g \in Int : /\ QueuedAt(g)' = QueuedAt(g)
                     /\ OutputRefs(g)' = IF g = h THEN OutputRefs(g) \ {o} ELSE OutputRefs(g)
                     /\ g = h => o \in OutputRefs(g)
  <2> SUFFICES ASSUME NEW g \in Int
               PROVE  /\ QueuedAt(g)' = QueuedAt(g)
                      /\ OutputRefs(g)' = IF g = h THEN OutputRefs(g) \ {o} ELSE OutputRefs(g)
                      /\ g = h => o \in OutputRefs(g)
    OBVIOUS
  <2>1. QueuedAt(g)' = QueuedAt(g)
    BY <1>3 DEF QueuedAt
  <2>2. /\ \A p \in Outputs : p \in OutputRefs(g)' <=> p \in OutputRefs(g) /\ ~(p = o /\ g = h)
        /\ OutputRefs(g) \subseteq Outputs /\ OutputRefs(g)' \subseteq Outputs
    BY <1>3 DEF OutputRefs, Sending
  <2>3. g = h => o \in OutputRefs(g)
    BY <1>4 DEF OutputRefs, Sending
  <2> QED
    BY <2>1, <2>2, <2>3
<1>6. Cardinality(OutputRefs(h)') = Cardinality(OutputRefs(h)) - 1
  <2>1. OutputRefs(h)' = OutputRefs(h) \ {o} /\ o \in OutputRefs(h) /\ IsFiniteSet(OutputRefs(h))
    BY <1>5, CountIsNat
  <2> QED
    BY <2>1, OneLess
<1>7. /\ PoolMoves
      /\ \A p \in Outputs, g \in Int : Touches(p, g)' => Touches(p, g)
      /\ \A p \in Outputs, g \in Int : g \in kept'[p] <=> g \in kept[p] \/ (kept' # kept /\ p = o /\ g = h)
      /\ RefTypes'
  <2>1. CASE FrameRelease(outFrame[o]) /\ UNCHANGED kept
    <3>1. \A g \in Int : KeptAt(g)' = KeptAt(g)
      BY <2>1 DEF KeptAt
    <3>2. Count(h)' = Count(h) - 1
      BY <1>5, <1>6, <3>1, InputsStay, CountIsNat DEF Count
    <3>3. \A g \in Int \ {h} : Count(g)' = Count(g)
      BY <1>5, <3>1, InputsStay DEF Count
    <3>4. Live(h)
      BY <1>4, UsedIsLive
    <3>5. PoolMoves
      BY <1>2, <2>1, <3>2, <3>3, <3>4, ReleaseMoves
    <3>6. \A p \in Outputs, g \in Int : Touches(p, g)' => Touches(p, g)
      BY <1>3, <2>1 DEF Touches
    <3> QED
      BY <2>1, <3>5, <3>6 DEF RefTypes, inVars
  <2>2. CASE UNCHANGED poolVars /\ kept' = [kept EXCEPT ![o] = @ \cup {outFrame[o]}]
    <3>1. \A p \in Outputs, g \in Int : g \in kept'[p] <=> g \in kept[p] \/ (p = o /\ g = h)
      BY <1>2, <2>2 DEF RefTypes
    <3>2. \A g \in Int \ {h} : KeptAt(g)' = KeptAt(g)
      BY <3>1 DEF KeptAt
    <3>3. Cardinality(KeptAt(h)') = Cardinality(KeptAt(h)) + 1
      <4>1. \A p \in Outputs : p \in KeptAt(h)' <=> p \in KeptAt(h) \/ p = o
        BY <3>1 DEF KeptAt
      <4>2. KeptAt(h) \subseteq Outputs /\ KeptAt(h)' \subseteq Outputs /\ o \notin KeptAt(h)
        BY <1>4 DEF KeptAt
      <4>3. KeptAt(h)' = KeptAt(h) \cup {o}
        BY <4>1, <4>2
      <4>4. IsFiniteSet(KeptAt(h))
        BY CountIsNat
      <4> QED
        BY <4>2, <4>3, <4>4, OneMore
    <3>4. Count(h)' = Count(h)
      BY <1>5, <1>6, <3>3, InputsStay, CountIsNat DEF Count
    <3>5. \A g \in Int \ {h} : Count(g)' = Count(g)
      BY <1>5, <3>2, InputsStay DEF Count
    <3>6. PoolMoves
      BY <2>2, <3>4, <3>5, StillMoves
    <3>7. \A p \in Outputs, g \in Int : Touches(p, g)' => Touches(p, g)
      BY <1>3, <1>4, <3>1 DEF Touches
    <3>8. RefTypes'
      BY <1>2, <2>2 DEF RefTypes, inVars
    <3>9. kept' # kept
      <4>1. h \in kept'[o]
        BY <3>1
      <4> QED
        BY <1>4, <4>1
    <3> QED
      BY <3>1, <3>6, <3>7, <3>8, <3>9
  <2> QED
    BY <2>1, <2>2
<1>8. Once'
  <2>1. \A p \in Outputs, g \in Int : /\ ~(Queued(p, g)' /\ Sending(p, g)')
                                      /\ ~(Queued(p, g)' /\ g \in kept'[p])
                                      /\ ~(Sending(p, g)' /\ g \in kept'[p])
    <3>1. ASSUME NEW p \in Outputs, NEW g \in Int
          PROVE  /\ ~(Queued(p, g)' /\ Sending(p, g)')
                 /\ ~(Queued(p, g)' /\ g \in kept'[p])
                 /\ ~(Sending(p, g)' /\ g \in kept'[p])
      <4>1. CASE p = o
        BY <1>3, <1>4, <1>7, <4>1 DEF Once
      <4>2. CASE p # o
        BY <1>3, <1>7, <4>2 DEF Once
      <4> QED
        BY <4>1, <4>2
    <3> QED
      BY <3>1
  <2>2. \A p \in Outputs : Distinct(p)'
    BY <1>3 DEF Once
  <2> QED
    BY <1>7, <2>1, <2>2, OnceKept DEF Once
<1>9. Pointers'
  BY <1>1, <1>3, <1>7, InputsStay, PointersKept
<1> QED
  BY <1>7, <1>8, <1>9 DEF PoolMoves

(***************************************************************************)
(* The order of the frames at one output.                                  *)
(***************************************************************************)
\* A step that neither sends nor queues at the output, nor reads into the object of
\* a frame that is there.
Steady(o) ==
  /\ sent'[o] = sent[o] /\ accepted'[o] = accepted[o] /\ outQueue'[o] = outQueue[o]
  /\ outThread'[o] = "send" <=> outThread[o] = "send"
  /\ outThread[o] = "send" => outPtr'[o] = outPtr[o]

MediaKept(o) ==
  \A k \in DOMAIN items : Touches(o, items[k].handle) => media'[k] = media[k]

\* An item that has the handle of a queued frame had it before the step.
LEMMA QueuedItem ==
  ASSUME ControlInv, RefsInv, Moved, NEW o \in Outputs,
         NEW n \in 1 .. Len(outQueue[o]), ~outQueue[o][n].marker,
         NEW k \in DOMAIN items', items'[k].handle = outQueue[o][n].frame
  PROVE  k \in DOMAIN items /\ items[k].handle = outQueue[o][n].frame /\ Touches(o, items[k].handle)
<1>1. outQueue[o] \in Seq(Entries)
  BY DEF ControlInv, QueueTypes
<1>2. outQueue[o][n] \in Entries /\ n \in DOMAIN outQueue[o]
  BY <1>1
<1>3. PICK h \in Nat : outQueue[o][n] = FrameEntry(h)
  BY <1>2 DEF Entries, StopEntry
<1>4. outQueue[o][n].frame = h
  BY <1>3 DEF FrameEntry
<1>5. Touches(o, h)
  BY <1>2, <1>3 DEF Touches, Queued
<1>6. h \in 0 .. nextHandle - 1
  <2>1. h < nextHandle
    BY <1>5, UsedIsLive
  <2>2. nextHandle \in Nat
    BY DEF RefsInv, PoolShape
  <2> QED
    BY <2>1, <2>2
<1> QED
  BY <1>4, <1>5, <1>6 DEF Moved

LEMMA SendsKept ==
  ASSUME ControlInv, RefsInv, Moved, NEW o \in Outputs, Steady(o), MediaKept(o), Sends(o)
  PROVE  Sends(o)'
<1> USE DEF Steady
<1>1. PICK f \in [0 .. Len(outQueue[o]) -> 0 .. Len(accepted[o])] : Numbers(o, f)
  BY DEF Sends
<1>2. ASSUME NEW n \in 1 .. Len(outQueue[o]), NEW k \in DOMAIN items', ~outQueue[o][n].marker,
             items'[k].handle = outQueue[o][n].frame
      PROVE  accepted[o][f[n]] = media'[k]
  <2>1. k \in DOMAIN items /\ items[k].handle = outQueue[o][n].frame /\ Touches(o, items[k].handle)
    BY <1>2, QueuedItem
  <2> QED
    BY <1>1, <1>2, <2>1 DEF Numbers, MediaKept
<1>3. Numbers(o, f)'
  BY <1>1, <1>2, SMTT(60) DEF Numbers, InHand
<1>4. ASSUME outThread'[o] = "send" PROVE accepted'[o][Len(sent'[o]) + 1] = media'[outPtr'[o]]
  <2>1. outThread[o] = "send" /\ outPtr[o] \in DOMAIN items /\ items[outPtr[o]].handle = outFrame[o]
    BY <1>4 DEF RefsInv, Pointers
  <2>2. media'[outPtr[o]] = media[outPtr[o]]
    BY <2>1 DEF MediaKept, Touches, Sending
  <2> QED
    BY <2>1, <2>2 DEF Sends
<1> QED
  BY <1>1, <1>3, <1>4 DEF Sends

\* A frame, or a marker, is queued.
LEMMA SendsPushed ==
  ASSUME ControlInv, RefsInv, OrderTypes, NEW o \in Outputs, Sends(o),
         NEW e \in Entries, Push(o, e),
         UNCHANGED <<poolVars, media, outThread, outPtr, sent>>,
         NEW m \in Nat,
         accepted'[o] = IF e.marker THEN accepted[o] ELSE Append(accepted[o], m),
         \A k \in DOMAIN items : ~e.marker /\ items[k].handle = e.frame => media[k] = m
  PROVE  Sends(o)'
<1>1. PICK f \in [0 .. Len(outQueue[o]) -> 0 .. Len(accepted[o])] : Numbers(o, f)
  BY DEF Sends
<1>2. PICK len \in Nat : len = Len(outQueue[o])
  BY DEF ControlInv, QueueTypes
<1>3. /\ Len(outQueue'[o]) = len + 1
      /\ outQueue'[o][len + 1] = e
      /\ \A n \in 1 .. len : outQueue'[o][n] = outQueue[o][n]
  BY <1>2, PushAdds DEF ControlInv
<1>4. PICK a \in Nat : a = Len(accepted[o])
  BY DEF OrderTypes
<1>5. /\ Len(accepted'[o]) = a + Weight(e) /\ Weight(e) \in {0, 1}
      /\ \A n \in 1 .. a : accepted'[o][n] = accepted[o][n]
      /\ ~e.marker => accepted'[o][a + 1] = m /\ Weight(e) = 1
  <2>1. accepted[o] \in Seq(Nat)
    BY DEF OrderTypes
  <2>2. CASE e.marker
    BY <1>4, <2>2 DEF Weight
  <2>3. CASE ~e.marker
    <3>1. accepted'[o] = Append(accepted[o], m)
      BY <2>3
    <3> QED
      BY <1>4, <2>1, <2>3, <3>1 DEF Weight
  <2> QED
    BY <2>2, <2>3
<1> DEFINE f2 == [n \in 0 .. len + 1 |-> IF n <= len THEN f[n] ELSE a + Weight(e)]
<1>6. f \in [0 .. len -> 0 .. a] /\ f[len] = a
  BY <1>1, <1>2, <1>4 DEF Numbers
<1>7. /\ f2 \in [0 .. len + 1 -> 0 .. a + Weight(e)]
      /\ \A n \in 0 .. len : f2[n] = f[n]
      /\ f2[len + 1] = a + Weight(e) /\ f2[0] = f[0] /\ f2[len] = a
  BY <1>5, <1>6
<1> HIDE DEF f2
<1>8. \A n \in 1 .. len + 1 : f2[n] = f2[n - 1] + Weight(outQueue'[o][n])
  <2>1. ASSUME NEW n \in 1 .. len PROVE f2[n] = f2[n - 1] + Weight(outQueue'[o][n])
    <3>1. n \in 0 .. len /\ n - 1 \in 0 .. len
      OBVIOUS
    <3>2. f[n] = f[n - 1] + Weight(outQueue[o][n])
      BY <1>1, <1>2 DEF Numbers
    <3> QED
      BY <1>3, <1>7, <3>1, <3>2
  <2>2. f2[len + 1] = f2[len + 1 - 1] + Weight(outQueue'[o][len + 1])
    BY <1>3, <1>7
  <2> QED
    BY <2>1, <2>2
<1>9. ASSUME NEW n \in 1 .. len + 1, NEW k \in DOMAIN items, ~outQueue'[o][n].marker,
             items[k].handle = outQueue'[o][n].frame
      PROVE  accepted'[o][f2[n]] = media[k]
  <2>1. CASE n = len + 1
    BY <1>3, <1>5, <1>7, <1>9, <2>1
  <2>2. CASE n # len + 1
    <3>1. n \in 1 .. len /\ outQueue'[o][n] = outQueue[o][n] /\ f2[n] = f[n]
      BY <1>3, <1>7, <2>2
    <3>2. accepted[o][f[n]] = media[k]
      BY <1>1, <1>2, <1>9, <3>1 DEF Numbers
    <3>3. f[n] = f[n - 1] + 1 /\ f[n - 1] \in Nat /\ f[n] \in 0 .. a
      <4>1. f[n] = f[n - 1] + Weight(outQueue[o][n]) /\ n - 1 \in 0 .. len /\ n \in 0 .. len
        BY <1>1, <1>2, <3>1 DEF Numbers
      <4>2. Weight(outQueue[o][n]) = 1
        BY <1>9, <3>1 DEF Weight
      <4> QED
        BY <1>6, <4>1, <4>2
    <3> QED
      <4>1. accepted'[o][f[n]] = accepted[o][f[n]]
        BY <1>5, <3>3
      <4> QED
        BY <3>1, <3>2, <4>1
  <2> QED
    BY <2>1, <2>2
<1>10. Numbers(o, f2)'
  BY <1>1, <1>3, <1>5, <1>7, <1>8, <1>9 DEF Numbers, InHand, poolVars
<1>11. Len(sent[o]) + InHand(o) <= a /\ Len(sent[o]) \in Nat
  <2>1. f[0] = Len(sent[o]) + InHand(o) /\ f[0] \in 0 .. a
    BY <1>1, <1>2, <1>6 DEF Numbers
  <2>2. sent[o] \in Seq(Nat)
    BY DEF OrderTypes
  <2> QED
    BY <2>1, <2>2
<1>12. outThread'[o] = "send" => accepted'[o][Len(sent'[o]) + 1] = media'[outPtr'[o]]
  BY <1>5, <1>11 DEF InHand, Sends
<1>13. \A n \in 1 .. Len(sent'[o]) : sent'[o][n] = accepted'[o][n]
  <2>1. Len(sent[o]) <= a /\ Len(sent[o]) \in Nat
    <3>1. InHand(o) \in {0, 1}
      BY DEF InHand
    <3> QED
      BY <1>11, <3>1
  <2>2. \A n \in 1 .. Len(sent[o]) : n \in 1 .. a /\ sent[o][n] = accepted[o][n]
    BY <2>1 DEF Sends
  <2> QED
    BY <1>5, <2>2
<1> QED
  BY <1>3, <1>5, <1>7, <1>10, <1>12, <1>13 DEF Sends

\* The oldest entry is taken: a marker ends the loop, a frame is in hand then.
LEMMA SendsPopped ==
  ASSUME ControlInv, RefsInv, OrderTypes, NEW o \in Outputs, Sends(o), outThread[o] = "pop",
         outQueue[o] # << >>, NEW e, e = Head(outQueue[o]),
         outQueue' = [outQueue EXCEPT ![o] = Tail(@)],
         UNCHANGED <<poolVars, media, accepted, sent>>,
         e.marker => outThread'[o] # "send",
         ~e.marker => /\ outThread'[o] = "send" /\ outPtr'[o] \in DOMAIN items
                      /\ items[outPtr'[o]].handle = e.frame
  PROVE  Sends(o)'
<1>1. PICK f \in [0 .. Len(outQueue[o]) -> 0 .. Len(accepted[o])] : Numbers(o, f)
  BY DEF Sends
<1>0. /\ Len(outQueue[o]) \in Nat \ {0} /\ Len(outQueue'[o]) = Len(outQueue[o]) - 1 /\ e = outQueue[o][1]
      /\ DOMAIN outQueue'[o] = 1 .. Len(outQueue[o]) - 1
      /\ \A n \in DOMAIN outQueue'[o] : outQueue'[o][n] = outQueue[o][n + 1]
  <2>1. QueueTypes
    BY DEF ControlInv
  <2> QED
    BY <2>1, PopTakes
<1>2. PICK len \in Nat \ {0} : len = Len(outQueue[o])
  BY <1>0
<1>3. /\ Len(outQueue'[o]) = len - 1 /\ e = outQueue[o][1]
      /\ \A n \in 1 .. len - 1 : outQueue'[o][n] = outQueue[o][n + 1]
  BY <1>0, <1>2
<1>4. PICK a \in Nat : a = Len(accepted[o])
  BY DEF OrderTypes
<1>5. /\ f \in [0 .. len -> 0 .. a] /\ f[len] = a /\ f[0] = Len(sent[o])
      /\ \A n \in 1 .. len : f[n] = f[n - 1] + Weight(outQueue[o][n])
      /\ \A n \in 1 .. len, k \in DOMAIN items :
           ~outQueue[o][n].marker /\ items[k].handle = outQueue[o][n].frame => accepted[o][f[n]] = media[k]
  <2>1. InHand(o) = 0
    BY DEF InHand
  <2>2. sent[o] \in Seq(Nat)
    BY DEF OrderTypes
  <2>3. f[0] = Len(sent[o])
    <3>1. f[0] = Len(sent[o]) + InHand(o)
      BY <1>1 DEF Numbers
    <3> QED
      BY <2>1, <2>2, <3>1
  <2>4. f \in [0 .. len -> 0 .. a] /\ f[len] = a
    BY <1>1, <1>2, <1>4 DEF Numbers
  <2>5. /\ \A n \in 1 .. len : f[n] = f[n - 1] + Weight(outQueue[o][n])
        /\ \A n \in 1 .. len, k \in DOMAIN items :
             ~outQueue[o][n].marker /\ items[k].handle = outQueue[o][n].frame => accepted[o][f[n]] = media[k]
    BY <1>1, <1>2 DEF Numbers
  <2> QED
    BY <2>3, <2>4, <2>5
<1> DEFINE f2 == [n \in 0 .. len - 1 |-> f[n + 1]]
<1>6. /\ f2 \in [0 .. len - 1 -> 0 .. a] /\ f2[len - 1] = a
      /\ \A n \in 0 .. len - 1 : f2[n] = f[n + 1]
  BY <1>5
<1> HIDE DEF f2
<1>7. f[1] = Len(sent[o]) + Weight(e) /\ f2[0] = f[1]
  BY <1>3, <1>5, <1>6
<1>8. InHand(o)' = Weight(e)
  BY DEF InHand, Weight
<1>9. \A n \in 1 .. len - 1 : f2[n] = f2[n - 1] + Weight(outQueue'[o][n])
  <2> SUFFICES ASSUME NEW n \in 1 .. len - 1 PROVE f2[n] = f2[n - 1] + Weight(outQueue'[o][n])
    OBVIOUS
  <2>1. f2[n] = f[n + 1] /\ f2[n - 1] = f[n] /\ n + 1 \in 1 .. len
    BY <1>6
  <2>2. f[n + 1] = f[n] + Weight(outQueue[o][n + 1])
    <3>1. PICK m \in 1 .. len : m = n + 1 /\ m - 1 = n
      OBVIOUS
    <3>2. f[m] = f[m - 1] + Weight(outQueue[o][m])
      BY <1>5
    <3> QED
      BY <3>1, <3>2
  <2> QED
    BY <1>3, <2>1, <2>2
<1>10. \A n \in 1 .. len - 1, k \in DOMAIN items :
         ~outQueue'[o][n].marker /\ items[k].handle = outQueue'[o][n].frame => accepted[o][f2[n]] = media[k]
  <2> SUFFICES ASSUME NEW n \in 1 .. len - 1, NEW k \in DOMAIN items,
                      ~outQueue'[o][n].marker, items[k].handle = outQueue'[o][n].frame
               PROVE  accepted[o][f2[n]] = media[k]
    OBVIOUS
  <2>1. n + 1 \in 1 .. len /\ outQueue'[o][n] = outQueue[o][n + 1] /\ f2[n] = f[n + 1]
    BY <1>3, <1>6, SMTT(60)
  <2> QED
    BY <1>5, <2>1
<1>11. Numbers(o, f2)'
  <2>1. Len(outQueue'[o]) = len - 1 /\ Len(accepted'[o]) = a /\ sent'[o] = sent[o] /\ accepted'[o] = accepted[o]
    BY <1>3, <1>4
  <2>2. items' = items /\ media' = media
    BY DEF poolVars
  <2>3. f2 \in [0 .. Len(outQueue'[o]) -> 0 .. Len(accepted'[o])] /\ f2[Len(outQueue'[o])] = Len(accepted'[o])
    BY <1>6, <2>1
  <2>4. f2[0] = Len(sent'[o]) + InHand(o)'
    BY <1>7, <1>8, <2>1
  <2>5. \A n \in 1 .. Len(outQueue'[o]) : f2[n] = f2[n - 1] + Weight(outQueue'[o][n])
    BY <1>9, <2>1
  <2>6. ASSUME NEW n \in 1 .. Len(outQueue'[o]), NEW k \in DOMAIN items',
               ~outQueue'[o][n].marker, items'[k].handle = outQueue'[o][n].frame
        PROVE  accepted'[o][f2[n]] = media'[k]
    <3>1. n \in 1 .. len - 1 /\ k \in DOMAIN items
      BY <2>1, <2>2
    <3>2. items[k].handle = outQueue'[o][n].frame
      BY <2>2, <2>6
    <3>3. accepted[o][f2[n]] = media[k]
      BY <1>10, <2>6, <3>1, <3>2
    <3> QED
      BY <2>1, <2>2, <3>3
  <2> QED
    BY <2>3, <2>4, <2>5, <2>6 DEF Numbers, Weight
<1>12. ASSUME outThread'[o] = "send" PROVE accepted'[o][Len(sent'[o]) + 1] = media'[outPtr'[o]]
  <2>1. ~e.marker /\ 1 \in 1 .. len
    BY <1>12, <1>2
  <2>2. accepted[o][f[1]] = media[outPtr'[o]]
    BY <1>3, <1>5, <2>1
  <2> QED
    BY <1>7, <2>1, <2>2 DEF Weight
<1>13. \A n \in 1 .. Len(sent'[o]) : sent'[o][n] = accepted'[o][n]
  BY DEF Sends
<1> QED
  BY <1>3, <1>4, <1>6, <1>11, <1>12, <1>13 DEF Sends

\* The frame in hand goes out.
LEMMA SendsSent ==
  ASSUME ControlInv, RefsInv, OrderTypes, NEW o \in Outputs, Sends(o),
         outThread[o] = "send", outThread'[o] = "release",
         sent' = [sent EXCEPT ![o] = Append(@, media[outPtr[o]])],
         UNCHANGED <<poolVars, media, accepted, outQueue>>
  PROVE  Sends(o)' /\ sent' \in [Outputs -> Seq(Nat)]
<1>1. PICK f \in [0 .. Len(outQueue[o]) -> 0 .. Len(accepted[o])] : Numbers(o, f)
  BY DEF Sends
<1>2. PICK m \in Nat : m = media[outPtr[o]] /\ accepted[o][Len(sent[o]) + 1] = m
  <2>1. outPtr[o] \in DOMAIN items
    BY DEF RefsInv, Pointers
  <2>2. outPtr[o] \in 1 .. MaxFrames
    BY <2>1, ShapeFacts DEF RefsInv
  <2> QED
    BY <2>2 DEF OrderTypes, Sends
<1>3. PICK s \in Seq(Nat) : s = sent[o]
  BY DEF OrderTypes
<1>4. sent'[o] = Append(s, m)
  BY <1>2, <1>3 DEF OrderTypes
<1>5. /\ Len(sent'[o]) = Len(s) + 1 /\ Len(s) \in Nat
      /\ \A n \in 1 .. Len(s) : sent'[o][n] = s[n]
      /\ sent'[o][Len(s) + 1] = m
  BY <1>2, <1>3, <1>4
<1>6. sent' \in [Outputs -> Seq(Nat)]
  BY <1>2 DEF OrderTypes
<1>7. f[0] = Len(sent'[o]) + InHand(o)'
  <2>1. InHand(o) = 1 /\ InHand(o)' = 0
    BY DEF InHand
  <2>2. f[0] = Len(s) + 1
    BY <1>1, <1>3, <2>1 DEF Numbers
  <2> QED
    BY <1>5, <2>1, <2>2
<1>8. Numbers(o, f)'
  BY <1>1, <1>7 DEF Numbers, poolVars
<1>9. \A n \in 1 .. Len(sent'[o]) : sent'[o][n] = accepted'[o][n]
  BY <1>2, <1>3, <1>5 DEF Sends
<1> QED
  BY <1>1, <1>6, <1>8, <1>9 DEF Sends

(***************************************************************************)
(* What the invariant says of the properties.                              *)
(***************************************************************************)
\* The queues hold as many references to a frame as outputs have it queued.
LEMMA QueueCount ==
  ASSUME Once, QueueTypes, NEW h \in Int
  PROVE  IsFiniteSet(QueueRefs(h)) /\ Cardinality(QueueRefs(h)) = Cardinality(QueuedAt(h))
<1>1. \A x : x \in QueueRefs(h) <=>
        \E o \in Outputs : \E n \in DOMAIN outQueue[o] : x = <<o, n>> /\ outQueue[o][n] = FrameEntry(h)
  BY DEF QueueRefs
<1> DEFINE f == [x \in QueueRefs(h) |-> x[1]]
<1>2. f \in [QueueRefs(h) -> QueuedAt(h)]
  BY <1>1 DEF QueuedAt, Queued
<1>3. \A x, y \in QueueRefs(h) : f[x] = f[y] => x = y
  <2> SUFFICES ASSUME NEW x \in QueueRefs(h), NEW y \in QueueRefs(h), x[1] = y[1] PROVE x = y
    OBVIOUS
  <2>1. PICK o \in Outputs : \E n \in DOMAIN outQueue[o] : x = <<o, n>> /\ outQueue[o][n] = FrameEntry(h)
    BY <1>1
  <2>2. PICK n \in DOMAIN outQueue[o] : x = <<o, n>> /\ outQueue[o][n] = FrameEntry(h)
    BY <2>1
  <2>3. PICK p \in Outputs : \E m \in DOMAIN outQueue[p] : y = <<p, m>> /\ outQueue[p][m] = FrameEntry(h)
    BY <1>1
  <2>4. PICK m \in DOMAIN outQueue[p] : y = <<p, m>> /\ outQueue[p][m] = FrameEntry(h)
    BY <2>3
  <2>5. p = o
    BY <2>2, <2>4
  <2>6. outQueue[o][n] = outQueue[o][m] /\ outQueue[o][n] # StopEntry
    BY <2>2, <2>4, <2>5, EntriesDiffer
  <2>7. n = m
    BY <2>4, <2>5, <2>6 DEF Once, Distinct
  <2> QED
    BY <2>2, <2>4, <2>5, <2>7
<1>4. \A o \in QueuedAt(h) : \E x \in QueueRefs(h) : f[x] = o
  <2> SUFFICES ASSUME NEW o \in QueuedAt(h) PROVE \E x \in QueueRefs(h) : x[1] = o
    OBVIOUS
  <2>1. PICK n \in DOMAIN outQueue[o] : outQueue[o][n] = FrameEntry(h)
    BY DEF QueuedAt, Queued
  <2>2. o \in Outputs
    BY DEF QueuedAt
  <2>3. <<o, n>> \in QueueRefs(h)
    BY <1>1, <2>1, <2>2
  <2> QED
    BY <2>3
<1> HIDE DEF f
<1>5. f \in Injection(QueueRefs(h), QueuedAt(h)) /\ f \in Surjection(QueueRefs(h), QueuedAt(h))
  BY <1>2, <1>3, <1>4, Fun_IsInj, Fun_IsSurj
<1>6. IsFiniteSet(QueuedAt(h))
  BY CountIsNat
<1> QED
  BY <1>5, <1>6, FS_Injection

\* NoEarlyRelease and NoLeak, as consequences.
RefsMean == ControlInv /\ RefsInv => NoEarlyRelease /\ NoLeak

LEMMA RefsMeanNow == RefsMean /\ RefsMean'
<1>1. RefsMean
  <2> SUFFICES ASSUME ControlInv, RefsInv PROVE NoEarlyRelease /\ NoLeak
    BY DEF RefsMean
  <2> USE DEF RefsInv
  <2>1. \A h \in Int : /\ References(h) \in Nat
                       /\ Count(h) = References(h) + Cardinality(KeptAt(h))
                       /\ Cardinality(KeptAt(h)) \in Nat
    <3>1. \A h \in Int : Cardinality(QueueRefs(h)) = Cardinality(QueuedAt(h))
      BY QueueCount DEF ControlInv
    <3> QED
      BY <3>1, CountIsNat DEF References, Count
  <2>2. ASSUME NEW h \in 0 .. nextHandle - 1, References(h) > 0 PROVE h \in Handles
    <3>1. h \in Int /\ h # INVALID
      BY <2>2 DEF INVALID
    <3>2. Count(h) > 0
      BY <2>1, <2>2, <3>1
    <3>3. Live(h)
      BY <3>1, <3>2 DEF Counted
    <3> QED
      BY <3>1, <3>3 DEF Live, Handles
  <2>3. ASSUME NEW k \in DOMAIN items, ~items[k].free
        PROVE  /\ items[k].ref >= References(items[k].handle)
               /\ items[k].ref <= References(items[k].handle) + Cardinality(KeptAt(items[k].handle))
    <3>1. PICK h \in Int : h = items[k].handle
      BY ShapeFacts
    <3>2. items[k].ref = Count(h)
      BY <2>3, <3>1 DEF Counted
    <3>3. References(h) \in Nat /\ Cardinality(KeptAt(h)) \in Nat /\ Count(h) = References(h) + Cardinality(KeptAt(h))
      BY <2>1
    <3> QED
      BY <3>1, <3>2, <3>3
  <2> QED
    BY <2>2, <2>3 DEF NoEarlyRelease, NoLeak, KeptAt
<1> QED
  BY <1>1, PTL

\* SendsInOrder as a consequence.
OrderMeans == OrderInv => SendsInOrder

LEMMA OrderMeansNow == OrderMeans /\ OrderMeans'
<1>1. OrderMeans
  <2> SUFFICES ASSUME OrderInv, NEW o \in Outputs
               PROVE  Len(sent[o]) <= Len(accepted[o]) /\ sent[o] = SubSeq(accepted[o], 1, Len(sent[o]))
    BY DEF OrderMeans, SendsInOrder
  <2>1. PICK s \in Seq(Nat), a \in Seq(Nat) : s = sent[o] /\ a = accepted[o]
    BY DEF OrderInv, OrderTypes
  <2>2. Len(s) <= Len(a) /\ \A n \in 1 .. Len(s) : s[n] = a[n]
    <3>1. CASE o \in Throwing
      BY <2>1, <3>1 DEF OrderInv
    <3>2. CASE o \notin Throwing
      <4>1. PICK f \in [0 .. Len(outQueue[o]) -> 0 .. Len(accepted[o])] : Numbers(o, f)
        BY <3>2 DEF OrderInv, Sends
      <4>2. f[0] = Len(sent[o]) + InHand(o) /\ InHand(o) \in {0, 1}
        BY <4>1 DEF Numbers, InHand
      <4>3. f[0] \in 0 .. Len(accepted[o])
        <5>1. Len(outQueue[o]) \in Nat \/ f[0] \in 0 .. Len(accepted[o])
          BY <4>1
        <5> QED
          BY <4>1, <5>1, SMTT(60)
      <4>4. Len(s) <= Len(a)
        BY <2>1, <4>2, <4>3
      <4>5. \A n \in 1 .. Len(sent[o]) : sent[o][n] = accepted[o][n]
        BY <3>2 DEF OrderInv, Sends
      <4> QED
        BY <2>1, <4>4, <4>5
    <3> QED
      BY <3>1, <3>2
  <2>3. s = SubSeq(a, 1, Len(s))
    <3>1. Len(s) \in Nat /\ Len(a) \in Nat
      OBVIOUS
    <3>2. /\ SubSeq(a, 1, Len(s)) \in Seq(Nat) /\ Len(SubSeq(a, 1, Len(s))) = Len(s)
          /\ \A n \in 1 .. Len(s) : SubSeq(a, 1, Len(s))[n] = a[n]
      BY <2>2, <3>1
    <3> QED
      BY <2>2, <3>2, SeqEqual
  <2> QED
    BY <2>1, <2>2, <2>3
<1> QED
  BY <1>1, PTL

(***************************************************************************)
(* Each step of the module keeps the invariant.                            *)
(***************************************************************************)
LEMMA FramesInit == Init => FramesInv
<1> SUFFICES ASSUME Init PROVE FramesInv
  OBVIOUS
<1> USE DEF Init, PoolInit, MediaInit, InInit, OutInit, INVALID, EMPTY
<1>1. RefTypes
  BY MaxFramesAssumption DEF RefTypes
<1>2. PoolShape
  BY MaxFramesAssumption DEF PoolShape
<1>3. \A h \in Int : Count(h) = 0
  <2> SUFFICES ASSUME NEW h \in Int PROVE Count(h) = 0
    OBVIOUS
  <2>1. InputRefs(h) = {} /\ SendRefs(h) = {}
    BY DEF InputRefs, SendRefs
  <2>2. QueuedAt(h) = {} /\ OutputRefs(h) = {} /\ KeptAt(h) = {}
    BY DEF QueuedAt, Queued, OutputRefs, KeptAt
  <2> QED
    BY <2>1, <2>2, FS_EmptySet DEF Count
<1>4. Counted
  BY <1>3 DEF Counted
<1>5. Once
  BY DEF Once, HoldsFrame, Distinct, Queued, Sending
<1>6. Pointers
  BY DEF Pointers, HoldsFrame
<1>7. OrderInv
  <2>1. OrderTypes
    BY DEF OrderTypes
  <2>2. ASSUME NEW o \in Outputs PROVE Sends(o) /\ sent[o] = << >>
    <3>1. outQueue[o] = << >> /\ accepted[o] = << >> /\ sent[o] = << >> /\ outThread[o] = "none"
      OBVIOUS
    <3>2. Numbers(o, [n \in 0 .. 0 |-> 0])
      BY <3>1 DEF Numbers, InHand
    <3>3. [n \in 0 .. 0 |-> 0] \in [0 .. Len(outQueue[o]) -> 0 .. Len(accepted[o])]
      BY <3>1
    <3> QED
      BY <3>1, <3>2, <3>3 DEF Sends
  <2> QED
    BY <2>1, <2>2 DEF OrderInv
<1> QED
  BY <1>1, <1>2, <1>4, <1>5, <1>6, <1>7 DEF FramesInv, RefsInv, Over

\* No output moves: the order is kept if no object of a queued frame is filled.
LEMMA OrderKeptByInput ==
  ASSUME ControlInv, RefsInv, OrderInv, Moved, OrderTypes', UNCHANGED <<outVars, accepted>>,
         \A o \in Outputs : MediaKept(o)
  PROVE  OrderInv'
<1>1. \A o \in Outputs : Steady(o)
  BY DEF Steady, outVars
<1>2. \A o \in Outputs \ Throwing : Sends(o)'
  BY <1>1, SendsKept DEF OrderInv
<1>3. \A o \in Outputs \cap Throwing : sent'[o] = << >>
  BY DEF OrderInv, outVars
<1> QED
  BY <1>2, <1>3 DEF OrderInv

LEMMA FramesKeptByInput ==
  ASSUME ControlInv, ControlInv', RefsInv, OrderInv, appAt # "terminated", NEW i \in Inputs, InStep(i)
  PROVE  RefsInv' /\ OrderInv'
<1>1. ThreadTypes /\ ThreadTypes' /\ QueueTypes /\ RefTypes /\ PoolShape /\ Once /\ OrderTypes
  BY DEF ControlInv, RefsInv, OrderInv
<1>2. inThread \in [Inputs -> InThreads] /\ inFrame \in [Inputs -> Int] /\ cbOut \in [Inputs -> Nat]
      /\ inPtr \in [Inputs -> 0 .. MaxFrames] /\ MaxFrames \in Nat
  BY <1>1, ShapeFacts DEF ThreadTypes, RefTypes
<1> DEFINE quiet == \E t \in InThreads : inThread' = [inThread EXCEPT ![i] = t]
                       /\ (t \in {"read", "check", "tick", "send", "push"} <=> HoldsFrame(i))
                       /\ t # "push" /\ inThread[i] \notin {"send", "push"}
<1>3. ASSUME quiet, UNCHANGED <<poolVars, outVars>>,
             inFrame' = inFrame \/ (~HoldsFrame(i) /\ inFrame' = [inFrame EXCEPT ![i] = INVALID]),
             inPtr' = inPtr \/ (~HoldsFrame(i) /\ inPtr' = [inPtr EXCEPT ![i] = 0]),
             cbOut' = cbOut \/ (\E n \in Nat : cbOut' = [cbOut EXCEPT ![i] = n])
      PROVE  RefsInv' /\ Moved
  <2>1. QuietIn
    BY <1>2, <1>3 DEF QuietIn, HoldsFrame
  <2>2. QuietOut
    BY <1>3 DEF QuietOut, QuietQueues, Queued, Distinct, outVars
  <2>3. RefTypes'
    BY <1>1, <1>2, <1>3 DEF RefTypes, outVars
  <2> QED
    BY <1>3, <2>1, <2>2, <2>3, QuietStep
<1>4. ASSUME RefsInv', Moved, UNCHANGED <<media, outVars, accepted>>, reads' \in Nat PROVE OrderInv'
  <2>1. OrderTypes'
    BY <1>1, <1>4 DEF OrderTypes, outVars
  <2> QED
    BY <1>4, <2>1, OrderKeptByInput DEF MediaKept
<1>5. CASE (InputRuns(i) \/ InputReads(i)) /\ UNCHANGED <<outVars, appVars, cbOut, accepted>>
  <2>1. CASE InCreate(i)
    <3>1. PICK h \in {nextHandle, INVALID} :
            /\ FrameCreate(h) /\ InGoes(i, "loop", IF h = INVALID THEN "full" ELSE "read")
            /\ inFrame' = [inFrame EXCEPT ![i] = h]
            /\ inPtr' = [inPtr EXCEPT ![i] = IF h = INVALID THEN 0 ELSE FrameGet(h)']
      BY <2>1 DEF InCreate
    <3>2. UNCHANGED <<media, reads>>
      BY <2>1 DEF InCreate
    <3>3. CASE h = INVALID
      <4>1. UNCHANGED poolVars
        BY <1>1, <3>1, <3>3, ShapeFacts DEF FrameCreate, poolVars, INVALID
      <4>2. quiet /\ ~HoldsFrame(i)
        BY <1>2, <3>1, <3>3 DEF InGoes, InThreads, HoldsFrame
      <4>3. RefsInv' /\ Moved
        BY <1>3, <1>5, <3>1, <3>3, <4>1, <4>2
      <4> QED
        BY <1>1, <1>4, <1>5, <3>2, <4>3 DEF OrderTypes
    <3>4. CASE h # INVALID
      <4>1. h = nextHandle /\ h \in Nat
        BY <1>1, <3>1, <3>4, ShapeFacts
      <4>2. inThread[i] = "loop" /\ inThread' = [inThread EXCEPT ![i] = "read"]
            /\ inPtr' = [inPtr EXCEPT ![i] = FrameGet(h)']
        BY <3>1, <3>4 DEF InGoes
      <4>3. RefsInv' /\ Moved
        BY <1>5, <3>1, <4>1, <4>2, InCreates
      <4> QED
        BY <1>1, <1>4, <1>5, <3>2, <4>3 DEF OrderTypes
    <3> QED
      BY <3>3, <3>4
  <2>2. CASE InLeave(i) \/ InFull(i) \/ InTick(i) \/ InEnd(i) \/ InReadError(i) \/ InDrain(i)
    <3>1. UNCHANGED <<poolVars, media, inFrame, inPtr>>
      BY <2>2 DEF InLeave, InFull, InTick, InEnd, InReadError, InDrain
    <3>2. reads' \in Nat
      BY <1>1, <2>2 DEF InLeave, InFull, InTick, InEnd, InReadError, InDrain, Delivered, OrderTypes
    <3>3. quiet
      BY <2>2 DEF InLeave, InFull, InTick, InEnd, InReadError, InDrain, InGoes, InThreads, HoldsFrame
    <3>4. RefsInv' /\ Moved
      BY <1>3, <1>5, <3>1, <3>3
    <3> QED
      BY <1>4, <1>5, <3>1, <3>2, <3>4
  <2>3. CASE InReadFrame(i)
    <3>1. /\ UNCHANGED <<poolVars, inFrame, inPtr>> /\ Fill(inPtr[i], reads + 1) /\ reads' = reads + 1
          /\ inThread[i] = "read"
      BY <2>3 DEF InReadFrame, Delivered, InGoes
    <3>2. quiet
      BY <2>3 DEF InReadFrame, InGoes, InThreads, HoldsFrame
    <3>3. RefsInv' /\ Moved
      BY <1>3, <1>5, <3>1, <3>2
    <3>4. OrderTypes'
      <4>1. media' = [media EXCEPT ![inPtr[i]] = reads + 1] /\ reads + 1 \in Nat
        BY <1>1, <3>1 DEF Fill, OrderTypes
      <4>2. media' \in [1 .. MaxFrames -> Nat]
        BY <1>1, <4>1 DEF OrderTypes
      <4>3. sent' = sent /\ accepted' = accepted
        BY <1>5 DEF outVars
      <4> QED
        BY <1>1, <3>1, <4>1, <4>2, <4>3, ShapeFacts DEF OrderTypes
    <3>5. ASSUME NEW o \in Outputs PROVE MediaKept(o)
      <4> SUFFICES ASSUME NEW k \in DOMAIN items, Touches(o, items[k].handle) PROVE media'[k] = media[k]
        BY DEF MediaKept
      <4>1. k \in 1 .. MaxFrames
        BY <1>1, ShapeFacts
      <4>2. HoldsFrame(i) /\ items[inPtr[i]].handle = inFrame[i]
        BY <3>1 DEF HoldsFrame, RefsInv, Pointers
      <4>3. ~Touches(o, inFrame[i])
        BY <1>1, <3>1, <4>2 DEF Once
      <4>4. k # inPtr[i]
        BY <4>2, <4>3
      <4> QED
        BY <1>1, <3>1, <4>1, <4>4 DEF OrderTypes, Fill
    <3> QED
      BY <1>5, <3>3, <3>4, <3>5, OrderKeptByInput
  <2>4. CASE InReject(i)
    <3>1. PICK t \in {"end", "loop"} : inThread[i] = "check" /\ inThread' = [inThread EXCEPT ![i] = t]
      BY <2>4 DEF InReject, InGoes
    <3>2. FrameRelease(inFrame[i]) /\ UNCHANGED <<media, inFrame, inPtr, reads>>
      BY <2>4 DEF InReject
    <3>3. RefsInv' /\ Moved
      BY <1>5, <3>1, <3>2, InDrops
    <3> QED
      BY <1>1, <1>4, <1>5, <3>2, <3>3 DEF OrderTypes
  <2> QED
    BY <1>5, <2>1, <2>2, <2>3, <2>4 DEF InputRuns, InputReads
<1>6. CASE Callback(i) /\ UNCHANGED outVars
  <2>0. UNCHANGED media
    BY <1>6 DEF Callback
  <2>1. CASE CbVideo(i)
    <3>1. UNCHANGED <<poolVars, inFrame, inPtr, reads, accepted>> /\ cbOut' = [cbOut EXCEPT ![i] = 1]
      BY <2>1 DEF CbVideo
    <3>2. quiet
      BY <2>1 DEF CbVideo, InGoes, InThreads, HoldsFrame
    <3>3. RefsInv' /\ Moved
      BY <1>3, <1>6, <3>1, <3>2
    <3> QED
      BY <1>1, <1>4, <1>6, <2>0, <3>1, <3>3 DEF OrderTypes
  <2>2. CASE CbOther(i) \/ CbRelease(i)
    <3>1. inThread[i] \in {"tick", "send"} /\ inThread' = [inThread EXCEPT ![i] = "loop"]
      BY <2>2 DEF CbOther, CbRelease, InGoes
    <3>2. FrameRelease(inFrame[i]) /\ UNCHANGED <<inFrame, inPtr, reads, cbOut, accepted>>
      BY <2>2 DEF CbOther, CbRelease
    <3>3. RefsInv' /\ Moved
      BY <1>6, <3>1, <3>2, InDrops
    <3> QED
      BY <1>1, <1>4, <1>6, <2>0, <3>2, <3>3 DEF OrderTypes
  <2>3. CASE CbSend(i)
    <3>1. inThread[i] = "send" /\ inThread' = [inThread EXCEPT ![i] = "push"] /\ cbOut[i] \in Outputs
      BY <2>3 DEF CbSend, InGoes
    <3>2. FrameAddRef(inFrame[i]) /\ UNCHANGED <<inFrame, inPtr, reads, cbOut, accepted>>
      BY <2>3 DEF CbSend
    <3>3. RefsInv' /\ Moved
      BY <1>6, <3>1, <3>2, InSends
    <3> QED
      BY <1>1, <1>4, <1>6, <2>0, <3>2, <3>3 DEF OrderTypes
  <2>4. CASE CbPush(i)
    <3>1. Push(cbOut[i], FrameEntry(inFrame[i])) /\ inThread[i] = "push"
      BY <2>4 DEF CbPush, InGoes
    <3>2. PICK q \in Outputs : q = cbOut[i]
      BY <1>1, <3>1 DEF Once
    <3>3. PICK h \in Nat : h = inFrame[i]
      BY <1>1, <3>1 DEF QueueTypes, HoldsFrame
    <3>4. Len(outQueue'[q]) = Len(outQueue[q]) + 1 /\ Len(outQueue[q]) \in Nat
      <4>1. FrameEntry(h) \in Entries /\ Push(q, FrameEntry(h))
        BY <3>1, <3>2, <3>3 DEF Entries
      <4> QED
        BY <1>1, <4>1, PushAdds
    <3>5. FALSE
      BY <1>6, <3>4 DEF outVars
    <3> QED
      BY <3>5
  <2> QED
    BY <1>6, <2>1, <2>2, <2>3, <2>4 DEF Callback
<1>7. CASE Callback(i) /\ CbPush(i)
  <2>1. /\ inThread[i] = "push" /\ inThread' = [inThread EXCEPT ![i] = "send"]
        /\ Push(cbOut[i], FrameEntry(inFrame[i]))
        /\ accepted' = [accepted EXCEPT ![cbOut[i]] = Append(@, media[inPtr[i]])]
        /\ cbOut' = [cbOut EXCEPT ![i] = @ + 1]
        /\ UNCHANGED <<poolVars, media, inFrame, inPtr, reads, outThread, outFrame, outPtr, sent, kept>>
    BY <1>7 DEF Callback, CbPush, InGoes
  <2>2. RefsInv' /\ Moved
    BY <2>1, InPushes
  <2>3. PICK q \in Outputs : q = cbOut[i]
    BY <1>1, <2>1 DEF Once
  <2>4. PICK h \in Nat : h = inFrame[i] /\ inPtr[i] \in DOMAIN items /\ items[inPtr[i]].handle = h
    BY <1>1, <2>1 DEF QueueTypes, HoldsFrame, RefsInv, Pointers
  <2>5. PICK m \in Nat : m = media[inPtr[i]]
    BY <1>1, <2>4, ShapeFacts, SMTT(60) DEF OrderTypes
  <2>6. /\ FrameEntry(h) \in Entries /\ Push(q, FrameEntry(h))
        /\ ~FrameEntry(h).marker /\ FrameEntry(h).frame = h
    BY <2>1, <2>3, <2>4 DEF Entries, FrameEntry
  <2>7. /\ accepted'[q] = Append(accepted[q], m)
        /\ \A o \in Outputs \ {q} : accepted'[o] = accepted[o]
        /\ OrderTypes'
    BY <1>1, <2>1, <2>3, <2>5 DEF OrderTypes
  <2>8. \A k \in DOMAIN items : items[k].handle = h => media[k] = m
    <3>1. \A k \in DOMAIN items : items[k].handle = h => k = inPtr[i]
      BY <1>1, <2>4, ShapeFacts DEF PoolShape
    <3> QED
      BY <2>5, <3>1
  <2>9. ASSUME Sends(q) PROVE Sends(q)'
    <3>1. PICK e \in Entries : e = FrameEntry(h)
      BY <2>6
    <3>2. Push(q, e) /\ ~e.marker /\ e.frame = h
      BY <2>6, <3>1
    <3>3. accepted'[q] = IF e.marker THEN accepted[q] ELSE Append(accepted[q], m)
      BY <2>7, <3>2
    <3>4. \A k \in DOMAIN items : ~e.marker /\ items[k].handle = e.frame => media[k] = m
      BY <2>8, <3>2
    <3>5. UNCHANGED <<poolVars, media, outThread, outPtr, sent>>
      BY <2>1
    <3> QED
      BY <1>1, <2>9, <3>2, <3>3, <3>4, <3>5, SendsPushed
  <2>10. ASSUME NEW o \in Outputs \ {q}, Sends(o) PROVE Sends(o)'
    <3>1. outQueue'[o] = outQueue[o]
      BY <1>1, <2>6, PushAdds
    <3>2. Steady(o) /\ MediaKept(o)
      BY <2>1, <2>7, <3>1 DEF Steady, MediaKept
    <3> QED
      BY <2>2, <2>10, <3>2, SendsKept
  <2> QED
    BY <2>1, <2>2, <2>7, <2>9, <2>10 DEF OrderInv
<1> QED
  BY <1>5, <1>6, <1>7 DEF InStep, Callback

LEMMA FramesKeptByOutput ==
  ASSUME ControlInv, ControlInv', RefsInv, OrderInv, NEW o \in Outputs, OutStep(o)
  PROVE  RefsInv' /\ OrderInv'
<1>1. ThreadTypes /\ ThreadTypes' /\ QueueTypes /\ RefTypes /\ PoolShape /\ Once /\ OrderTypes
  BY DEF ControlInv, RefsInv, OrderInv
<1>2. outThread \in [Outputs -> OutThreads] /\ outFrame \in [Outputs -> Int]
      /\ outPtr \in [Outputs -> 0 .. MaxFrames] /\ MaxFrames \in Nat
  BY <1>1, ShapeFacts DEF ThreadTypes, RefTypes
<1>3. UNCHANGED <<media, inVars, cbOut, accepted>>
  BY DEF OutStep
<1>4. \A p \in Outputs : MediaKept(p)
  BY <1>3 DEF MediaKept
<1>5. ASSUME RefsInv', Moved, OrderTypes',
             \A p \in Outputs \ {o} : Steady(p),
             o \notin Throwing => Sends(o)',
             o \in Throwing => sent'[o] = sent[o]
      PROVE  OrderInv'
  <2>1. \A p \in Outputs \ Throwing : p # o => Sends(p)'
    BY <1>4, <1>5, SendsKept DEF OrderInv
  <2>2. \A p \in Outputs \cap Throwing : sent'[p] = << >>
    BY <1>5 DEF OrderInv, Steady
  <2> QED
    BY <1>5, <2>1, <2>2 DEF OrderInv
<1>6. QuietIn
  BY <1>3 DEF QuietIn, HoldsFrame, inVars
<1>7. CASE (OutTestQuit(o) \/ OutEnd(o)) /\ UNCHANGED poolVars
  <2>1. UNCHANGED <<outQueue, outFrame, outPtr, sent, kept>>
    BY <1>7 DEF OutTestQuit, OutEnd
  <2>2. \E t \in {"end", "pop", "ended"} :
           inThread' = inThread /\ outThread' = [outThread EXCEPT ![o] = t] /\ outThread[o] \notin {"send", "release"}
    BY <1>3, <1>7 DEF OutTestQuit, OutEnd, OutGoes, inVars
  <2>3. QuietOut
    BY <1>2, <2>1, <2>2 DEF QuietOut, QuietQueues, Queued, Distinct
  <2>4. RefTypes'
    BY <1>1, <1>3, <2>1 DEF RefTypes, inVars
  <2>5. RefsInv' /\ Moved
    BY <1>6, <1>7, <2>3, <2>4, QuietStep
  <2>6. \A p \in Outputs : Steady(p)
    BY <1>2, <1>3, <2>1, <2>2 DEF Steady
  <2>7. o \notin Throwing => Sends(o)'
    BY <1>4, <2>5, <2>6, SendsKept DEF OrderInv
  <2>8. OrderTypes'
    BY <1>1, <1>3, <2>1 DEF OrderTypes, inVars
  <2> QED
    BY <1>5, <2>1, <2>5, <2>6, <2>7, <2>8
<1>8. CASE OutSend(o) /\ UNCHANGED poolVars
  <2>1. /\ o \notin Throwing /\ UNCHANGED <<outQueue, outFrame, outPtr, kept>>
        /\ outThread[o] = "send" /\ outThread' = [outThread EXCEPT ![o] = "release"]
        /\ sent' = [sent EXCEPT ![o] = Append(@, media[outPtr[o]])]
    BY <1>8 DEF OutSend, OutGoes
  <2>2. QuietOut
    BY <1>2, <2>1 DEF QuietOut, QuietQueues, Queued, Distinct
  <2>3. RefTypes'
    BY <1>1, <1>3, <2>1 DEF RefTypes, inVars
  <2>4. RefsInv' /\ Moved
    BY <1>6, <1>8, <2>2, <2>3, QuietStep
  <2>5. \A p \in Outputs \ {o} : Steady(p)
    BY <1>1, <1>2, <1>3, <2>1 DEF Steady, OrderTypes
  <2>6. Sends(o)' /\ sent' \in [Outputs -> Seq(Nat)]
    BY <1>1, <1>2, <1>3, <1>8, <2>1, SendsSent DEF OrderInv
  <2>7. OrderTypes'
    BY <1>1, <1>3, <2>6 DEF OrderTypes, inVars
  <2> QED
    BY <1>5, <2>1, <2>4, <2>5, <2>6, <2>7
<1>9. CASE (OutThrow(o) /\ UNCHANGED poolVars) \/ OutRelease(o)
  <2>1. /\ UNCHANGED <<outQueue, outFrame, outPtr, sent>>
        /\ outThread[o] \in {"send", "release"} /\ outThread' = [outThread EXCEPT ![o] = "loop"]
        /\ \/ FrameRelease(outFrame[o]) /\ UNCHANGED kept
           \/ UNCHANGED poolVars /\ kept' = [kept EXCEPT ![o] = @ \cup {outFrame[o]}]
        /\ o \notin Throwing => outThread[o] = "release"
    BY <1>9 DEF OutThrow, OutRelease, OutGoes
  <2>2. RefsInv' /\ Moved
    BY <1>3, <2>1, OutLeaves
  <2>3. \A p \in Outputs : p # o \/ p \notin Throwing => Steady(p)
    BY <1>2, <1>3, <2>1 DEF Steady
  <2>4. o \notin Throwing => Sends(o)'
    BY <1>4, <2>2, <2>3, SendsKept DEF OrderInv
  <2>5. OrderTypes'
    BY <1>1, <1>3, <2>1 DEF OrderTypes, inVars
  <2> QED
    BY <1>5, <2>1, <2>2, <2>3, <2>4, <2>5
<1>10. CASE OutPop(o) /\ UNCHANGED poolVars
  <2>1. PICK e : e = Head(outQueue[o])
    OBVIOUS
  <2>2. /\ outQueue[o] # << >> /\ OutGoes(o, "pop", AfterPop(e))
        /\ outFrame' = [outFrame EXCEPT ![o] = e.frame]
        /\ outPtr' = [outPtr EXCEPT ![o] = FrameGet(e.frame)]
        /\ outQueue' = [outQueue EXCEPT ![o] = Tail(@)]
        /\ UNCHANGED <<sent, kept>>
    BY <1>10, <2>1 DEF OutPop
  <2>3. e \in Entries /\ \A p \in Outputs \ {o} : outQueue'[p] = outQueue[p]
    BY <1>1, <2>1, <2>2, PopTakes
  <2>4. \A p \in Outputs \ {o} : Steady(p)
    BY <1>2, <1>3, <2>2, <2>3 DEF Steady, OutGoes
  <2>5. OrderTypes'
    BY <1>1, <1>3, <2>2 DEF OrderTypes, inVars
  <2>6. CASE e = StopEntry
    <3>1. e.marker = TRUE /\ e.frame = INVALID /\ AfterPop(e) = "end"
      BY <2>6 DEF StopEntry, AfterPop
    <3>2. FrameGet(e.frame) \in 0 .. MaxFrames
      <4>1. CASE Find(e.frame) = {}
        BY <1>2, <4>1 DEF FrameGet
      <4>2. CASE Find(e.frame) # {}
        <5>1. Find(e.frame) \subseteq 1 .. MaxFrames
          BY <1>1, ShapeFacts DEF Find
        <5>2. FirstOf(Find(e.frame)) \in Find(e.frame)
          BY <4>2, <5>1, <1>2, FirstIsMember
        <5> QED
          BY <4>2, <5>1, <5>2 DEF FrameGet
      <4> QED
        BY <4>1, <4>2
    <3>3. RefTypes'
      BY <1>1, <1>3, <2>2, <3>2 DEF RefTypes, inVars
    <3>4. outThread[o] = "pop" /\ outThread' = [outThread EXCEPT ![o] = "end"]
      BY <2>2, <3>1 DEF OutGoes
    <3>5. QuietQueues
      <4>1. /\ \A p \in Outputs \ {o}, g \in Int : Queued(p, g)' <=> Queued(p, g)
            /\ \A g \in Int : Queued(o, g) <=> Queued(o, g)' \/ e = FrameEntry(g)
            /\ \A p \in Outputs : Distinct(p) => Distinct(p)'
        BY <1>1, <2>1, <2>2, PopTakes
      <4>2. \A g \in Int : e # FrameEntry(g)
        BY <2>6, EntriesDiffer
      <4> QED
        BY <4>1, <4>2 DEF QuietQueues
    <3>6. QuietOut
      BY <1>2, <2>2, <3>4, <3>5 DEF QuietOut
    <3>7. RefsInv' /\ Moved
      BY <1>6, <1>10, <3>3, <3>6, QuietStep
    <3>8. o \notin Throwing => Sends(o)'
      <4>1. outThread'[o] # "send"
        BY <1>2, <3>4
      <4> QED
        BY <1>1, <1>3, <1>10, <2>1, <2>2, <3>1, <3>4, <4>1, SendsPopped DEF OrderInv
    <3> QED
      BY <1>5, <2>2, <2>4, <2>5, <3>7, <3>8
  <2>7. CASE e # StopEntry
    <3>1. PICK h \in Nat : e = FrameEntry(h)
      BY <2>3, <2>7 DEF Entries
    <3>2. e.frame = h /\ ~e.marker /\ h # INVALID
      BY <3>1 DEF FrameEntry, INVALID
    <3>3. Touches(o, h)
      <4>0. outQueue' = [outQueue EXCEPT ![o] = Tail(@)] /\ outQueue[o] # << >> /\ e = Head(outQueue[o])
        BY <2>1, <2>2
      <4>2. e = outQueue[o][1] /\ 1 \in DOMAIN outQueue[o]
        BY <1>1, <4>0, PopTakes
      <4>1. Queued(o, h)
        BY <3>1, <4>2 DEF Queued
      <4> QED
        BY <4>1 DEF Touches
    <3>4. /\ FrameGet(h) \in 1 .. MaxFrames /\ FrameGet(h) \in DOMAIN items
          /\ \A k : k = FrameGet(h) => items[k].handle = h
      BY <1>1, <3>3, UsedIsLive, GetLiveNow DEF GetLive
    <3>5. AfterPop(e) = "send"
      BY <1>2, <3>2, <3>4 DEF AfterPop
    <3>6. outThread[o] = "pop" /\ outThread' = [outThread EXCEPT ![o] = "send"]
      BY <2>2, <3>5 DEF OutGoes
    <3>7. RefsInv' /\ Moved
      BY <1>3, <1>10, <2>1, <2>2, <3>1, <3>2, <3>6, OutTakes
    <3>8. o \notin Throwing => Sends(o)'
      <4>1. /\ outThread'[o] = "send" /\ outPtr'[o] \in DOMAIN items /\ items[outPtr'[o]].handle = e.frame
        BY <1>2, <2>2, <3>2, <3>4, <3>6
      <4> QED
        BY <1>1, <1>3, <1>10, <2>1, <2>2, <3>2, <3>6, <4>1, SendsPopped DEF OrderInv
    <3> QED
      BY <1>5, <2>2, <2>4, <2>5, <3>7, <3>8
  <2> QED
    BY <2>6, <2>7
<1> QED
  BY <1>7, <1>8, <1>9, <1>10 DEF OutStep, OutputRuns

\* The steps of the application other than the last: they start and join threads
\* that have no frame, and queue the markers.
AppTurns ==
  \/ AppCall
  \/ AppStartIn \/ AppInsStarted \/ AppStartOut \/ AppMarkOut \/ AppStarted
  \/ AppStopIn \/ AppClosePin \/ AppJoinIn \/ AppInsStopped
  \/ AppStopOut \/ AppPushStop \/ AppJoinOut \/ AppStopped

Restarted(old, new, pins) ==
  \/ new = old
  \/ \E p \in pins, t \in {"none", "loop"} : old[p] \in {"none", "ended"} /\ new = [old EXCEPT ![p] = t]

LEMMA AppTurnsMove ==
  ASSUME ControlInv, appAt # "terminated", AppTurns
  PROVE  /\ UNCHANGED <<inFrame, inPtr, reads, outFrame, outPtr, sent, kept>>
         /\ Restarted(inThread, inThread', Inputs) /\ Restarted(outThread, outThread', Outputs)
         /\ \/ outQueue' = outQueue
            \/ appPin \in Outputs /\ Push(appPin, StopEntry) /\ outThread' = outThread
         /\ appAt' # "closed" /\ ~(appAt \in {"closed", "terminated"})
<1> USE DEF inVars, outVars
<1>1. CASE AppCall \/ AppInsStarted \/ AppStarted \/ AppInsStopped \/ AppStopped
  <2>1. UNCHANGED <<inVars, outVars>>
    BY <1>1 DEF AppCall, AppStart, AppStop, AppClose, AppInsStarted, AppStarted, AppInsStopped, AppStopped
  <2>2. appAt' # "closed" /\ appAt \notin {"closed", "terminated"}
    BY <1>1 DEF AppCall, AppStart, AppStop, AppClose, AppInsStarted, AppStarted, AppInsStopped, AppStopped, AppGoes
  <2> QED
    BY <2>1, <2>2 DEF Restarted
<1>2. CASE AppStartIn \/ AppStopIn \/ AppClosePin \/ AppJoinIn
  <2>1. UNCHANGED <<inFrame, inPtr, reads, outVars>>
    BY <1>2 DEF AppStartIn, AppStopIn, AppClosePin, AppJoinIn, InStart, InRaiseQuit, InClosePin, InJoin
  <2>2. appAt' # "closed" /\ appAt \notin {"closed", "terminated"}
    BY <1>2 DEF AppStartIn, AppStopIn, AppClosePin, AppJoinIn, AppGoes
  <2>3. Restarted(inThread, inThread', Inputs)
    <3>1. CASE AppStartIn
      BY <3>1 DEF Restarted, AppStartIn, InStart, InGoes, Here
    <3>2. CASE AppStopIn \/ AppClosePin
      BY <3>2 DEF Restarted, AppStopIn, AppClosePin, InRaiseQuit, InClosePin
    <3>3. CASE AppJoinIn
      <4>1. appPin \in Inputs
        BY <3>3 DEF AppJoinIn, AppGoes, ControlInv, Follow, AppFollows
      <4> QED
        BY <3>3, <4>1 DEF Restarted, AppJoinIn, InJoin, InGoes
    <3> QED
      BY <1>2, <3>1, <3>2, <3>3
  <2> QED
    BY <2>1, <2>2, <2>3 DEF Restarted
<1>3. CASE AppStartOut \/ AppMarkOut \/ AppStopOut \/ AppPushStop \/ AppJoinOut
  <2>1. UNCHANGED <<inVars, outFrame, outPtr, sent, kept>>
    BY <1>3 DEF AppStartOut, AppMarkOut, AppStopOut, AppPushStop, AppJoinOut,
                OutSpawn, OutMarkStarted, OutRaiseQuit, OutPushMarker, OutJoin
  <2>2. appAt' # "closed" /\ appAt \notin {"closed", "terminated"}
    BY <1>3 DEF AppStartOut, AppMarkOut, AppStopOut, AppPushStop, AppJoinOut, AppGoes
  <2>3. Restarted(outThread, outThread', Outputs) /\ (outQueue' = outQueue \/ (appPin \in Outputs /\ Push(appPin, StopEntry) /\ outThread' = outThread))
    <3>1. CASE AppStartOut
      BY <3>1 DEF Restarted, AppStartOut, OutSpawn, OutGoes, Here
    <3>2. CASE AppMarkOut \/ AppStopOut
      BY <3>2 DEF Restarted, AppMarkOut, AppStopOut, OutMarkStarted, OutRaiseQuit
    <3>3. CASE AppPushStop \/ AppJoinOut
      <4>1. appPin \in Outputs
        BY <3>3 DEF AppPushStop, AppJoinOut, AppGoes, ControlInv, Follow, AppFollows
      <4> QED
        BY <3>3, <4>1 DEF Restarted, AppPushStop, AppJoinOut, OutPushMarker, OutJoin
    <3> QED
      BY <1>3, <3>1, <3>2, <3>3
  <2> QED
    BY <2>1, <2>2, <2>3 DEF Restarted
<1> QED
  BY <1>1, <1>2, <1>3 DEF AppTurns

LEMMA FramesKeptByApp ==
  ASSUME ControlInv, ControlInv', RefsInv, OrderInv, appAt # "terminated", AppTurns,
         UNCHANGED <<poolVars, media, cbOut, accepted>>
  PROVE  RefsInv' /\ OrderInv'
<1>1. ThreadTypes /\ ThreadTypes' /\ QueueTypes /\ RefTypes /\ PoolShape /\ Once /\ OrderTypes
  BY DEF ControlInv, RefsInv, OrderInv
<1>2. inThread \in [Inputs -> InThreads] /\ outThread \in [Outputs -> OutThreads]
  BY <1>1 DEF ThreadTypes
<1>3. /\ UNCHANGED <<inFrame, inPtr, reads, outFrame, outPtr, sent, kept>>
      /\ Restarted(inThread, inThread', Inputs) /\ Restarted(outThread, outThread', Outputs)
      /\ \/ outQueue' = outQueue
         \/ appPin \in Outputs /\ Push(appPin, StopEntry) /\ outThread' = outThread
  BY AppTurnsMove
<1>4. \A i \in Inputs :
        \/ inThread'[i] = inThread[i]
        \/ inThread[i] \in {"none", "ended"} /\ inThread'[i] \in {"none", "loop"}
  <2>1. CASE inThread' = inThread
    BY <2>1
  <2>2. CASE inThread' # inThread
    <3>1. PICK p \in Inputs, t \in {"none", "loop"} :
            inThread[p] \in {"none", "ended"} /\ inThread' = [inThread EXCEPT ![p] = t]
      BY <1>3, <2>2 DEF Restarted
    <3> QED
      BY <1>2, <3>1
  <2> QED
    BY <2>1, <2>2
<1>5. \A o \in Outputs :
        \/ outThread'[o] = outThread[o]
        \/ outThread[o] \in {"none", "ended"} /\ outThread'[o] \in {"none", "loop"}
  <2>1. CASE outThread' = outThread
    BY <2>1
  <2>2. CASE outThread' # outThread
    <3>1. PICK p \in Outputs, t \in {"none", "loop"} :
            outThread[p] \in {"none", "ended"} /\ outThread' = [outThread EXCEPT ![p] = t]
      BY <1>3, <2>2 DEF Restarted
    <3> QED
      BY <1>2, <3>1
  <2> QED
    BY <2>1, <2>2
<1>6. QuietIn
  BY <1>3, <1>4 DEF QuietIn, HoldsFrame
<1>7. QuietQueues
  <2>1. CASE outQueue' = outQueue
    BY <2>1 DEF QuietQueues, Queued, Distinct
  <2>2. CASE appPin \in Outputs /\ Push(appPin, StopEntry)
    <3>1. PICK o \in Outputs : o = appPin /\ Push(o, StopEntry)
      BY <2>2
    <3>2. PICK e \in Entries : e = StopEntry
      BY DEF Entries
    <3>3. /\ \A p \in Outputs, h \in Int : Queued(p, h)' <=> Queued(p, h) \/ (p = o /\ e = FrameEntry(h))
          /\ \A p \in Outputs : Distinct(p) /\ (p = o => \A h \in Int : e = FrameEntry(h) => ~Queued(o, h))
                                  => Distinct(p)'
      BY <1>1, <3>1, <3>2, PushAdds
    <3>4. \A h \in Int : e # FrameEntry(h)
      BY <3>2, EntriesDiffer
    <3> QED
      BY <3>3, <3>4 DEF QuietQueues
  <2> QED
    BY <1>3, <2>1, <2>2
<1>8. QuietOut
  BY <1>3, <1>5, <1>7 DEF QuietOut
<1>9. RefTypes' /\ OrderTypes'
  BY <1>1, <1>3 DEF RefTypes, OrderTypes
<1>10. RefsInv' /\ Moved
  BY <1>6, <1>8, <1>9, QuietStep
<1>11. ASSUME NEW o \in Outputs, Sends(o) PROVE Sends(o)'
  <2>1. outThread'[o] = "send" <=> outThread[o] = "send"
    BY <1>5
  <2>2. CASE outQueue'[o] = outQueue[o]
    <3>1. Steady(o) /\ MediaKept(o)
      BY <1>3, <2>1, <2>2 DEF Steady, MediaKept
    <3> QED
      BY <1>10, <1>11, <3>1, SendsKept
  <2>3. CASE outQueue'[o] # outQueue[o]
    <3>1. appPin \in Outputs /\ Push(appPin, StopEntry) /\ outThread' = outThread
      BY <1>3, <2>3
    <3>2. appPin = o
      <4>1. PICK e \in Entries : e = StopEntry
        BY DEF Entries
      <4>2. PICK p \in Outputs : p = appPin /\ Push(p, e)
        BY <3>1, <4>1
      <4> QED
        BY <1>1, <2>3, <4>2, PushAdds
    <3>3. PICK e \in Entries : e = StopEntry
      BY DEF Entries
    <3>4. Push(o, e) /\ e.marker
      BY <3>1, <3>2, <3>3 DEF StopEntry
    <3>5. sent' = sent /\ accepted' = accepted /\ outPtr' = outPtr
      BY <1>3
    <3> QED
      BY <1>1, <1>11, <3>1, <3>4, <3>5, SendsPushed
  <2> QED
    BY <2>2, <2>3
<1>12. \A o \in Outputs \cap Throwing : sent'[o] = << >>
  BY <1>3 DEF OrderInv
<1> QED
  BY <1>9, <1>10, <1>11, <1>12 DEF OrderInv

\* When the pins are deleted the queues go, and with them the references in them.
LEMMA FramesKeptByDelete ==
  ASSUME ControlInv, RefsInv, OrderInv, AppDelete, UNCHANGED <<poolVars, media, cbOut, accepted>>
  PROVE  NoEarlyRelease' /\ SendsInOrder' /\ (appAt' = "closed" => ~Joinable') /\ Over'
<1>1. /\ appAt' = (IF Joinable THEN "terminated" ELSE "closed")
      /\ outQueue' = [o \in Outputs |-> << >>]
      /\ UNCHANGED <<inThread, inFrame, outThread, outFrame, sent>>
  BY DEF AppDelete, AppGoes, inVars
<1>2. NoEarlyRelease /\ SendsInOrder
  BY RefsMeanNow, OrderMeansNow DEF RefsMean, OrderMeans
<1>3. SendsInOrder'
  BY <1>1, <1>2 DEF SendsInOrder
<1>4. (appAt' = "closed" => ~Joinable') /\ Over'
  BY <1>1 DEF Joinable, Over
<1>5. \A h \in Int : References(h)' \in Nat /\ References(h) \in Nat /\ References(h)' <= References(h)
  <2> SUFFICES ASSUME NEW h \in Int PROVE References(h)' \in Nat /\ References(h) \in Nat /\ References(h)' <= References(h)
    OBVIOUS
  <2>1. QueueRefs(h)' = {}
    BY <1>1 DEF QueueRefs
  <2>2. InputRefs(h)' = InputRefs(h) /\ SendRefs(h)' = SendRefs(h) /\ OutputRefs(h)' = OutputRefs(h)
    BY <1>1 DEF InputRefs, SendRefs, OutputRefs
  <2>3. Cardinality(QueueRefs(h)) \in Nat
    <3>1. Cardinality(QueueRefs(h)) = Cardinality(QueuedAt(h))
      BY QueueCount DEF ControlInv, RefsInv
    <3> QED
      BY <3>1, CountIsNat
  <2>4. Cardinality(QueueRefs(h)') = 0
    BY <2>1, FS_EmptySet
  <2> QED
    BY <2>2, <2>3, <2>4, CountIsNat DEF References
<1>6. NoEarlyRelease'
  <2>1. Handles' = Handles /\ nextHandle' = nextHandle /\ items' = items
    BY DEF Handles, poolVars
  <2>2. \A h \in 0 .. nextHandle - 1 : References(h)' > 0 => h \in Handles
    <3>1. \A h \in 0 .. nextHandle - 1 : h \in Int
      BY DEF ControlInv, ThreadTypes
    <3> QED
      BY <1>2, <1>5, <3>1 DEF NoEarlyRelease
  <2>3. ASSUME NEW k \in DOMAIN items, ~items[k].free, NEW h \in Int, h = items[k].handle
        PROVE  items[k].ref >= References(h)'
    <3>1. items[k].ref >= References(h) /\ items[k].ref \in Int
      BY <1>2, <2>3, ShapeFacts DEF NoEarlyRelease, RefsInv
    <3> QED
      BY <1>5, <3>1
  <2>4. \A k \in DOMAIN items : items[k].handle \in Int
    BY ShapeFacts DEF RefsInv
  <2> QED
    BY <2>1, <2>2, <2>3, <2>4 DEF NoEarlyRelease
<1> QED
  BY <1>3, <1>4, <1>6

LEMMA FramesStep ==
  ASSUME ControlInv, ControlInv', FramesInv, [Next]_vars
  PROVE  FramesInv'
<1>1. CASE UNCHANGED vars
  <2>1. UNCHANGED <<poolVars, media, inVars, outVars, appVars, cbOut, accepted>>
    BY <1>1 DEF vars
  <2> USE <2>1 DEF poolVars, inVars, outVars
  <2>2. \A h : /\ InputRefs(h)' = InputRefs(h) /\ SendRefs(h)' = SendRefs(h) /\ OutputRefs(h)' = OutputRefs(h)
              /\ QueueRefs(h)' = QueueRefs(h) /\ QueuedAt(h)' = QueuedAt(h) /\ KeptAt(h)' = KeptAt(h)
              /\ Live(h)' = Live(h)
    BY DEF InputRefs, SendRefs, OutputRefs, QueueRefs, QueuedAt, KeptAt, Queued, Live
  <2>3. \A h : References(h)' = References(h) /\ Count(h)' = Count(h)
    BY <2>2 DEF References, Count
  <2>4. RefTypes' = RefTypes /\ PoolShape' = PoolShape /\ Pointers' = Pointers /\ OrderTypes' = OrderTypes
    BY DEF RefTypes, PoolShape, Pointers, OrderTypes, HoldsFrame
  <2>5. Counted' = Counted
    BY <2>2, <2>3 DEF Counted
  <2>6. Once' = Once
    BY DEF Once, Distinct, HoldsFrame, Touches, Queued, Sending
  <2>7. \A o \in Outputs : Sends(o)' = Sends(o)
    BY DEF Sends, Numbers, InHand
  <2>8. OrderInv' = OrderInv /\ RefsInv' = RefsInv
    BY <2>4, <2>5, <2>6, <2>7 DEF OrderInv, RefsInv
  <2>9. NoEarlyRelease' = NoEarlyRelease /\ SendsInOrder' = SendsInOrder /\ Joinable' = Joinable /\ Over' = Over
    BY <2>3 DEF NoEarlyRelease, Handles, SendsInOrder, Joinable, Over, appVars
  <2> QED
    BY <2>8, <2>9 DEF FramesInv, appVars
<1>2. CASE Over
  <2>1. ~AppCall /\ ~AppStep
    BY <1>2 DEF Over, AppCall, AppStart, AppStop, AppClose, AppStep, AppGoes, AppStartIn, AppInsStarted, AppStartOut,
                AppMarkOut, AppStarted, AppStopIn, AppClosePin, AppJoinIn, AppInsStopped, AppStopOut, AppPushStop,
                AppJoinOut, AppStopped, AppDelete
  <2>2. ASSUME NEW i \in Inputs, InStep(i), appAt # "terminated" PROVE FALSE
    <3>1. inThread[i] # "none"
      BY <2>2, InStepMoves
    <3>2. ~Joinable
      BY <1>2, <2>2 DEF Over, FramesInv
    <3> QED
      BY <3>1, <3>2 DEF Joinable
  <2>3. ASSUME NEW o \in Outputs, OutStep(o), appAt # "terminated" PROVE FALSE
    <3>1. outThread[o] # "none"
      BY <2>3, OutStepMoves
    <3>2. ~Joinable
      BY <1>2, <2>3 DEF Over, FramesInv
    <3> QED
      BY <3>1, <3>2 DEF Joinable
  <2>4. UNCHANGED vars
    BY <2>1, <2>2, <2>3 DEF Next, Rest, AppThread
  <2> QED
    BY <1>1, <2>4
<1>3. CASE ~Over /\ Next
  <2>1. RefsInv /\ OrderInv /\ appAt # "terminated"
    BY <1>3 DEF FramesInv, Over
  <2>2. ASSUME RefsInv', OrderInv', appAt' # "closed" PROVE FramesInv'
    BY <2>2, RefsMeanNow, OrderMeansNow DEF FramesInv, RefsMean, OrderMeans
  <2>3. CASE AppDelete /\ UNCHANGED <<poolVars, media, cbOut, accepted>>
    BY <2>1, <2>3, FramesKeptByDelete DEF FramesInv
  <2>4. CASE AppTurns /\ UNCHANGED <<poolVars, media, cbOut, accepted>>
    <3>1. RefsInv' /\ OrderInv' /\ appAt' # "closed"
      BY <2>1, <2>4, FramesKeptByApp, AppTurnsMove
    <3> QED
      BY <2>2, <3>1
  <2>5. ASSUME NEW i \in Inputs, InStep(i) PROVE FramesInv'
    <3>1. RefsInv' /\ OrderInv'
      BY <2>1, <2>5, FramesKeptByInput
    <3>2. appAt' = appAt
      BY <2>1, <2>5, InStepMoves DEF appVars
    <3> QED
      BY <1>3, <2>2, <3>1, <3>2 DEF Over
  <2>6. ASSUME NEW o \in Outputs, OutStep(o) PROVE FramesInv'
    <3>1. RefsInv' /\ OrderInv'
      BY <2>1, <2>6, FramesKeptByOutput
    <3>2. appAt' = appAt
      BY <2>1, <2>6, OutStepMoves DEF appVars
    <3> QED
      BY <1>3, <2>2, <3>1, <3>2 DEF Over
  <2>7. AppCall \/ AppThread => (AppTurns \/ AppDelete)
    BY DEF AppThread, AppStep, AppTurns
  <2> QED
    BY <1>3, <2>3, <2>4, <2>5, <2>6, <2>7 DEF Next, Rest, AppThread
<1> QED
  BY <1>1, <1>2, <1>3

LEMMA FramesAlways == Spec => []FramesInv
<1>1. ControlInv /\ ControlInv' /\ FramesInv /\ [Next]_vars => FramesInv'
  BY FramesStep
<1> QED
  BY ControlAlways, FramesInit, <1>1, PTL DEF Spec

\* What the references amount to, wherever the application is.
LEMMA FramesMean ==
  ASSUME ControlInv, FramesInv
  PROVE  NoEarlyRelease /\ NoLeak /\ SendsInOrder
<1>1. CASE Over
  BY <1>1 DEF FramesInv, NoLeak
<1>2. CASE ~Over
  BY <1>2, RefsMeanNow, OrderMeansNow DEF FramesInv, RefsMean, OrderMeans
<1> QED
  BY <1>1, <1>2

(***************************************************************************)
(* What the callbacks, the queues and the outputs may count on.            *)
(***************************************************************************)
\* No frame goes back to the free items of g_vMIFramesArray while an input thread,
\* libvMI_send, an entry of a CQueue or an output thread still uses it, whatever
\* the number of pins and the size of the pool.
THEOREM FramesAreHeld == Spec => []NoEarlyRelease
<1>1. ControlInv /\ FramesInv => NoEarlyRelease
  BY FramesMean
<1> QED
  BY ControlAlways, FramesAlways, <1>1, PTL

\* Until the module is deleted every counted reference has a place that gives it
\* back; only an output whose send throws keeps one.
THEOREM NoFrameIsLost == Spec => []NoLeak
<1>1. ControlInv /\ FramesInv => NoLeak
  BY FramesMean
<1> QED
  BY ControlAlways, FramesAlways, <1>1, PTL

\* What CvMIOutput::_process sends is a prefix of what libvMI_send was given, in the
\* same order and with what the frames carried when they were given, although the
\* frame objects are read again and again.
THEOREM OutputsAreInOrder == Spec => []SendsInOrder
<1>1. ControlInv /\ FramesInv => SendsInOrder
  BY FramesMean
<1> QED
  BY ControlAlways, FramesAlways, <1>1, PTL

=============================================================================
