----------------------------- MODULE ClientCallbacks -----------------------------
(***************************************************************************)
(* The callbacks of the programs that pass frames on.  libvMI calls them   *)
(* in the threads of the inputs, two at a time; none of them takes a lock. *)
(***************************************************************************)
EXTENDS ClientFrames

VARIABLES
  g_q,                  \* of the retarder: the frames it delays
  g_firstInput, g_secondInput, g_init,  \* of the synchronizer
  g_pktTSq,             \* of the probe: how many reports of a pin it holds
  overlapped            \* history: of the retarder, two callbacks sent at the same time

callbackVars == <<g_q, g_firstInput, g_secondInput, g_init, g_pktTSq, overlapped>>

CallbacksInit ==
  g_q = << >> /\ g_firstInput = -1 /\ g_secondInput = -1 /\ g_init = FALSE /\ g_pktTSq = 0
  /\ overlapped = FALSE

keepsFrames == UNCHANGED <<newH, number, watched, last, faults>>
keepsMedia == keepsFrames /\ UNCHANGED <<refs, media>>
Kind(i) == media[hFrame[i]].kind

(***************************************************************************)
(* Video to all outputs: adapter, analyzer, and the two modules of         *)
(* vMI_multinstances, each with an output of its own.                      *)
(***************************************************************************)
\* Variant: the callback releases a frame only when it was not sent.
ForwardsKept(i, outputs) ==
  /\ Returns(i, "tick") /\ keepsFrames /\ UNCHANGED callbackVars
  /\ IF outputs # {}
     THEN /\ queues' = [o \in Outputs |-> IF o \in outputs THEN Append(queues[o], hFrame[i]) ELSE queues[o]]
          /\ Left(hFrame[i], refs[hFrame[i]] + Cardinality(outputs))
     ELSE Releases(hFrame[i])

Forwards(i, outputs) ==
  /\ Returns(i, "tick") /\ Sends(hFrame[i], outputs)
  /\ keepsFrames /\ UNCHANGED callbackVars

VideoTo(i, outputs) == IF IsVideo(Kind(i)) THEN outputs ELSE {}

Adapter(i) == program = "adapter" /\ Forwards(i, VideoTo(i, Wired))
Analyzer(i) == program = "analyzer" /\ Forwards(i, VideoTo(i, Wired))
MultInstances(i) == program = "multinstances" /\ Forwards(i, VideoTo(i, {i}))

\* Video to the first output, audio to the second one.
Demuxer(i) == program = "demuxer" /\ Forwards(i, {IF IsVideo(Kind(i)) THEN 1 ELSE 2})

(***************************************************************************)
(* vMI_converter: 10 bits to 8 in the frame itself, 8 to 10 in a new one.  *)
(***************************************************************************)
ConverterTick(i) ==
  \/ /\ Kind(i) = "audio" /\ Forwards(i, {})
  \/ /\ Kind(i) = "video10" /\ Returns(i, "tick") /\ keepsFrames /\ UNCHANGED callbackVars
     /\ media' = [media EXCEPT ![hFrame[i]].kind = "video8"]
     /\ queues' = [o \in Outputs |-> IF o \in Wired THEN Append(queues[o], hFrame[i]) ELSE queues[o]]
     /\ refs' = [refs EXCEPT ![hFrame[i]] = @ + Cardinality(Wired) - 1]
  \/ /\ Kind(i) = "video8" /\ Goes(i, "tick", "create")
     /\ keepsMedia /\ UNCHANGED <<hFrame, queues, callbackVars>>

\* Without a frame left the new handle is LIBVMI_INVALID_HANDLE, which the callback
\* takes for a frame: it writes through the buffer of no frame.
ConverterCreate(i) ==
  /\ Goes(i, "create", IF Free = {} THEN "crash" ELSE "new")
  /\ IF Free = {} THEN faults' = faults \cup {"crash"} /\ UNCHANGED <<refs, media, newH>>
     ELSE /\ newH' = [newH EXCEPT ![i] = FirstFree] /\ refs' = [refs EXCEPT ![FirstFree] = 1]
          /\ media' = [media EXCEPT ![FirstFree] = [media[hFrame[i]] EXCEPT !.kind = "video10"]]
          /\ UNCHANGED faults
  /\ UNCHANGED <<hFrame, number, queues, watched, last, callbackVars>>

ConverterSend(i) ==
  /\ Goes(i, "new", "tail") /\ Sends(newH[i], Wired)
  /\ newH' = [newH EXCEPT ![i] = 0]
  /\ UNCHANGED <<hFrame, number, watched, last, faults, callbackVars>>

\* Always release the current frame.
ConverterRelease(i) ==
  /\ Returns(i, "tail") /\ Releases(hFrame[i])
  /\ keepsFrames /\ UNCHANGED callbackVars

Converter(i) ==
  /\ program = "converter"
  /\ \/ inAt[i] = "tick" /\ ConverterTick(i)
     \/ ConverterCreate(i) \/ ConverterSend(i) \/ ConverterRelease(i)

(***************************************************************************)
(* vMI_frameretarder: a frame waits until Delay others came after it.      *)
(***************************************************************************)
RetarderPush(i) ==
  /\ Goes(i, "tick", "size")
  /\ g_q' = Append(g_q, hFrame[i]) /\ hFrame' = [hFrame EXCEPT ![i] = 0]
  /\ keepsMedia /\ UNCHANGED <<queues, g_firstInput, g_secondInput, g_init, g_pktTSq, overlapped>>

\* Another callback has taken a frame out of the delay line and not sent it yet: which
\* of the two frames is sent first is open.
Sending == \E j \in Inputs : inAt[j] = "send"

\* Variant: the frame just queued is the one to be sent.
DelayedNewest == [frame |-> Last(g_q), rest |-> Front(g_q)]
Delayed == [frame |-> Head(g_q), rest |-> Tail(g_q)]

RetarderPop(i) ==
  /\ \/ Len(g_q) <= Delay /\ Goes(i, "size", "read") /\ UNCHANGED <<newH, g_q, overlapped>>
     \/ /\ Len(g_q) > Delay /\ Goes(i, "size", "pop") /\ UNCHANGED <<newH, g_q, overlapped>>
     \/ /\ g_q # << >> /\ Goes(i, "pop", "send")
        /\ newH' = [newH EXCEPT ![i] = Delayed.frame] /\ g_q' = Delayed.rest
        /\ overlapped' = (overlapped \/ Sending)
  /\ UNCHANGED <<refs, media, hFrame, number, queues, watched, last, faults, g_firstInput, g_secondInput, g_init, g_pktTSq>>

RetarderSend(i) ==
  /\ Goes(i, "send", "read") /\ Sends(newH[i], Wired)
  /\ newH' = [newH EXCEPT ![i] = 0]
  /\ UNCHANGED <<hFrame, number, watched, last, faults, callbackVars>>

Retarder(i) == program = "retarder" /\ (RetarderPush(i) \/ RetarderPop(i) \/ RetarderSend(i))

(***************************************************************************)
(* vMI_synchronizer: the first two inputs that deliver a frame each get an *)
(* output; frames before that are dropped.                                 *)
(***************************************************************************)
IdentifiesFirst(i) == g_firstInput \in {-1, i}

SyncTick(i) ==
  /\ Goes(i, "tick", IF g_init THEN "route" ELSE IF IdentifiesFirst(i) THEN "first"
                     ELSE IF g_secondInput = -1 THEN "second" ELSE "tail")
  /\ keepsMedia /\ UNCHANGED <<hFrame, queues, callbackVars>>

\* Variant: frames are passed on as soon as the first input is known.
SyncFirstOpens(i) ==
  /\ Goes(i, "first", "tail") /\ g_firstInput' = i /\ g_init' = TRUE
  /\ keepsMedia /\ UNCHANGED <<hFrame, queues, g_q, g_secondInput, g_pktTSq, overlapped>>

SyncFirst(i) ==
  /\ Goes(i, "first", "tail") /\ g_firstInput' = i
  /\ keepsMedia /\ UNCHANGED <<hFrame, queues, g_q, g_secondInput, g_init, g_pktTSq, overlapped>>

SyncSecond(i) ==
  /\ \/ Goes(i, "second", "init") /\ g_secondInput' = i /\ UNCHANGED g_init
     \/ Goes(i, "init", "tail") /\ g_init' = TRUE /\ UNCHANGED g_secondInput
  /\ keepsMedia /\ UNCHANGED <<hFrame, queues, g_q, g_firstInput, g_pktTSq, overlapped>>

OutputOf(i) == IF g_firstInput = i THEN 1 ELSE 2

SyncRoute(i) ==
  /\ \/ Returns(i, "route") /\ Sends(hFrame[i], {OutputOf(i)})
     \/ Returns(i, "tail") /\ Releases(hFrame[i])
  /\ keepsFrames /\ UNCHANGED callbackVars

Synchronizer(i) ==
  program = "synchronizer" /\ (SyncTick(i) \/ SyncFirst(i) \/ SyncSecond(i) \/ SyncRoute(i))

(***************************************************************************)
(* vMI_probe empties the queue of reports the pins fill.                   *)
(***************************************************************************)
ProbeReport ==
  /\ program = "probe" /\ Running /\ \E i \in Inputs : inAt[i] = "read"
  /\ g_pktTSq = 0 /\ g_pktTSq' = 1
  /\ UNCHANGED <<frameVars, faults, g_q, g_firstInput, g_secondInput, g_init, overlapped>>

ProbeTakes(i) ==
  /\ \/ g_pktTSq > 0 /\ (Goes(i, "tick", "pop") \/ Goes(i, "size", "pop")) /\ UNCHANGED g_pktTSq
     \/ g_pktTSq > 0 /\ Goes(i, "pop", "size") /\ g_pktTSq' = g_pktTSq - 1
  /\ keepsMedia /\ UNCHANGED <<hFrame, queues, g_q, g_firstInput, g_secondInput, g_init, overlapped>>

ProbeReleases(i) ==
  /\ g_pktTSq = 0 /\ (Returns(i, "tick") \/ Returns(i, "size")) /\ Releases(hFrame[i])
  /\ keepsFrames /\ UNCHANGED callbackVars

Probe(i) == program = "probe" /\ (ProbeTakes(i) \/ ProbeReleases(i))

Callback(i) ==
  \/ Adapter(i) \/ Analyzer(i) \/ MultInstances(i) \/ Demuxer(i) \/ Converter(i)
  \/ Retarder(i) \/ Synchronizer(i) \/ Probe(i)
=============================================================================
