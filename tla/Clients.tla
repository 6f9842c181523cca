-------------------------------- MODULE Clients --------------------------------
(***************************************************************************)
(* The programs of vMIModules, one in each behaviour: main creates and     *)
(* starts a module, waits to be told to end, stops and closes the module.  *)
(***************************************************************************)
EXTENDS ClientCallbacks, ClientPlayers

VARIABLES
  debug,                \* the option -d: main sleeps and sets no handler of signals
  heard                 \* a signal came while main waited, or g_bExit is set

vars == <<program, inputs, mainAt, frameVars, faults, callbackVars, playerVars, debug, heard>>

\* Those whose main waits for the condition variable g_var; the players look at g_bExit.
Loopers == {"videoplayer", "winvideoplayer"}
HaveDebug == {"adapter", "analyzer", "demuxer", "synchronizer", "probe", "multinstances"}
Waits == IF program \in Loopers THEN "loop" ELSE "condition"

TypeOK ==
  /\ program \in Programs /\ inputs \in {1, 2} /\ heard \in BOOLEAN
  /\ debug \in BOOLEAN /\ (debug => program \in HaveDebug)
  /\ mainAt \in {"options", "begin", "created", "locked", "sleeping", "waiting", "woken", "stopping", "ended",
                "stuck", "crashed"}
  /\ refs \in [Frames -> Nat] /\ number \in [Inputs -> Numbers]
  /\ \A i \in Inputs : {hFrame[i], newH[i]} \subseteq Frames \cup {0}
  /\ Len(g_q) <= Delay + inputs /\ g_pktTSq \in {0, 1}
  /\ g_secondInput # -1 => {g_firstInput, g_secondInput} = Inputs
  /\ events \in 0 .. MaxItems /\ Len(items) <= MaxItems + 1
  /\ overlapped \in BOOLEAN /\ (overlapped => program = "retarder") /\ (g_cells # 0 => program = "winvideoplayer")

Init ==
  /\ FramesInit /\ CallbacksInit /\ PlayersInit /\ heard = FALSE /\ mainAt = "options"
  /\ debug \in (IF program \in HaveDebug THEN BOOLEAN ELSE {FALSE})
  /\ program = "multinstances" => inputs = 2

MainGoes(from, to) == mainAt = from /\ mainAt' = to
mainOnly == UNCHANGED <<program, inputs, frameVars, faults, callbackVars, playerVars>>

\* The command line: help, the version or no configuration end the program.
MainOptions ==
  /\ mainAt = "options" /\ mainAt' \in {"begin", "ended"}
  /\ UNCHANGED <<debug, heard>> /\ mainOnly

\* libvMI_create_module, under g_mtx: a configuration it refuses ends the program.
MainCreates ==
  /\ mainAt = "begin" /\ mainAt' \in {"created", "ended"}
  /\ UNCHANGED <<debug, heard>> /\ mainOnly

\* libvMI_start_module, of both modules if there are two.
MainStarts ==
  /\ MainGoes("created", IF Waits = "condition" THEN "locked" ELSE "waiting")
  /\ UNCHANGED <<debug, heard>> /\ mainOnly

\* With the option -d main does not wait for a signal, and keeps g_mtx.
MainSleeps ==
  /\ debug /\ (MainGoes("locked", "sleeping") \/ MainGoes("sleeping", "stopping"))
  /\ UNCHANGED <<debug, heard>> /\ mainOnly

\* The signal handler runs in the main thread: the others block signals.  While main
\* holds the mutex the handler takes, g_mtx or that of g_q, it waits for itself for
\* ever; before main waits for g_var nobody hears the signal.  Without a handler it
\* ends the program.
Signal ==
  /\ ~heard
  /\ \/ /\ debug \/ mainAt = "options"
        /\ mainAt \notin {"ended", "crashed"} /\ mainAt' = "ended" /\ UNCHANGED heard
     \/ /\ ~debug /\ mainAt \in {"begin", "created", "locked", "waiting"} /\ Waits = "condition"
        /\ mainAt' = CASE mainAt = "begin" -> "begin" [] mainAt = "waiting" -> "woken" [] OTHER -> "stuck"
        /\ heard' = (mainAt = "waiting")
     \/ /\ mainAt \in {"begin", "created", "waiting"} /\ program = "videoplayer"
        /\ heard' = TRUE /\ UNCHANGED mainAt
  /\ UNCHANGED debug /\ mainOnly

\* The handler of the OpenCV player sets g_bExit and queues a picture.
WinSignal ==
  /\ ~heard /\ program = "winvideoplayer" /\ mainAt \in {"begin", "created", "waiting"}
  /\ IF QueueIsHeld THEN mainAt' = "stuck" /\ UNCHANGED <<heard, items>>
     ELSE heard' = TRUE /\ items' = Append(items, FakeItem) /\ UNCHANGED mainAt
  /\ UNCHANGED <<program, inputs, debug, frameVars, faults, callbackVars, drawAt, g_mtx, g_xbuffer, g_frame_size,
                 events, picture, g_channels, g_cells>>

MainWaits == ~debug /\ MainGoes("locked", "waiting") /\ UNCHANGED <<debug, heard>> /\ mainOnly
MainUnlocks == MainGoes("woken", "stopping") /\ UNCHANGED <<debug, heard>> /\ mainOnly

\* The loop of a player: g_bExit is looked at before each turn.
MainLoops ==
  /\ mainAt = "waiting" /\ drawAt = "tested" /\ drawAt' = IF heard THEN "tested" ELSE "loop"
  /\ mainAt' = IF heard THEN "stopping" ELSE mainAt
  /\ UNCHANGED <<program, inputs, debug, heard, frameVars, faults, callbackVars, g_mtx, g_xbuffer,
                 g_frame_size, events, picture, items, g_channels, g_cells>>

\* The OpenCV player ends at a key as well.
MainKey ==
  /\ mainAt = "waiting" /\ drawAt = "tested" /\ mainAt' = "stopping"
  /\ UNCHANGED <<debug, heard>> /\ mainOnly

\* libvMI_stop_module joins the inputs, then the outputs; libvMI_close.
MainStopsInput(i) ==
  /\ Quit(i) /\ Goes(i, "read", "joined")
  /\ UNCHANGED <<program, inputs, mainAt, debug, heard, refs, media, hFrame, newH, number, queues, watched, last,
                 faults, callbackVars, playerVars>>
MainCloses ==
  /\ \A i \in Inputs : inAt[i] = "joined"
  /\ MainGoes("stopping", "ended") /\ UNCHANGED <<debug, heard>> /\ mainOnly

StopsAndCloses == MainCloses \/ \E i \in Inputs : MainStopsInput(i)

\* The mains.  All create a module and start it, wait, stop it and close it.
OnSignal == MainOptions \/ MainCreates \/ MainStarts \/ MainWaits \/ MainUnlocks \/ StopsAndCloses
AdapterMain == program = "adapter" /\ (OnSignal \/ MainSleeps)
AnalyzerMain == program = "analyzer" /\ (OnSignal \/ MainSleeps)
ConverterMain == program = "converter" /\ OnSignal
DemuxerMain == program = "demuxer" /\ (OnSignal \/ MainSleeps)
RetarderMain == program = "retarder" /\ OnSignal
SynchronizerMain == program = "synchronizer" /\ (OnSignal \/ MainSleeps)
ProbeMain == program = "probe" /\ (OnSignal \/ MainSleeps)
MultInstancesMain == program = "multinstances" /\ (OnSignal \/ MainSleeps)
VideoPlayerMain == program = "videoplayer" /\ (MainOptions \/ MainCreates \/ MainStarts \/ MainLoops \/ StopsAndCloses)
WinPlayerMain ==
  program = "winvideoplayer" /\ (MainOptions \/ MainCreates \/ MainStarts \/ MainLoops \/ MainKey \/ StopsAndCloses)

Main ==
  \/ AdapterMain \/ AnalyzerMain \/ ConverterMain \/ DemuxerMain \/ RetarderMain
  \/ SynchronizerMain \/ ProbeMain \/ MultInstancesMain \/ VideoPlayerMain \/ WinPlayerMain

\* The process ends when a callback crashes, or main.
Survives(crashes) == mainAt' = (IF crashes THEN "crashed" ELSE mainAt) /\ UNCHANGED <<program, inputs, debug, heard>>

CallsBack(i) ==
  /\ Running
  /\ \/ Callback(i) /\ UNCHANGED playerVars
     \/ Shows(i) /\ UNCHANGED callbackVars
  /\ Survives(inAt'[i] = "crash")

Reads(i) == Tick(i) /\ UNCHANGED <<program, inputs, mainAt, debug, heard, callbackVars, playerVars>>

Draw == mainAt = "waiting" /\ Window /\ Survives(drawAt' = "crash") /\ UNCHANGED callbackVars

Send(o) == OutSends(o) /\ UNCHANGED <<program, inputs, mainAt, debug, heard, callbackVars, playerVars>>

Report == ProbeReport /\ UNCHANGED <<program, inputs, mainAt, debug, heard, playerVars>>

Next ==
  \/ Main \/ Signal \/ WinSignal \/ Draw \/ Report
  \/ \E i \in Inputs : Reads(i) \/ CallsBack(i)
  \/ \E o \in Outputs : Send(o)

\* Main and two callbacks take the mutex of the X11 player again and again: main and the
\* first callback get it in the end, and the second one when main has joined the first.
Spec ==
  /\ Init /\ [][Next]_vars
  /\ WF_vars(Main) /\ SF_vars(Draw)
  /\ SF_vars(CallsBack(1)) /\ WF_vars(2 \in Inputs /\ CallsBack(2))

\* The references to a frame that somebody will release.
Owners(k) ==
  Cardinality({i \in Inputs : hFrame[i] = k}) + Cardinality({i \in Inputs : newH[i] = k})
  + Cardinality({n \in DOMAIN g_q : g_q[n] = k})
  + Cardinality({n \in DOMAIN queues[1] : queues[1][n] = k}) + Cardinality({n \in DOMAIN queues[2] : queues[2][n] = k})

\* Every reference to a frame of the list has an owner: a callback, the queue of an
\* output, the delay line.  One too many and the list runs empty, one too few and a
\* frame is filled again while an output sends it.
FramesAreOwned == \A k \in Frames : refs[k] = Owners(k)

\* An output sends the video frames of an input in their order, each once: the
\* retarder must send the oldest frame it holds and no other.  With two inputs it pops
\* and sends in two threads without a lock; until two of them did so together the order
\* holds, after that it does not.
OutputsKeepOrder == overlapped \/ "order" \notin faults

\* The synchronizer gives each of two inputs an output of its own, although the
\* threads of both identify it together and without a lock.
InputsKeepTheirOutputs == "mixed" \in faults => program # "synchronizer"

\* g_mtx is to "protect ximage buffer" (vMI_videoplayer.cpp:30): an image is never drawn
\* half from one frame and half from another, although the buffer is made again without
\* the mutex for every frame of another format, in two threads if there are two inputs.
ImagesAreNotMixed == "torn" \notin faults

\* What else the main of a player needs to look at g_bExit again: XNextEvent returns when
\* there are events, so frames must go on; the inner loop of the OpenCV player ends when
\* g_q is empty.
WindowTurns ==
  \/ program \notin Loopers \/ mainAt # "waiting"
  \/ program = "videoplayer" /\ (events > 0 \/ drawAt # "loop")
  \/ program = "winvideoplayer" /\ drawAt = "tested"

\* A signal whose handler returns, while main waits, ends the program, whatever the
\* callbacks do at that time, if its window turns; a handler that waits for a mutex of
\* main never returns.
ProgramEnds == []<>WindowTurns => (heard ~> mainAt \in {"ended", "crashed"})

\* The converter works with the frames the list has.
NeverCrashes == mainAt # "crashed"
=============================================================================
