------------------------------ MODULE ClientFrames ------------------------------
(***************************************************************************)
(* What a program of vMIModules sees of libvMI: inputs whose threads call  *)
(* it with a frame it then owns, outputs that send the frames it queues.   *)
(* FramePool and VmiModule are about the library; here a frame is its item *)
(* in the list and a call of the library is one step.                      *)
(***************************************************************************)
EXTENDS Integers, Sequences, FiniteSets, SequencesExt

CONSTANTS
  Programs,    \* the programs that are run
  TwoInputs,   \* bound: those run with one and with two inputs
  OneOutput,   \* bound: those run with one output; the others have two
  Delay,       \* g_nbFrameToDelay of the retarder
  Spare,       \* frames in the list, without those it delays
  Kinds        \* kinds of frames on the inputs, see Given

ASSUME ClientAssumption ==
  /\ TwoInputs \subseteq Programs /\ OneOutput \subseteq {"adapter", "analyzer", "converter", "retarder"}
  /\ Delay \in Nat /\ Spare \in Nat \ {0}
  /\ Kinds \subseteq {"video8", "video10", "audio", "rgb", "bgr"}

VARIABLES
  program, inputs,      \* the program of this behaviour and its number of inputs
  mainAt,               \* its main thread
  refs, media,          \* per frame of the list: references to it, what it carries
  inAt, hFrame, newH,   \* per input: its thread, the frame of the callback, one it made
  number,               \* per input: of its next video frame
  queues,               \* per output: the frames it has to send
  watched, last,        \* history: an output, the number of the last frame it sent of each input
  faults                \* history: what went wrong

frameVars == <<refs, media, inAt, hFrame, newH, number, queues, watched, last>>
Inputs == 1 .. inputs
Outputs == {1, 2}
Wired == IF program \in OneOutput THEN {1} ELSE Outputs
Numbers == {0, 1}       \* frames are numbered modulo 2
Limit == Spare + IF program = "retarder" THEN Delay ELSE 0
Frames == 1 .. Limit

None == [in |-> 0, kind |-> "none", n |-> 0]
IsVideo(kind) == kind # "audio"

\* The formats of a picture matter to the programs that show them, which get audio
\* like all others; depths matter to the converter.  The retarder does not look at what
\* a frame is.
Shown == {"rgb", "bgr"}
Given == CASE program \in {"videoplayer", "winvideoplayer"} -> Kinds \cap (Shown \cup {"audio"})
           [] program = "converter" -> Kinds \ Shown
           [] program = "retarder" -> Kinds \cap {"video8"}
           [] OTHER -> Kinds \ (Shown \cup {"video10"})

Running == mainAt \notin {"options", "begin", "created", "ended", "stuck", "crashed"}

\* libvMI_stop_module joins the inputs one by one; each ends between two callbacks.
Quit(i) == mainAt = "stopping" /\ \A j \in 1 .. i - 1 : inAt[j] = "joined"

\* libvmi_frame_create, for one who may get no frame.
Free == {k \in Frames : refs[k] = 0}
FirstFree == CHOOSE k \in Free : \A j \in Free : k <= j

\* The frames that are told apart by a number: the properties need it of no audio and
\* of none the OpenCV player shows.
Numbered(kind) == IsVideo(kind) /\ program # "winvideoplayer"

\* CvMIInput::_process: a frame arrives and the callback is called; without a
\* frame in the list it is dropped.
Tick(i) ==
  /\ Running /\ ~Quit(i) /\ inAt[i] = "read" /\ Free # {}
  /\ \E kind \in Given :
       /\ media' = [media EXCEPT ![FirstFree] = [in |-> i, kind |-> kind, n |-> IF Numbered(kind) THEN number[i] ELSE 0]]
       /\ number' = [number EXCEPT ![i] = IF Numbered(kind) THEN 1 - @ ELSE @]
  /\ refs' = [refs EXCEPT ![FirstFree] = 1]
  /\ hFrame' = [hFrame EXCEPT ![i] = FirstFree]
  /\ inAt' = [inAt EXCEPT ![i] = "tick"]
  /\ UNCHANGED <<newH, queues, watched, last, faults>>

Goes(i, from, to) == inAt[i] = from /\ inAt' = [inAt EXCEPT ![i] = to]

\* What a free frame carries is forgotten.
Left(k, n) ==
  /\ refs' = [refs EXCEPT ![k] = n]
  /\ media' = IF n = 0 THEN [media EXCEPT ![k] = None] ELSE media

\* libvMI_send to each of the outputs, and libvmi_frame_release.
Sends(k, outputs) ==
  /\ queues' = [o \in Outputs |-> IF o \in outputs THEN Append(queues[o], k) ELSE queues[o]]
  /\ Left(k, refs[k] + Cardinality(outputs) - 1)

Releases(k) == Left(k, refs[k] - 1) /\ UNCHANGED queues

\* The callback returns.
Returns(i, from) == Goes(i, from, "read") /\ hFrame' = [hFrame EXCEPT ![i] = 0]

\* The number of the frame an output owes next to the input of m; the synchronizer
\* drops the first ones.
NextOf(m) ==
  IF last[m.in] # -1 THEN 1 - last[m.in] ELSE IF program = "synchronizer" THEN m.n ELSE 0

\* CvMIOutput::_process sends the next frame and gives its reference back.  What it sends
\* of each input is looked at until it sends a frame that is not next.
OutSends(o) ==
  LET k == Head(queues[o])  m == media[k] IN
  /\ Running /\ queues[o] # << >>
  /\ queues' = [queues EXCEPT ![o] = Tail(@)]
  /\ Left(k, refs[k] - 1)
  /\ IF o = watched /\ IsVideo(m.kind) /\ "order" \notin faults
     THEN /\ last' = IF m.n = NextOf(m) THEN [last EXCEPT ![m.in] = m.n] ELSE [i \in Inputs |-> -1]
          /\ faults' = faults \cup (IF m.n # NextOf(m) THEN {"order"} ELSE {})
                        \cup (IF program = "synchronizer" /\ \E i \in Inputs \ {m.in} : last[i] # -1
                              THEN {"mixed"} ELSE {})
     ELSE UNCHANGED <<last, faults>>
  /\ UNCHANGED <<inAt, hFrame, newH, number, watched>>

\* Those that give their outputs the same, or have none: one output stands for both.
SameOutputs == {"adapter", "analyzer", "converter", "retarder", "probe", "videoplayer", "winvideoplayer"}

FramesInit ==
  /\ program \in Programs /\ inputs \in (IF program \in TwoInputs THEN {1, 2} ELSE {1})
  /\ refs = [k \in Frames |-> 0] /\ media = [k \in Frames |-> None]
  /\ inAt = [i \in Inputs |-> "read"]
  /\ hFrame = [i \in Inputs |-> 0] /\ newH = [i \in Inputs |-> 0] /\ number = [i \in Inputs |-> 0]
  /\ queues = [o \in Outputs |-> << >>]
  /\ watched \in (IF program \in SameOutputs THEN {1} ELSE Outputs) /\ last = [i \in Inputs |-> -1]
  /\ faults = {}
=============================================================================
