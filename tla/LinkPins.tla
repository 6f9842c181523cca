------------------------------- MODULE LinkPins -------------------------------
(***************************************************************************)
(* What the pins that join two modules share: the output pin of one module *)
(* sends frame after frame, the input pin of the other one reads them in   *)
(* the thread of CvMIInput, and an application stops that one.  TcpPins    *)
(* and ShmPins are the two links; Transport.tla puts them together.        *)
(***************************************************************************)
EXTENDS Integers, Sequences, SequencesExt

CONSTANTS
  Links,       \* a subset of {"tcpIn", "tcpOut", "shm"}: the pin that listens
  MaxBreaks    \* bound: connections that break, senders that start again

FrameMod == 3  \* frames are numbered modulo this

ASSUME LinkAssumption ==
  Links \subseteq {"tcpIn", "tcpOut", "shm"} /\ MaxBreaks \in Nat

VARIABLES
  link,                 \* the link of this behaviour
  at, stopAt,           \* the reading thread; the application that stops it
  outAt, f, breaks,     \* the sending thread and the number of its frame
  turn, broken          \* history: changes with each frame of the sender given; a bad one was given

commonVars == <<link, at, stopAt, outAt, f, breaks, turn, broken>>

quit == stopAt # "run"

\* A frame has a word of headers and one or two of media; the headers say how many.
Size(n) == 2 + (n % 2)
Words(n) == [i \in 1 .. Size(n) |-> <<n, i - 1>>]

\* A loop of CvMIInput::_process.
Loop ==
  /\ at = "loop" /\ at' = IF quit THEN "ended" ELSE "read"
  /\ UNCHANGED <<link, stopAt, outAt, f, breaks, turn, broken>>

\* The pin gives a frame, or read() returns an error.
Gives(words, n, excused) ==
  /\ at' = "loop" /\ turn' = 1 - turn
  /\ broken' = (broken \/ (words # Words(n) /\ ~excused))

\* read() succeeds without a frame: the callback gets what it was called with.
GivesNoWords(excused) ==
  at' = "loop" /\ UNCHANGED turn /\ broken' = (broken \/ ~excused)

GivesNone == at' = "loop" /\ UNCHANGED <<turn, broken>>

\* The sender is done with a frame, sent or not.
NextFrame == outAt' = "idle" /\ f' = (f + 1) % FrameMod

StopFlag ==
  /\ stopAt = "run" /\ stopAt' = "flag"
  /\ UNCHANGED <<link, at, outAt, f, breaks, turn, broken>>

StopPinCalled ==
  /\ stopAt = "flag" /\ stopAt' = "join"
  /\ UNCHANGED <<link, at, outAt, f, breaks, turn, broken>>

StopJoin ==
  /\ stopAt = "join" /\ at = "ended" /\ stopAt' = "done"
  /\ UNCHANGED <<link, at, outAt, f, breaks, turn, broken>>
=============================================================================
