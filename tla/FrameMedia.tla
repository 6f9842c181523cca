------------------------------ MODULE FrameMedia ------------------------------
(***************************************************************************)
(* The frame objects behind the items of the pool (CvMIFrame): what an     *)
(* object carries is the number of the frame last read into it.  The       *)
(* states of a pin and of a module (State in common.h).                    *)
(***************************************************************************)
EXTENDS FramePool

VARIABLE media          \* per frame object: the frame read into it last, 0 if none

EMPTY == 0

\* The state an object or a thread is in before libvMI_start and after libvMI_stop.
STOPPED == "STATE_STOPPED"
STARTED == "STATE_STARTED"
States == {STOPPED, STARTED}

MediaTypeOK == media \in [1 .. MaxFrames -> Nat]

MediaInit == media = [p \in 1 .. MaxFrames |-> EMPTY]

\* createFrameFrom*: the pin fills the buffer of the object.
Fill(p, m) == media' = [media EXCEPT ![p] = m]

=============================================================================
