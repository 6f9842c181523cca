------------------------------- MODULE Streams -------------------------------
(***************************************************************************)
(* One input pin of a kind, the sender it reads, and the application.      *)
(***************************************************************************)
EXTENDS RtpPin, Tr03Pin, Aes67Pin

TypeOK ==
  /\ pin \in Pins /\ sender \in Senders
  /\ snd \in [seq : 0 .. SeqMod - 1, f : 0 .. FrameMod - 1, part : Nat, n : Nat]
  /\ good \in 0 .. 2 /\ lost \in 0 .. MaxLoss /\ fails \in 0 .. MaxFail
  /\ Len(net) <= 2 /\ sock \in BOOLEAN /\ (deaf => sock)
  /\ at \in {"loop", "read", "align", "first", "next", "read1", "audio", "crashed", "ended"}
  /\ stopAt \in {"run", "flag", "join", "done"}
  /\ lastSeq \in -1 .. SeqMod - 1 /\ need \in 0 .. MaxParts + MaxLen /\ base \in 0 .. SeqMod - 1
  /\ {wait, detected, hole, broken, missed} \subseteq BOOLEAN
  /\ pin = "rtp" => Len(cur) <= need /\ need <= MaxParts
  /\ pin = "aes67" => need <= MaxLen

Init ==
  /\ pin \in Pins
  /\ sender \in (IF pin = "tr03" THEN Senders ELSE {CHOOSE s \in Senders : TRUE})
  /\ snd = [seq |-> 0, f |-> 0, part |-> 0, n |-> 0] /\ good = 0 /\ lost = 0 /\ fails = 0
  /\ net = << >> /\ sock = FALSE /\ deaf = FALSE /\ at = "loop" /\ stopAt = "run"
  /\ \/ pin = "rtp" /\ RtpInit
     \/ pin = "tr03" /\ Tr03Init
     \/ pin = "aes67" /\ AesInit
  /\ lastSeq = -1 /\ need = 0 /\ detected = FALSE /\ base = 0 /\ hole = FALSE
  /\ broken = FALSE /\ missed = FALSE

Sends == \/ pin = "rtp" /\ RtpSends
         \/ pin = "tr03" /\ Tr03Sends
         \/ pin = "aes67" /\ AesSends

Reads == \/ Loop
         \/ pin = "rtp" /\ RtpReads
         \/ pin = "tr03" /\ Tr03Reads
         \/ pin = "aes67" /\ AesReads

Stops == StopPin \/ StopJoin

Next == Sends \/ Reads \/ StopFlag \/ Stops

\* The threads run.
Spec == Init /\ [][Next]_vars /\ WF_vars(Reads) /\ WF_vars(Stops)

\* The stream goes on: again and again the last packet of a frame comes, and the
\* packet after such a one.
Comes == Sends /\ net' # << >>
Goes == /\ WF_vars(Sends)
        /\ SF_vars(Comes /\ \E i \in DOMAIN net' : net'[i].m)
        /\ SF_vars(Comes /\ good > 0)
LiveSpec == Spec /\ Goes

(***************************************************************************)
(* Properties.                                                             *)
(***************************************************************************)
\* A frame the application gets is one frame of the sender: over RTP all its
\* packets in order, unless there was a hole where the sequence number wraps
\* (SeesGap does not look there); over TR03 every byte of the picture
\* at its place, when no packet was lost since the frame before; over AES67 the
\* samples of each packet at the time its number says, and silence for the lost.
GivenFramesAreWhole == ~broken

\* When a frame and the one before it came without a loss, the application gets
\* it: an earlier error of the pin costs no more than that (wait for the end of a
\* frame, discard until the marker).  No packet comes to a socket that is deaf.
WholeFramesAreGiven == ~missed

\* While the stream goes on the application can stop the module, also when the pin
\* opens its socket again after stop() has closed it.  A TR03 pin returns only with
\* a frame, so it must be one it can read; an AES67 pin may crash; and both wait for
\* ever on a socket that could not be bound, which stop() does not close or has closed.
StopReturns ==
  (stopAt = "flag" /\ (pin = "tr03" => sender = "same"))
    ~> (stopAt = "done" \/ at = "crashed" \/ (deaf /\ pin # "rtp"))

\* The stop of the module ends well whatever the reading thread is doing.
NeverCrashes == at # "crashed"
=============================================================================
