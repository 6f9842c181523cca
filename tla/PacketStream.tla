---------------------------- MODULE PacketStream ----------------------------
(***************************************************************************)
(* What the pins that read a stream of RTP packets share: a sender, a      *)
(* network that loses packets, the socket, the reading thread of the       *)
(* module and the application that stops it.  Streams.tla puts the pins    *)
(* RtpPin, Tr03Pin and Aes67Pin on it.                                     *)
(***************************************************************************)
EXTENDS Integers, Sequences

CONSTANTS
  Pins,        \* the pins to check: a subset of {"rtp", "tr03", "aes67"}
  Senders,     \* who sends to a TR03 pin: a subset of {"same", "own", "tall"}
  SeqMod,      \* sequence numbers are modulo this
  MaxParts,    \* bound: packets of a frame sent over RTP
  MaxLoss,     \* bound: packets lost in a row
  MaxFail      \* bound: opens and sends that fail

FrameMod == 3  \* frames are numbered modulo this: more than are mixed at a time

ASSUME StreamAssumption ==
  /\ Pins \subseteq {"rtp", "tr03", "aes67"} /\ Senders \subseteq {"same", "own", "tall"}
  /\ {SeqMod, MaxParts} \subseteq Nat \ {0} /\ {MaxLoss, MaxFail} \subseteq Nat
  /\ MaxLoss + 1 < SeqMod

VARIABLES
  pin, sender,                      \* the kind of pin; who sends
  snd, good, lost, fails,           \* the sender and what the network lost
  net, sock,                        \* packets in the socket; is it open
  deaf,                             \* it is open, but not bound or not in its group
  at, stopAt,                       \* the reading thread; the application
  lastSeq, wait, cur, need, detected, base, hole,  \* the pin
  broken, missed                    \* history, see Streams

sndVars == <<snd, good, lost>>
rcvVars == <<lastSeq, wait, cur, need, detected, base, hole>>
vars == <<pin, sender, sndVars, fails, net, sock, deaf, at, stopAt, rcvVars, broken, missed>>

Next16(n) == (n + 1) % SeqMod
bStarted == stopAt \in {"run", "flag"}
quit == stopAt # "run"

\* One packet more.  The network gives it, loses it or, which only the TR03 pin
\* looks for, gives it twice.  A packet has ok = 2 when it and all packets of the
\* frame before it were given once the socket was open.
Emit(n, m, pt, copies) ==
  LET p == [seq |-> snd.seq, f |-> snd.f, part |-> snd.part, n |-> n, m |-> m, pt |-> pt, ok |-> good]
      given == IF sock /\ ~deaf THEN copies ELSE 0 IN
  /\ net = << >>
  /\ given = 0 /\ sock /\ ~deaf => lost < MaxLoss
  /\ lost' = IF given = 0 /\ sock /\ ~deaf THEN lost + 1 ELSE 0
  /\ net' = [i \in 1 .. given |-> p]
  /\ good' = IF given = 0 THEN 0 ELSE IF m /\ good < 2 THEN good + 1 ELSE good
  /\ snd' = [seq |-> Next16(snd.seq),
             f |-> IF m THEN (snd.f + 1) % FrameMod ELSE snd.f,
             part |-> IF m THEN 0 ELSE snd.part + 1,
             n |-> IF m THEN 0 ELSE n]
  /\ UNCHANGED <<pin, sender, fails, sock, deaf, at, stopAt, rcvVars, broken, missed>>

\* A loop of CvMIInput::_process: a frame is made and read() is called.
Loop ==
  /\ at = "loop"
  /\ at' = IF quit THEN "ended" ELSE "read"
  /\ UNCHANGED <<pin, sender, sndVars, fails, net, sock, deaf, stopAt, rcvVars, broken, missed>>

\* read() opens the socket when it is not open.
Opens == sock' = TRUE /\ UNCHANGED <<fails, deaf>>

\* There is no socket: addresses that are not resolved leave the family unset.
OpenFails == ~sock /\ fails < MaxFail /\ fails' = fails + 1 /\ UNCHANGED <<sock, deaf>>

\* configureSocket cannot bind or join the group: openSocket returns an error, and
\* the socket stays open.
OpensDeaf == ~sock /\ fails < MaxFail /\ fails' = fails + 1 /\ sock' = TRUE /\ deaf' = TRUE

Packet == Head(net)
Takes == net # << >> /\ sock /\ net' = Tail(net)

\* A frame is given to the application, or read() returns an error.
Give(bad) == at' = "loop" /\ broken' = (broken \/ bad)
Drops == at' = "loop" /\ UNCHANGED broken

\* CvMIInput::stop: the flags, the stop() of the pin, and the join.
StopFlag ==
  /\ stopAt = "run" /\ stopAt' = "flag"
  /\ UNCHANGED <<pin, sender, sndVars, fails, net, sock, deaf, at, rcvVars, broken, missed>>

Closes == sock' = FALSE /\ deaf' = FALSE /\ net' = << >> /\ good' = 0

StopPin ==
  /\ stopAt = "flag" /\ stopAt' = "join"
  /\ IF pin = "tr03" THEN UNCHANGED <<sock, deaf, net, good>> ELSE Closes
  /\ UNCHANGED <<pin, sender, snd, lost, fails, at, rcvVars, broken, missed>>

StopJoin ==
  /\ stopAt = "join" /\ at = "ended" /\ stopAt' = "done"
  /\ UNCHANGED <<pin, sender, sndVars, fails, net, sock, deaf, at, rcvVars, broken, missed>>
=============================================================================
