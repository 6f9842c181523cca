------------------------------ MODULE SmpteSender ------------------------------
(***************************************************************************)
(* The SMPTE 2022-6 output: the output thread puts video and audio on the  *)
(* lines of one frame buffer it keeps (CvMIStreamerCisco2022_6), and sends *)
(* the buffer in packets with each video frame (CHBRMPPacketizer).  At the *)
(* other end a buffer of the SMPTE input takes them, see SmpteFrame.       *)
(***************************************************************************)
EXTENDS SmpteProfiles, FiniteSets

CONSTANTS
  PktsPerFrame, \* packets of a frame
  Numbers,      \* range of the sequence number, 65536 in RTP
  Geometry,     \* the profile frames are sent in: "1080i59.94", whatever the media is
  PayloadIds,   \* the lines that carry a payload identifier where control packets are
  Audios,       \* audio frames: sequences of <<line, "data" or "control">>
  MaxFrames,    \* bound: video frames sent
  MaxFailures   \* bound: packets the socket refuses

ASSUME SenderAssumption ==
  /\ MaxFrames \in Nat /\ MaxFailures \in Nat /\ PayloadIds \subseteq 1 .. Geometry.lines
  /\ Geometry.lines % PktsPerFrame = 0

\* The buffer at the other end, which takes all media.
Other == INSTANCE SmpteFrame WITH SeqRange <- Numbers, VideoOnly <- FALSE

VARIABLES
  profile,      \* the one found for the video frames that come, 0 for none
  first,        \* _firstvMIFrame
  frame,        \* the buffer, by line
  pos,          \* packets of it that were sent, when it is being sent
  sent,         \* the buffers that were sent, or are; their number is _frameCount
  video, audio, \* history: the last picture, and the last audio frame put on the buffer
  rcv,          \* the buffer at the other end
  out,          \* what came out of it last
  fails         \* packets that were refused

vars == <<profile, first, frame, pos, sent, video, audio, rcv, out, fails>>

\* The media headers that come: those of the profiles, and one of none.
Medias == {[w |-> p.w, h |-> p.h, rate |-> p.rate, field |-> p.interlaced] : p \in Range(Profiles)}
          \cup {[w |-> 640, h |-> 480, rate |-> 2500, field |-> FALSE]}

Lines == 1 .. Geometry.lines
Rows == 0 .. Geometry.h - 1
Black == -1
Nothing == [video |-> << >>, audio |-> << >>, of |-> -1]

\* prepareFrame.
Prepared ==
  [l \in Lines |-> [v |-> VOf(Geometry, l), f |-> FOf(Geometry, l), active |-> Black, data |-> << >>,
                    control |-> IF l \in PayloadIds THEN << "id" >> ELSE << >>]]

\* Variant: the second field is put right behind the first.
WithVideoAfter(f, n) ==
  [l \in Lines |-> [f[l] EXCEPT !.active =
     IF l \in Geometry.begin1 .. Geometry.begin1 + Geometry.h - 1 THEN n ELSE @]]

\* insertVideoContentToSMPTEFrame, with COMPUTE_CRC_FLAG false: the checks stay as they are.
WithVideo(f, n) ==
  [l \in Lines |-> [f[l] EXCEPT !.active = IF \E i \in Rows : LineOf(Geometry, i) = l THEN n ELSE @]]

\* Packets of an audio frame, a place on a line for each kind: they overwrite from the first place.
Over(old, new) == [j \in 1 .. (IF Len(new) > Len(old) THEN Len(new) ELSE Len(old)) |-> IF j <= Len(new) THEN new[j] ELSE old[j]]
On(a, l, kind) == SelectSeq(a, LAMBDA q : q[1] = l /\ q[2] = kind)

\* Variant: both kinds share the places of the data packets.
WithAudioInOne(f, a) ==
  [l \in Lines |-> [f[l] EXCEPT !.data = Over(Over(@, On(a, l, "data")), On(a, l, "control"))]]

\* insertAudioContentToSMPTEFrame.
WithAudio(f, a) ==
  [l \in Lines |-> [f[l] EXCEPT !.data = Over(@, On(a, l, "data")), !.control = Over(@, On(a, l, "control"))]]

Init ==
  /\ \E media \in Medias : profile = FromMedia(media)
  /\ first = TRUE /\ frame = Prepared /\ pos = PktsPerFrame
  /\ sent = << >> /\ video = 0 /\ audio = << >> /\ rcv = Other!NewFrame /\ out = Nothing /\ fails = 0

Idle == pos = PktsPerFrame

\* A video frame: one of no profile is refused, as long as none was taken.
SendVideo ==
  /\ Idle /\ Len(sent) < MaxFrames /\ (profile # 0 \/ ~first)
  /\ first' = FALSE /\ video' = 1 - video /\ pos' = 0
  /\ frame' = WithVideo(IF first THEN Prepared ELSE frame, 1 - video)
  /\ sent' = Append(sent, frame')
  /\ UNCHANGED <<profile, audio, rcv, out, fails>>

\* An audio frame, dropped before the first video frame.
SendAudio ==
  /\ Idle /\ ~first /\ Len(sent) < MaxFrames
  /\ \E a \in Audios :
       LET named == [j \in DOMAIN a |-> a[j] \o <<j, Len(sent) % 2>>] IN
       audio' = named /\ frame' = WithAudio(frame, named)
  /\ UNCHANGED <<profile, first, pos, sent, video, rcv, out, fails>>

\* Lines of the packet n of the buffers that were sent.
LinesOf(n) ==
  LET k == Geometry.lines \div PktsPerFrame IN
  SubSeq(sent[Other!FrameOf(n) + 1], (n % PktsPerFrame) * k + 1, (n % PktsPerFrame) * k + k)
Received(f) == IF \E n \in DOMAIN f.data : f.data[n] = Other!JUNK THEN << >> ELSE FlattenSeq([n \in DOMAIN f.data |-> LinesOf(f.data[n])])

\* _extractSMPTEVideoContent, _extractSMPTEAudioContent.
VideoIn(ls) == [i \in 1 .. Geometry.h |-> ls[LineOf(Geometry, i - 1)].active]
AudioIn(ls) == FlattenSeq([l \in DOMAIN ls |-> ls[l].data \o SelectSeq(ls[l].control, LAMBDA q : q # "id")])

\* The loop of CHBRMPPacketizer::send: the result of a write is not looked at.
SendPacket ==
  LET n == (Len(sent) - 1) * PktsPerFrame + pos
      f == Other!AddPacket(rcv, n)
      ls == Received(f)
  IN
  /\ ~Idle /\ pos' = pos + 1
  /\ \/ /\ fails < MaxFailures /\ fails' = fails + 1 /\ UNCHANGED <<rcv, out>>
     \/ /\ rcv' = (IF f.complete THEN Other!Reset(f) ELSE f) /\ UNCHANGED fails
        /\ out' = IF f.complete /\ ls # << >>
                  THEN [video |-> VideoIn(ls), audio |-> AudioIn(ls), of |-> Other!FrameOf(n)] ELSE out
  /\ UNCHANGED <<profile, first, frame, sent, video, audio>>

\* Nothing more is sent.
Done == Idle /\ (Len(sent) = MaxFrames \/ (first /\ profile = 0)) /\ UNCHANGED vars

Next == SendVideo \/ SendAudio \/ SendPacket \/ Done

Spec == Init /\ [][Next]_vars

TypeOK ==
  /\ profile \in 0 .. Len(Profiles) /\ first \in BOOLEAN /\ pos \in 0 .. PktsPerFrame
  /\ Len(sent) <= MaxFrames /\ rcv \in Other!Frames /\ out.of \in -1 .. MaxFrames - 1

\* A frame that comes out is one that was sent: the picture of that frame in all its
\* rows, and its audio, whatever packets were lost and whatever came on the buffer since.
FramesArrive ==
  out # Nothing =>
    /\ \A i \in DOMAIN out.video : out.video[i] = (out.of + 1) % 2
    /\ out.audio = AudioIn(sent[out.of + 1])

\* The packets of an audio frame are on the lines of the buffer they came with, those of
\* a kind in their order, before any the buffer kept.
AudioIsThere ==
  \A l \in Lines : /\ IsPrefix(On(audio, l, "data"), frame[l].data)
                   /\ IsPrefix(On(audio, l, "control"), frame[l].control)

\* The lines marked as video are those a picture is put on, the first and the second
\* field are told apart, and a receiver of the headers finds the geometry of the
\* profile, but for the two links of level B, which the headers do not tell.
LinesAreMarked ==
  first /\ profile # 0 =>
    LET p == Profiles[profile]
        rows == {LineOf(p, i) : i \in 0 .. p.h - 1}
        found == FromHeader(HeaderOf(p))
    IN
    /\ \A l \in 1 .. p.lines : VOf(p, l) <=> l \notin rows
    /\ \A i \in 0 .. p.h - 1 : FOf(p, LineOf(p, i)) <=> p.interlaced /\ i % 2 = 1
    /\ found # 0 /\ [Profiles[found] EXCEPT !.name = "", !.standard = "", !.map = 0]
                     = [p EXCEPT !.name = "", !.standard = "", !.map = 0]

\* The threads that take a frame of two links apart write all words of the half frames,
\* and no two of them write to one byte.
HalvesAreWhole ==
  first /\ profile # 0 /\ Profiles[profile].map = 1 =>
    LET p == Profiles[profile] IN
    /\ FirstWord(p, 9) + WordsTaken(p) = Words(p)
    /\ \A t \in 0 .. 8 : FirstWord(p, t) + WordsTaken(p) = FirstWord(p, t + 1)
    /\ \A t \in 0 .. 9 : (10 * FirstWord(p, t)) % 8 = 0 /\ 8 * FirstByte(p, t) = 20 * FirstWord(p, t)
=============================================================================
