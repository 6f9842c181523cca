----------------------------- MODULE SmpteProfiles -----------------------------
(***************************************************************************)
(* The profiles of SMPTE frames (CSMPTPProfile), what the HBRMP header of  *)
(* a packet says of one, and where on the lines of a frame video is.       *)
(* Lines are numbered from 1, rates are in hundredths of Hertz.            *)
(***************************************************************************)
EXTENDS Integers, Sequences, SequencesExt

Row(name, standard, w, h, pixels, lines, begin1, begin2, rate) ==
  [name |-> name, standard |-> standard, map |-> IF standard = "425BDL" THEN 1 ELSE 0,
   w |-> w, h |-> h, pixels |-> pixels, lines |-> lines, begin1 |-> begin1, begin2 |-> begin2,
   rate |-> rate, interlaced |-> begin2 # 0]

\* g_profile.  All have two components of 10 bits.
Profiles == <<
  Row("525i29.97", "259M", 720, 486, 858, 525, 20, 283, 2997),
  Row("625i25", "259M", 720, 576, 864, 625, 23, 336, 2500),
  Row("1080p30", "292M", 1920, 1080, 2200, 1125, 42, 0, 3000),
  Row("1080p29.97", "292M", 1920, 1080, 2200, 1125, 42, 0, 2997),
  Row("1080p25", "292M", 1920, 1080, 2640, 1125, 42, 0, 2500),
  Row("1080i50", "292M", 1920, 1080, 2640, 1125, 21, 584, 2500),
  Row("720p60", "292M", 1280, 720, 1650, 750, 26, 0, 6000),
  Row("720p59.94", "292M", 1280, 720, 1650, 750, 26, 0, 5994),
  Row("720p50", "292M", 1280, 720, 1980, 750, 26, 0, 5000),
  Row("1080i59.94", "292M", 1920, 1080, 2200, 1125, 21, 584, 2997),
  Row("1080i60", "292M", 1920, 1080, 2200, 1125, 21, 584, 3000),
  Row("1080p50 LvlB DL", "425BDL", 1920, 1080, 2640, 1125, 42, 0, 5000),
  Row("1080p59.94 LvlB DL", "425BDL", 1920, 1080, 2200, 1125, 42, 0, 5994),
  Row("1080p60 LvlB DL", "425BDL", 1920, 1080, 2200, 1125, 42, 0, 6000),
  Row("1080p50 LvlB A", "425A", 1920, 1080, 2640, 1125, 42, 0, 5000),
  Row("1080p59.94 LvlA", "425A", 1920, 1080, 2200, 1125, 42, 0, 5994),
  Row("1080p60 LvlA", "425A", 1920, 1080, 2200, 1125, 42, 0, 6000) >>

\* g_FRAME: code, active pixels and lines, lines, interlaced; g_FRATE.
FRAME == <<
  <<16, 720, 486, 525, TRUE>>, <<17, 720, 576, 625, TRUE>>, <<32, 1920, 1080, 1125, TRUE>>,
  <<33, 1920, 1080, 1125, FALSE>>, <<34, 1920, 1080, 1125, FALSE>>, <<35, 2048, 1080, 1125, FALSE>>,
  <<36, 2048, 1080, 1125, FALSE>>, <<48, 1280, 720, 750, FALSE>> >>
FRATE == <<
  <<16, 6000>>, <<17, 5994>>, <<18, 5000>>, <<20, 4800>>, <<21, 4795>>, <<22, 3000>>, <<23, 2997>>,
  <<24, 2500>>, <<26, 2400>>, <<27, 2397>> >>

\* initFixedHBRMPValuesFromProfile and writeHeader: what the packets say of a profile.
HeaderOf(p) ==
  LET frm == SelectInSeq(FRAME, LAMBDA f : <<p.w, p.h, p.lines, p.interlaced>> = Tail(f))
      frate == SelectInSeq(FRATE, LAMBDA f : f[2] = p.rate)
  IN  [map |-> 0, frm |-> IF frm = 0 THEN 0 ELSE FRAME[frm][1],
       frate |-> IF frate = 0 THEN 0 ELSE FRATE[frate][1]]

\* initProfileFromHBRMP: the first profile like that, 0 when there is none.
FromHeader(header) ==
  LET frm == SelectInSeq(FRAME, LAMBDA f : f[1] = header.frm)
      frate == SelectInSeq(FRATE, LAMBDA f : f[1] = header.frate)
  IN  IF frm = 0 \/ frate = 0 THEN 0
      ELSE SelectInSeq(Profiles, LAMBDA p : <<p.w, p.h, p.lines, p.interlaced, p.rate, p.map>>
                         = Tail(FRAME[frm]) \o <<FRATE[frate][2], header.map>>)

\* initProfileFromIP2VF: the first profile of the size, rate and kind of a video frame.
FromMedia(m) ==
  SelectInSeq(Profiles, LAMBDA p : <<p.w, p.h, p.rate, p.interlaced>> = <<m.w, m.h, m.rate, m.field>>)

\* The line of row i (from 0) of a picture: even rows are in the first field.
LineOf(p, i) ==
  IF ~p.interlaced THEN p.begin1 + i
  ELSE (i \div 2) + IF i % 2 = 0 THEN p.begin1 ELSE p.begin2

\* Variant: the second field ends one line early.
VOfOneEarly(p, l) ==
  \/ l < p.begin1
  \/ p.interlaced /\ l >= p.begin1 + p.h \div 2 /\ l < p.begin2
  \/ p.interlaced /\ l >= p.begin2 - 1 + p.h \div 2
  \/ ~p.interlaced /\ l >= p.begin1 + p.h

\* _getXYZ: the bits V (no video on the line) and F (second field).
VOf(p, l) ==
  \/ l < p.begin1
  \/ p.interlaced /\ l >= p.begin1 + p.h \div 2 /\ l < p.begin2
  \/ p.interlaced /\ l >= p.begin2 + p.h \div 2
  \/ ~p.interlaced /\ l >= p.begin1 + p.h
FOf(p, l) == p.interlaced /\ l > p.begin1 - 1 + p.h \div 2 + 3

\* _demuxSMPTE425MBDLFrame: ten threads each take a run of the words of a half frame
\* and put pairs of words to it; 10 bits make a word.
Words(p) == (8 * ((p.pixels * 2 * 10) \div 8) * p.lines) \div 10
Share(p) == Words(p) \div 10
FirstWord(p, t) == t * Share(p)

\* Variant: the offset in bytes is that of the words of one half frame.
FirstByteOfHalf(p, t) == (t * Share(p) * 10) \div 8

WordsTaken(p) == 2 * (Share(p) \div 2)
FirstByte(p, t) == (t * Share(p) * 5) \div 2
=============================================================================
