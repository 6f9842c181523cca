--------------------------- MODULE SmpteInput_proofs ---------------------------
(***************************************************************************)
(* For every length of a frame, every range of the sequence number and any *)
(* number of buffers, packets and restarts: a complete frame has exactly   *)
(* the packets of one frame, and a frame whose packets all came in order   *)
(* is complete; and a reader that keeps up reads frames in the order of    *)
(* the stream.                                                             *)
(***************************************************************************)
EXTENDS SmpteInput, TLAPS

(***************************************************************************)
(* A buffer, whoever has it.                                               *)
(***************************************************************************)
\* len packets one after the other, n the last of them.
Run(n, len) == [j \in 1 .. len |-> n - len + j]

Buffer(f) ==
  /\ f \in Frames /\ f.size \in {0, PktsPerFrame}
  /\ f.firstPacket => f.len = 0 /\ f.data = << >> /\ ~f.complete
  /\ f.complete => f.size # 0 /\ ~f.wait /\ Sound(f.data)

\* A buffer that does not wait and has packets of a frame: those up to the last one
\* it was given, n, without an end marker among them.
Carries(f, n) ==
  ~f.wait /\ ~f.firstPacket =>
    /\ f.lastSeq = SeqOf(n) /\ f.len \in 1 .. n + 1
    /\ \A k \in n - f.len + 1 .. n : ~IsEndOfFrame(k)
    /\ f.size # 0 => f.data = Run(n, f.len)

(***************************************************************************)
(* The buffer the receiving thread fills: the last packet it was given is  *)
(* the last that came, and the network has not gone far beyond it.         *)
(***************************************************************************)
LastGiven(b) == given[b][Len(given[b])]

Filling ==
  LET f == frames[rcvPtr]  n == LastGiven(rcvPtr) IN
  rcvAt = "fill" /\ ~f.complete /\ ~f.firstPacket =>
    /\ given[rcvPtr] # << >> /\ n \in Nat
    /\ rcvSeq = SeqOf(n) /\ n < next /\ next <= n + 1 + Late
    /\ Carries(f, n)

(***************************************************************************)
(* What a buffer was given since an end marker decides what it has.        *)
(***************************************************************************)
BeginOf(g, k) == g # << >> /\ Len(g) < PktsPerFrame /\ \A j \in 1 .. Len(g) : g[j] = k * PktsPerFrame + j - 1

\* After an end marker a buffer is ready for the next frame ...
Ready ==
  \A b \in Buffers : frames[b].size # 0 /\ EndsGiven(b) =>
    ~frames[b].wait /\ (frames[b].complete \/ frames[b].firstPacket)

\* ... and takes each packet of that frame that comes in its turn.
Takes ==
  \A b \in Buffers, k \in Nat : frames[b].size # 0 /\ BeginOf(given[b], k) =>
    /\ ~frames[b].wait /\ ~frames[b].firstPacket /\ ~frames[b].complete
    /\ frames[b].len = Len(given[b])

Types ==
  /\ frames \in [Buffers -> Frames] /\ given \in [Buffers -> Seq(Nat \cup {STOP})]
  /\ rcvPtr \in Buffers /\ next \in Nat

FrameInv ==
  /\ Types /\ \A b \in Buffers : Buffer(frames[b])
  /\ Filling /\ Ready /\ Takes /\ GoodFramesComplete

(***************************************************************************)
(* Whole division.                                                         *)
(***************************************************************************)
LEMMA DivMod ==
  ASSUME NEW n \in Int, NEW d \in Int, d > 0
  PROVE  n = d * (n \div d) + (n % d) /\ n % d \in 0 .. d - 1 /\ n \div d \in Int
<1>1. n = d * (n \div d) + (n % d)
  BY SMTT(60)
<1>2. n % d \in 0 .. d - 1 /\ n \div d \in Int
  OBVIOUS
<1> QED
  BY <1>1, <1>2

\* A multiple of d that is nearer to 0 than d.
LEMMA NearZero ==
  ASSUME NEW d \in Int, d > 0, NEW q \in Int, -d < d * q, d * q < d
  PROVE  q = 0
<1>1. q >= 1 => d * q >= d
  OBVIOUS
<1>2. q <= -1 => d * q <= -d
  OBVIOUS
<1> QED
  BY <1>1, <1>2

LEMMA DivIs ==
  ASSUME NEW d \in Int, d > 0, NEW q \in Int, NEW r \in 0 .. d - 1, NEW n \in Int, n = d * q + r
  PROVE  n \div d = q /\ n % d = r
<1>1. PICK p \in Int, s \in 0 .. d - 1 : p = n \div d /\ s = n % d /\ n = d * p + s
  BY DivMod
<1>2. d * (p - q) = r - s
  <2>1. d * p - d * q = r - s
    BY <1>1
  <2>2. d * (p - q) = d * p - d * q
    OBVIOUS
  <2> QED
    BY <2>1, <2>2
<1>3. p - q = 0
  <2>1. -d < r - s /\ r - s < d
    BY <1>1
  <2> QED
    BY <1>2, <2>1, NearZero
<1>4. p = q /\ s = r
  BY <1>2, <1>3
<1> QED
  BY <1>1, <1>4

\* Sequence numbers: numbers nearer than a turn are told apart.
LEMMA SameRest ==
  ASSUME NEW m \in Int, NEW n \in Int, NEW d \in Int, d > 0, n % d = m % d, -d < n - m, n - m < d
  PROVE  n = m
<1>1. PICK p \in Int, q \in Int, r \in 0 .. d - 1 : n = d * p + r /\ m = d * q + r
  BY DivMod
<1>2. d * (p - q) = n - m
  <2>1. d * p - d * q = n - m
    BY <1>1
  <2>2. d * (p - q) = d * p - d * q
    OBVIOUS
  <2> QED
    BY <2>1, <2>2
<1>3. p - q = 0
  BY <1>2, NearZero
<1>4. p = q
  BY <1>3
<1> QED
  BY <1>1, <1>4

LEMMA NextRest ==
  ASSUME NEW n \in Int, NEW d \in Int, d > 0
  PROVE  ((n % d) + 1) % d = (n + 1) % d
<1>1. PICK q \in Int, r \in 0 .. d - 1 : q = n \div d /\ r = n % d /\ n = d * q + r
  BY DivMod
<1>2. CASE r + 1 < d
  <2>1. n + 1 = d * q + (r + 1) /\ r + 1 \in 0 .. d - 1 /\ n + 1 \in Int
    BY <1>1, <1>2
  <2>2. (n + 1) % d = r + 1
    BY <1>1, <2>1, DivIs
  <2>3. (r + 1) % d = r + 1
    BY <1>1, <1>2
  <2> QED
    BY <1>1, <2>2, <2>3
<1>3. CASE r + 1 = d
  <2>1. n + 1 = d * (q + 1) + 0 /\ 0 \in 0 .. d - 1
    <3>1. d * (q + 1) = d * q + d
      OBVIOUS
    <3> QED
      BY <1>1, <1>3, <3>1
  <2>2. d = d * 1 + 0
    OBVIOUS
  <2>3. (n + 1) % d = 0
    BY <2>1, DivIs
  <2>4. d % d = 0
    BY <2>1, <2>2, DivIs
  <2> QED
    BY <1>1, <1>3, <2>3, <2>4
<1> QED
  BY <1>1, <1>2, <1>3

(***************************************************************************)
(* Frames of the stream.                                                   *)
(***************************************************************************)
LEMMA Sizes ==
  /\ PktsPerFrame \in Int /\ PktsPerFrame > 0 /\ SeqRange \in Int /\ SeqRange > 1
  /\ NbBuffers \in Int /\ NbBuffers > 0 /\ 0 \in Buffers
  /\ Skipped \in Nat /\ Late \in Nat /\ MaxPackets \in Nat /\ Skipped + Late + 2 <= SeqRange
BY FrameAssumption, InputAssumption DEF Buffers

\* The packets of a frame: the last one, and no other, has the end marker.
LEMMA FrameEnds ==
  ASSUME NEW k \in Nat, NEW j \in 1 .. PktsPerFrame
  PROVE  /\ k * PktsPerFrame + j - 1 \in Nat /\ FrameOf(k * PktsPerFrame + j - 1) = k
         /\ IsEndOfFrame(k * PktsPerFrame + j - 1) <=> j = PktsPerFrame
<1>1. PICK p \in Int : p = PktsPerFrame /\ p > 0
  BY Sizes
<1>2. k * p + j - 1 = p * k + (j - 1) /\ j - 1 \in 0 .. p - 1 /\ k * p + j - 1 \in Int
  BY <1>1
<1>3. (k * p + j - 1) \div p = k /\ (k * p + j - 1) % p = j - 1
  BY <1>1, <1>2, DivIs
<1>4. k * p >= 0
  BY <1>1
<1> QED
  BY <1>1, <1>2, <1>3, <1>4 DEF FrameOf, IsEndOfFrame

\* Packets one after the other without an end marker are less than a frame.
LEMMA ShortRun ==
  ASSUME NEW n \in Nat, NEW len \in 0 .. n + 1, \A k \in n - len + 1 .. n : ~IsEndOfFrame(k)
  PROVE  len < PktsPerFrame
<1>1. PICK p \in Int : p = PktsPerFrame /\ p > 0
  BY Sizes
<1> SUFFICES ASSUME len >= p PROVE FALSE
  BY <1>1
<1>2. PICK q \in Int, r \in 0 .. p - 1 : n + 1 = p * q + r
  <2>1. PICK x \in Int : x = n + 1
    OBVIOUS
  <2>2. x = p * (x \div p) + (x % p) /\ x % p \in 0 .. p - 1 /\ x \div p \in Int
    BY <1>1, DivMod
  <2> QED
    BY <2>1, <2>2
<1>3. n - r \in n - len + 1 .. n /\ n - r \in Int
  BY <1>1, <1>2
<1>4. n - r = p * (q - 1) + (p - 1) /\ p - 1 \in 0 .. p - 1
  <2>1. p * (q - 1) = p * q - p
    BY <1>1
  <2> QED
    BY <1>1, <1>2, <2>1
<1>5. (n - r) % p = p - 1
  <2>1. PICK x \in Int : x = n - r
    BY <1>3
  <2>2. PICK y \in Int : y = q - 1
    BY <1>2
  <2>3. x = p * y + (p - 1)
    BY <1>4, <2>1, <2>2
  <2>4. x % p = p - 1
    BY <1>1, <1>4, <2>3, DivIs
  <2> QED
    BY <2>1, <2>4
<1> QED
  BY <1>1, <1>3, <1>5 DEF IsEndOfFrame

\* Packets one after the other up to an end marker, with none before, are at most
\* a frame, and if they are as many they are that frame.
LEMMA WholeRun ==
  ASSUME NEW n \in Nat, IsEndOfFrame(n), NEW len \in 1 .. n + 1,
         \A k \in n - len + 1 .. n - 1 : ~IsEndOfFrame(k)
  PROVE  len <= PktsPerFrame /\ (len = PktsPerFrame => Sound(Run(n, len)))
<1>1. PICK p \in Int : p = PktsPerFrame /\ p > 0
  BY Sizes
<1>2. PICK q \in Int : n = p * q + (p - 1)
  BY <1>1, DivMod DEF IsEndOfFrame
<1>3. len <= p
  <2>1. CASE len = 1
    BY <1>1, <2>1
  <2>2. CASE len # 1
    <3>1. n - 1 \in Nat /\ len - 1 \in 0 .. (n - 1) + 1 /\ (n - 1) - (len - 1) + 1 = n - len + 1
      BY <2>2
    <3>2. len - 1 < PktsPerFrame
      BY <3>1, ShortRun
    <3> QED
      BY <1>1, <3>2
  <2> QED
    BY <2>1, <2>2
<1>4. ASSUME len = p PROVE Sound(Run(n, len))
  <2>1. n - p + 1 = p * q /\ n - p + 1 >= 0 /\ q * p = p * q
    BY <1>1, <1>2, <1>4
  <2>2. q >= 0
    <3>1. q <= -1 => p * q <= -p
      BY <1>1
    <3> QED
      BY <1>1, <2>1, <3>1
  <2>3. q \in Nat /\ 1 \in 1 .. PktsPerFrame
    BY <1>1, <2>2
  <2>4. FrameOf(q * p) = q
    <3>1. FrameOf(q * PktsPerFrame + 1 - 1) = q
      BY <2>3, FrameEnds
    <3>2. q * PktsPerFrame + 1 - 1 = q * p
      BY <1>1, <2>3
    <3> QED
      BY <3>1, <3>2
  <2>5. \A j \in 1 .. p : n - p + j = q * p + j - 1
    BY <1>1, <2>1
  <2>6. Run(n, p) = FramePackets(q)
    BY <1>1, <2>5 DEF Run, FramePackets
  <2>7. Run(n, p)[1] = q * p /\ Run(n, p) # << >>
    BY <1>1, <2>1, <2>5 DEF Run
  <2> QED
    BY <1>4, <2>4, <2>6, <2>7 DEF Sound
<1> QED
  BY <1>1, <1>3, <1>4

(***************************************************************************)
(* addRTPPacket.                                                           *)
(***************************************************************************)
LEMMA BufferReset ==
  ASSUME NEW f, Buffer(f)
  PROVE  /\ Buffer(Reset(f)) /\ Reset(f).firstPacket /\ ~Reset(f).complete
         /\ Reset(f).size = f.size /\ Reset(f).wait = f.wait /\ Reset(f).lastSeq = f.lastSeq
         /\ Buffer(Abort(f)) /\ Abort(f).firstPacket /\ Abort(f).wait /\ ~Abort(f).complete
         /\ Buffer([Reset(f) EXCEPT !.wait = FALSE])
<1>1. f \in Frames /\ f.size \in {0, PktsPerFrame}
  BY DEF Buffer
<1>2. /\ Reset(f) \in Frames /\ Reset(f).firstPacket = TRUE /\ Reset(f).complete = FALSE
      /\ Reset(f).size = f.size /\ Reset(f).wait = f.wait /\ Reset(f).lastSeq = f.lastSeq
      /\ Reset(f).len = 0 /\ Reset(f).data = << >>
  <2>1. << >> \in Seq(Nat \cup {JUNK})
    OBVIOUS
  <2>2. Reset(f) = [wait |-> f.wait, firstPacket |-> TRUE, lastSeq |-> f.lastSeq, size |-> f.size,
                    len |-> 0, data |-> << >>, complete |-> FALSE, avail |-> f.avail]
    <3>1. PICK e : e = << >>
      OBVIOUS
    <3>2. Reset(f) = [f EXCEPT !.firstPacket = TRUE, !.len = 0, !.data = e, !.complete = FALSE]
      BY <3>1 DEF Reset
    <3>3. Reset(f) = [wait |-> f.wait, firstPacket |-> TRUE, lastSeq |-> f.lastSeq, size |-> f.size,
                      len |-> 0, data |-> e, complete |-> FALSE, avail |-> f.avail]
      BY <1>1, <3>2 DEF Frames
    <3> QED
      BY <3>1, <3>3
  <2>3. f.wait \in BOOLEAN /\ f.lastSeq \in {-1} \cup 0 .. SeqRange - 1 /\ f.size \in Nat /\ f.avail \in Seq(Media)
    BY <1>1 DEF Frames
  <2> QED
    BY <2>1, <2>2, <2>3 DEF Frames
<1>3. \A w \in BOOLEAN : \A g : g = [Reset(f) EXCEPT !.wait = w] =>
        /\ g \in Frames /\ g.firstPacket = TRUE /\ g.complete = FALSE /\ g.wait = w
        /\ g.size = f.size /\ g.len = 0 /\ g.data = << >>
  BY <1>2 DEF Frames
<1>4. \A g \in Frames : g.firstPacket = TRUE /\ g.complete = FALSE /\ g.size = f.size
                          /\ g.len = 0 /\ g.data = << >> => Buffer(g)
  BY <1>1 DEF Buffer
<1>5. Buffer(Reset(f)) /\ \A w \in BOOLEAN : Buffer([Reset(f) EXCEPT !.wait = w])
  BY <1>2, <1>3, <1>4
<1> QED
  BY <1>2, <1>3, <1>5 DEF Abort

LEMMA RunGrows ==
  ASSUME NEW n \in Nat, NEW len \in Nat
  PROVE  /\ Run(n, len) \in Seq(Nat \cup {JUNK}) \/ len > n + 1
         /\ Len(Run(n, len)) = len
         /\ Append(Run(n, len), n + 1) = Run(n + 1, len + 1)
<1>1. Len(Run(n, len)) = len /\ Run(n, len) \in Seq(Int)
  BY DEF Run
<1>2. len <= n + 1 => Run(n, len) \in Seq(Nat \cup {JUNK})
  BY DEF Run
<1>3. Append(Run(n, len), n + 1) = Run(n + 1, len + 1)
  <2>1. PICK s : s = Run(n, len)
    OBVIOUS
  <2>2. Len(s) = len /\ s \in Seq(Int) /\ \A j \in 1 .. len : s[j] = n - len + j
    BY <1>1, <2>1 DEF Run
  <2>3. PICK t : t = Append(s, n + 1)
    OBVIOUS
  <2>4. /\ t \in Seq(Int) /\ Len(t) = len + 1 /\ DOMAIN t = 1 .. len + 1
        /\ \A j \in 1 .. len : t[j] = s[j]
        /\ t[len + 1] = n + 1
    BY <2>2, <2>3
  <2>5. \A j \in 1 .. len + 1 : t[j] = (n + 1) - (len + 1) + j
    BY <2>2, <2>4
  <2>6. t = [j \in 1 .. len + 1 |-> (n + 1) - (len + 1) + j]
    BY <2>4, <2>5
  <2> QED
    BY <2>1, <2>3, <2>6 DEF Run
<1> QED
  BY <1>1, <1>2, <1>3

LEMMA CompleteBuffer ==
  ASSUME NEW f \in Frames, f.size = PktsPerFrame, ~f.wait, ~f.firstPacket, Sound(f.data)
  PROVE  Buffer(Complete(f)) /\ Complete(f).complete /\ ~Complete(f).wait
<1>1. MediaBuffers \in Seq(Media)
  <2>1. "VIDEO" \in Media /\ "AUDIO" \in Media /\ "ANC" \in Media
    BY DEF Media
  <2> QED
    BY <2>1 DEF MediaBuffers
<1>2. /\ Complete(f) \in Frames /\ Complete(f).complete = TRUE /\ Complete(f).wait = f.wait
      /\ Complete(f).firstPacket = f.firstPacket /\ Complete(f).size = f.size /\ Complete(f).data = f.data
  BY <1>1 DEF Complete, Frames
<1> QED
  BY <1>2, Sizes DEF Buffer

\* A buffer that takes the packet: it is the first of a run, or the next one.
LEMMA BufferKeeps ==
  ASSUME NEW f, Buffer(f), ~f.complete, ~f.wait, NEW n \in Nat, f.lastSeq = SeqOf(n),
         f.firstPacket \/ (n > 0 /\ f.len \in 1 .. n
                           /\ (\A k \in n - f.len .. n - 1 : ~IsEndOfFrame(k))
                           /\ (f.size # 0 => f.data = Run(n - 1, f.len))),
         NEW g, g = Keep(f, n)
  PROVE  /\ Buffer(g) /\ (~g.complete => Carries(g, n))
         /\ ~IsEndOfFrame(n) => /\ ~g.wait /\ ~g.firstPacket /\ ~g.complete
                                /\ g.len = f.len + 1 /\ g.size = f.size
         /\ IsEndOfFrame(n) /\ g.size # 0 => ~g.wait /\ (g.complete \/ g.firstPacket)
         /\ IsEndOfFrame(n) /\ f.size # 0 /\ f.len + 1 = PktsPerFrame => g.complete
         /\ g.size = f.size \/ g.complete
<1>1. PICK len \in Nat : len = f.len
  BY DEF Buffer, Frames
<1>2. /\ len \in 0 .. n
      /\ \A k \in n - len .. n - 1 : ~IsEndOfFrame(k)
      /\ f.size # 0 => Len(f.data) = len /\ Append(f.data, n) = Run(n, len + 1)
  <2>1. CASE f.firstPacket
    <3>1. len = 0 /\ f.data = << >>
      BY <1>1, <2>1 DEF Buffer
    <3>2. Append(<< >>, n) = Run(n, 1)
      BY DEF Run
    <3> QED
      BY <3>1, <3>2
  <2>2. CASE ~f.firstPacket
    <3>1. f.size # 0 => f.data = Run(n - 1, len) /\ n - 1 \in Nat
      BY <1>1, <2>2
    <3>2. PICK m \in Nat : m = n - 1 /\ n = m + 1
      BY <1>1, <2>2
    <3>3. Len(Run(m, len)) = len /\ Append(Run(m, len), m + 1) = Run(m + 1, len + 1)
      BY RunGrows
    <3>4. f.size # 0 => f.data = Run(m, len)
      BY <3>1, <3>2
    <3>5. f.size # 0 => Len(f.data) = len /\ Append(f.data, n) = Run(n, len + 1)
      BY <3>2, <3>3, <3>4
    <3> QED
      BY <1>1, <2>2, <3>5
  <2> QED
    BY <2>1, <2>2
<1>3. len < PktsPerFrame
  <2>1. CASE n = 0
    BY <1>2, <2>1, Sizes
  <2>2. CASE n # 0
    <3>1. n - 1 \in Nat /\ len \in 0 .. (n - 1) + 1 /\ (n - 1) - len + 1 = n - len
      BY <1>2, <2>2
    <3>2. \A k \in (n - 1) - len + 1 .. n - 1 : ~IsEndOfFrame(k)
      BY <1>2, <3>1
    <3> QED
      BY <3>1, <3>2, ShortRun
  <2> QED
    BY <2>1, <2>2
<1>4. ~Overflow(f) /\ f.size \in {0, PktsPerFrame} /\ f \in Frames
  BY <1>2, <1>3, Sizes DEF Overflow, Buffer
<1> DEFINE c == Copy(f, n)
<1>5. /\ c.wait = FALSE /\ c.firstPacket = FALSE /\ c.lastSeq = SeqOf(n) /\ c.size = f.size
      /\ c.len = len + 1 /\ c.complete = FALSE /\ c.avail = f.avail
      /\ f.size # 0 => c.data = Run(n, len + 1)
      /\ f.size = 0 => c.data = f.data
      /\ c \in Frames
  <2>1. /\ c.wait = FALSE /\ c.firstPacket = FALSE /\ c.lastSeq = SeqOf(n) /\ c.size = f.size
        /\ c.len = len + 1 /\ c.complete = FALSE /\ c.avail = f.avail
        /\ c.data = IF f.size = 0 THEN f.data ELSE Append(f.data, n)
    BY <1>1, <1>4 DEF Copy, Frames
  <2>2. Append(f.data, n) \in Seq(Nat \cup {JUNK})
    BY <1>4 DEF Frames
  <2>3. c \in Frames
    <3>1. PICK d : d = IF f.size = 0 THEN f.data ELSE Append(f.data, n)
      OBVIOUS
    <3>2. d \in Seq(Nat \cup {JUNK})
      BY <1>4, <2>2, <3>1 DEF Frames
    <3>3. c = [f EXCEPT !.firstPacket = FALSE, !.len = len + 1, !.data = d]
      BY <1>1, <1>4, <3>1 DEF Copy, Frames
    <3> HIDE DEF c
    <3>4. c = [wait |-> f.wait, firstPacket |-> FALSE, lastSeq |-> f.lastSeq, size |-> f.size,
               len |-> len + 1, data |-> d, complete |-> f.complete, avail |-> f.avail]
      BY <1>4, <3>3 DEF Frames
    <3>5. /\ f.wait \in BOOLEAN /\ f.lastSeq \in {-1} \cup 0 .. SeqRange - 1 /\ f.size \in Nat
          /\ f.complete \in BOOLEAN /\ f.avail \in Seq(Media) /\ len + 1 \in Nat
      BY <1>4 DEF Frames
    <3> QED
      BY <3>2, <3>4, <3>5 DEF Frames
  <2> QED
    BY <1>2, <2>1, <2>3
<1> HIDE DEF c
<1>6. ~IsEndOfFrame(n) => Buffer(c) /\ Carries(c, n)
  <2> SUFFICES ASSUME ~IsEndOfFrame(n) PROVE Buffer(c) /\ Carries(c, n)
    OBVIOUS
  <2>1. Buffer(c)
    BY <1>4, <1>5 DEF Buffer
  <2>2. \A k \in n - c.len + 1 .. n : ~IsEndOfFrame(k)
    BY <1>2, <1>5
  <2>3. Carries(c, n)
    BY <1>2, <1>5, <2>2 DEF Carries
  <2> QED
    BY <2>1, <2>3
<1>7. CASE ~IsEndOfFrame(n)
  <2>1. g = c
    BY <1>4, <1>7 DEF Keep, c
  <2> QED
    BY <1>1, <1>5, <1>6, <1>7, <2>1
<1>8. CASE IsEndOfFrame(n)
  <2>1. g = EndOfFrame(c)
    BY <1>4, <1>8 DEF Keep, c
  <2>2. \A k \in n - (len + 1) + 1 .. n - 1 : ~IsEndOfFrame(k)
    BY <1>2
  <2>3. len + 1 <= PktsPerFrame /\ (len + 1 = PktsPerFrame => Sound(Run(n, len + 1)))
    <3>1. len + 1 \in 1 .. n + 1
      BY <1>2
    <3> QED
      BY <1>8, <2>2, <3>1, WholeRun
  <2>4. CASE f.size = 0 /\ len + 1 = PktsPerFrame
    <3> DEFINE d == [c EXCEPT !.size = c.len, !.data = Junk(c.len)]
    <3>1. g = Complete(d)
      BY <1>5, <2>1, <2>4, Sizes DEF EndOfFrame
    <3>2. Junk(PktsPerFrame) \in Seq(Nat \cup {JUNK}) /\ Sound(Junk(PktsPerFrame))
      <4>1. Junk(PktsPerFrame)[1] = JUNK /\ 1 \in DOMAIN Junk(PktsPerFrame)
        BY Sizes DEF Junk
      <4> QED
        BY <4>1, Sizes DEF Junk, Sound
    <3>3. /\ d \in Frames /\ d.size = PktsPerFrame /\ d.data = Junk(PktsPerFrame)
          /\ d.wait = FALSE /\ d.firstPacket = FALSE
      BY <1>5, <2>4, <3>2, Sizes DEF Frames
    <3> HIDE DEF d
    <3>4. Buffer(g) /\ g.complete /\ ~g.wait
      BY <3>1, <3>2, <3>3, CompleteBuffer
    <3> QED
      BY <1>8, <3>4
  <2>5. CASE f.size # 0 /\ len + 1 = PktsPerFrame
    <3>1. g = Complete(c) /\ c.size = PktsPerFrame /\ c.data = Run(n, len + 1)
      BY <1>4, <1>5, <2>1, <2>5, Sizes DEF EndOfFrame
    <3>2. Buffer(g) /\ g.complete /\ ~g.wait
      BY <1>5, <2>3, <2>5, <3>1, CompleteBuffer
    <3> QED
      BY <1>8, <3>2
  <2>6. CASE len + 1 # PktsPerFrame
    <3>1. c.size = 0 => g = Abort(c)
      BY <1>5, <2>1, <2>3, <2>6, Sizes DEF EndOfFrame
    <3>2. c.size # 0 => g = Reset(c)
      BY <1>4, <1>5, <2>1, <2>6, Sizes DEF EndOfFrame
    <3>3. Buffer(c)
      BY <1>4, <1>5 DEF Buffer
    <3>4. Buffer(g) /\ g.firstPacket /\ ~g.complete /\ g.size = c.size /\ (c.size # 0 => ~g.wait)
      <4>1. CASE c.size = 0
        <5>1. Abort(c).size = c.size
          BY <1>5 DEF Abort, Reset, Frames
        <5> QED
          BY <3>1, <3>3, <4>1, <5>1, BufferReset
      <4>2. CASE c.size # 0
        <5>1. ~Reset(c).wait
          BY <1>5, <3>3, BufferReset
        <5> QED
          BY <3>2, <3>3, <4>2, <5>1, BufferReset
      <4> QED
        BY <4>1, <4>2
    <3>5. Carries(g, n)
      BY <3>4 DEF Carries
    <3> QED
      BY <1>1, <1>5, <1>8, <2>6, <3>4, <3>5
  <2> QED
    BY <2>4, <2>5, <2>6
<1> QED
  BY <1>7, <1>8

\* A buffer that waits, or that a packet is missing in, takes the next frame.
LEMMA BufferSkips ==
  ASSUME NEW f, Buffer(f), ~f.complete, NEW n, NEW g, g = Skip(f, n)
  PROVE  /\ Buffer(g) /\ ~g.complete /\ Carries(g, n) /\ g.size = f.size
         /\ IsEndOfFrame(n) => ~g.wait /\ g.firstPacket
<1>1. CASE IsEndOfFrame(n)
  <2>1. g = [Reset(f) EXCEPT !.wait = FALSE] /\ Buffer(g)
    BY <1>1, BufferReset DEF Skip
  <2>2. Reset(f) \in Frames /\ Reset(f).firstPacket /\ ~Reset(f).complete /\ Reset(f).size = f.size
    BY BufferReset DEF Buffer
  <2>3. g.firstPacket /\ ~g.complete /\ ~g.wait /\ g.size = f.size
    BY <2>1, <2>2 DEF Frames
  <2> QED
    BY <2>1, <2>3 DEF Carries
<1>2. CASE ~IsEndOfFrame(n)
  <2>1. g = [f EXCEPT !.wait = TRUE] /\ f \in Frames
    BY <1>2 DEF Skip, Buffer
  <2>2. Buffer(g) /\ ~g.complete /\ g.wait /\ g.size = f.size
    BY <2>1 DEF Buffer, Frames
  <2> QED
    BY <1>2, <2>2 DEF Carries
<1> QED
  BY <1>1, <1>2

\* The packet after the last one is taken; any other one is a gap, as the network
\* never goes a whole turn of the sequence number further.
LEMMA BufferAdds ==
  ASSUME NEW f, Buffer(f), ~f.complete, NEW n \in Nat, NEW m,
         ~f.firstPacket => m \in Nat /\ Carries(f, m) /\ -SeqRange < n - (m + 1) /\ n - (m + 1) < SeqRange,
         NEW g, g = AddPacket(f, n)
  PROVE  /\ Buffer(g) /\ (~g.complete => Carries(g, n))
         /\ IsEndOfFrame(n) /\ g.size # 0 => ~g.wait /\ (g.complete \/ g.firstPacket)
         /\ g.size = f.size \/ (IsEndOfFrame(n) /\ g.complete)
         /\ ~f.wait /\ (f.firstPacket \/ n = m + 1) =>
              /\ ~IsEndOfFrame(n) => ~g.wait /\ ~g.firstPacket /\ ~g.complete /\ g.len = f.len + 1
              /\ IsEndOfFrame(n) /\ f.size # 0 /\ f.len + 1 = PktsPerFrame => g.complete
<1>1. PICK h : h = [f EXCEPT !.lastSeq = SeqOf(n)]
  OBVIOUS
<1>2. f \in Frames /\ SeqOf(n) \in 0 .. SeqRange - 1 /\ SeqRange \in Int /\ SeqRange > 0
  BY Sizes, DivMod DEF Buffer, SeqOf
<1>3. /\ h \in Frames /\ h.lastSeq = SeqOf(n) /\ h.wait = f.wait /\ h.firstPacket = f.firstPacket
      /\ h.size = f.size /\ h.len = f.len /\ h.data = f.data /\ h.complete = f.complete
  BY <1>1, <1>2 DEF Frames
<1>4. Buffer(h)
  BY <1>3 DEF Buffer
<1>5. g = IF f.wait \/ Gap(f, n) THEN Skip(h, n) ELSE Keep(h, n)
  BY <1>1 DEF AddPacket
<1>6. ASSUME ~f.wait, ~f.firstPacket
      PROVE  m \in Nat /\ f.lastSeq = SeqOf(m) /\ (Gap(f, n) <=> n # m + 1)
  <2>1. m \in Nat /\ f.lastSeq = SeqOf(m) /\ SeqOf(m) \in 0 .. SeqRange - 1
    BY <1>2, <1>6, DivMod DEF Carries, SeqOf
  <2>2. (SeqOf(m) + 1) % SeqRange = SeqOf(m + 1)
    BY <1>2, <2>1, NextRest DEF SeqOf
  <2>3. Gap(f, n) <=> SeqOf(n) # SeqOf(m + 1)
    BY <1>6, <2>1, <2>2 DEF Gap
  <2>4. SeqOf(n) = SeqOf(m + 1) => n = m + 1
    <3>1. PICK x \in Int : x = m + 1
      BY <2>1
    <3>2. -SeqRange < n - x /\ n - x < SeqRange
      BY <1>6, <3>1
    <3>3. SeqOf(n) = SeqOf(x) => n = x
      BY <1>2, <3>2, SameRest DEF SeqOf
    <3> QED
      BY <3>1, <3>3
  <2> QED
    BY <2>1, <2>3, <2>4
<1>7. CASE f.wait \/ Gap(f, n)
  <2>1. g = Skip(h, n)
    BY <1>5, <1>7
  <2>2. Buffer(g) /\ ~g.complete /\ Carries(g, n) /\ g.size = f.size /\ (IsEndOfFrame(n) => ~g.wait /\ g.firstPacket)
    BY <1>3, <1>4, <2>1, BufferSkips
  <2>3. ~(~f.wait /\ (f.firstPacket \/ n = m + 1))
    BY <1>6, <1>7 DEF Gap
  <2> QED
    BY <2>2, <2>3
<1>8. CASE ~f.wait /\ ~Gap(f, n)
  <2>1. g = Keep(h, n)
    BY <1>5, <1>8
  <2>2. ASSUME ~h.firstPacket
        PROVE  n > 0 /\ h.len \in 1 .. n /\ (\A k \in n - h.len .. n - 1 : ~IsEndOfFrame(k))
               /\ (h.size # 0 => h.data = Run(n - 1, h.len))
    <3>1. m \in Nat /\ n = m + 1 /\ Carries(f, m)
      BY <1>3, <1>6, <1>8, <2>2
    <3>2. f.len \in 1 .. m + 1 /\ (\A k \in m - f.len + 1 .. m : ~IsEndOfFrame(k)) /\ (f.size # 0 => f.data = Run(m, f.len))
      BY <1>3, <1>8, <2>2, <3>1 DEF Carries
    <3>3. m = n - 1 /\ m - f.len + 1 = n - f.len
      BY <3>1, <3>2
    <3> QED
      BY <1>3, <3>1, <3>2, <3>3
  <2>3. /\ Buffer(g) /\ (~g.complete => Carries(g, n))
        /\ ~IsEndOfFrame(n) => /\ ~g.wait /\ ~g.firstPacket /\ ~g.complete
                               /\ g.len = h.len + 1 /\ g.size = h.size
        /\ IsEndOfFrame(n) /\ g.size # 0 => ~g.wait /\ (g.complete \/ g.firstPacket)
        /\ IsEndOfFrame(n) /\ h.size # 0 /\ h.len + 1 = PktsPerFrame => g.complete
        /\ g.size = h.size \/ g.complete
    BY <1>3, <1>4, <1>8, <2>1, <2>2, BufferKeeps
  <2> QED
    BY <1>3, <2>3
<1> QED
  BY <1>7, <1>8

(***************************************************************************)
(* The steps.                                                              *)
(***************************************************************************)
Ends(g) ==
  \/ g = << >>
  \/ g[Len(g)] # STOP /\ IsEndOfFrame(g[Len(g)])

LEMMA FrameInit == Init => FrameInv
<1> SUFFICES ASSUME Init PROVE FrameInv
  OBVIOUS
<1>1. NewFrame \in Frames /\ Buffer(NewFrame) /\ NewFrame.size = 0
  <2>1. NewFrame \in Frames
    <3>1. << >> \in Seq(Nat \cup {JUNK}) /\ << >> \in Seq(Media)
      <4>1. \A S : << >> \in Seq(S)
        OBVIOUS
      <4> QED
        BY <4>1
    <3> QED
      BY <3>1, Sizes DEF NewFrame, Frames
  <2> QED
    BY <2>1 DEF Buffer, NewFrame
<1>2. <<STOP>> \in Seq(Nat \cup {STOP})
  OBVIOUS
<1>3. Types
  BY <1>1, <1>2, Sizes DEF Init, Types
<1>4. \A b \in Buffers : frames[b] = NewFrame
  BY DEF Init
<1>5. Filling
  BY DEF Init, Filling
<1> QED
  BY <1>1, <1>3, <1>4, <1>5 DEF FrameInv, Ready, Takes, GoodFramesComplete

\* A step that leaves to the frames all but what is left to read of them.
LEMMA FramesStay ==
  ASSUME FrameInv, DOMAIN frames' = Buffers, frames' = [b \in Buffers |-> frames'[b]],
         \A b \in Buffers :
           /\ frames'[b] \in Frames
           /\ frames'[b].wait = frames[b].wait /\ frames'[b].firstPacket = frames[b].firstPacket
           /\ frames'[b].lastSeq = frames[b].lastSeq /\ frames'[b].size = frames[b].size
           /\ frames'[b].len = frames[b].len /\ frames'[b].data = frames[b].data
           /\ frames'[b].complete = frames[b].complete,
         given' = given, rcvPtr' \in Buffers, next' \in Nat,
         rcvAt' = "fill" => /\ rcvAt = "fill" /\ rcvPtr' = rcvPtr /\ rcvSeq' = rcvSeq
                            /\ next' = next \/ frames[rcvPtr].firstPacket
  PROVE  FrameInv'
<1>1. Types'
  BY DEF Types, FrameInv
<1>2. \A b \in Buffers : Buffer(frames[b])' 
  BY DEF FrameInv, Buffer
<1>3. Filling'
  <2> SUFFICES ASSUME rcvAt' = "fill", ~frames'[rcvPtr'].complete, ~frames'[rcvPtr'].firstPacket
               PROVE  LET f == frames'[rcvPtr]  n == given[rcvPtr][Len(given[rcvPtr])] IN
                      /\ given[rcvPtr] # << >> /\ n \in Nat
                      /\ rcvSeq = SeqOf(n) /\ n < next /\ next <= n + 1 + Late
                      /\ Carries(f, n) /\ rcvPtr' = rcvPtr /\ rcvSeq' = rcvSeq /\ next' = next
    BY DEF Filling, LastGiven, Carries
  <2>1. rcvAt = "fill" /\ rcvPtr' = rcvPtr /\ rcvSeq' = rcvSeq /\ rcvPtr \in Buffers
    BY DEF FrameInv, Types
  <2>2. next' = next /\ ~frames[rcvPtr].complete /\ ~frames[rcvPtr].firstPacket
    BY <2>1
  <2>3. LET f == frames[rcvPtr]  n == given[rcvPtr][Len(given[rcvPtr])] IN
        /\ given[rcvPtr] # << >> /\ n \in Nat
        /\ rcvSeq = SeqOf(n) /\ n < next /\ next <= n + 1 + Late
        /\ Carries(f, n)
    BY <2>1, <2>2 DEF FrameInv, Filling, LastGiven
  <2> QED
    BY <2>1, <2>2, <2>3 DEF Carries
<1>4. Ready'
  BY DEF FrameInv, Ready, EndsGiven
<1>5. Takes'
  BY DEF FrameInv, Takes, BeginOf
<1>6. GoodFramesComplete'
  BY DEF FrameInv, GoodFramesComplete, EndsGiven
<1> QED
  BY <1>1, <1>2, <1>3, <1>4, <1>5, <1>6 DEF FrameInv

\* A step that changes the buffer of the receiving thread only.
LEMMA OneBuffer ==
  ASSUME FrameInv, NEW f, NEW g, frames' = [frames EXCEPT ![rcvPtr] = f],
         given' = [given EXCEPT ![rcvPtr] = g], rcvPtr' = rcvPtr, next' \in Nat,
         Buffer(f), g \in Seq(Nat \cup {STOP}),
         f.size # 0 /\ Ends(g) => ~f.wait /\ (f.complete \/ f.firstPacket),
         \A k \in Nat : f.size # 0 /\ BeginOf(g, k) =>
           ~f.wait /\ ~f.firstPacket /\ ~f.complete /\ f.len = Len(g),
         g # << >> /\ Ends(g) /\ f.size # 0 /\ g = FramePackets(FrameOf(g[1])) => f.complete,
         rcvAt' = "fill" /\ ~f.complete /\ ~f.firstPacket =>
           /\ g # << >> /\ g[Len(g)] \in Nat
           /\ rcvSeq' = SeqOf(g[Len(g)]) /\ g[Len(g)] < next' /\ next' <= g[Len(g)] + 1 + Late
           /\ Carries(f, g[Len(g)])
  PROVE  FrameInv'
<1>1. /\ frames \in [Buffers -> Frames] /\ given \in [Buffers -> Seq(Nat \cup {STOP})] /\ rcvPtr \in Buffers
      /\ f \in Frames
  BY DEF FrameInv, Types, Buffer
<1>2. Types'
  BY <1>1 DEF Types
<1>3. /\ frames'[rcvPtr] = f /\ given'[rcvPtr] = g
      /\ \A b \in Buffers : b # rcvPtr => frames'[b] = frames[b] /\ given'[b] = given[b]
  BY <1>1
<1>4. \A b \in Buffers : Buffer(frames[b])'
  BY <1>1, <1>3 DEF FrameInv, Buffer
<1>5. Filling'
  BY <1>3 DEF Filling, LastGiven, Carries
<1>6. Ready'
  <2>1. \A b \in Buffers : EndsGiven(b)' <=> Ends(given'[b])
    BY DEF EndsGiven, Ends
  <2>2. \A b \in Buffers : b # rcvPtr /\ frames'[b].size # 0 /\ EndsGiven(b)' =>
          ~frames'[b].wait /\ (frames'[b].complete \/ frames'[b].firstPacket)
    BY <1>3 DEF FrameInv, Ready, EndsGiven
  <2>3. frames'[rcvPtr].size # 0 /\ Ends(given'[rcvPtr]) =>
          ~frames'[rcvPtr].wait /\ (frames'[rcvPtr].complete \/ frames'[rcvPtr].firstPacket)
    BY <1>3
  <2> QED
    BY <2>1, <2>2, <2>3 DEF Ready
<1>7. Takes'
  <2>1. \A b \in Buffers, k \in Nat : b # rcvPtr /\ frames'[b].size # 0 /\ BeginOf(given'[b], k) =>
          /\ ~frames'[b].wait /\ ~frames'[b].firstPacket /\ ~frames'[b].complete
          /\ frames'[b].len = Len(given'[b])
    BY <1>3 DEF FrameInv, Takes
  <2>2. \A k \in Nat : frames'[rcvPtr].size # 0 /\ BeginOf(given'[rcvPtr], k) =>
          /\ ~frames'[rcvPtr].wait /\ ~frames'[rcvPtr].firstPacket /\ ~frames'[rcvPtr].complete
          /\ frames'[rcvPtr].len = Len(given'[rcvPtr])
    BY <1>3
  <2>3. \A b \in Buffers, k \in Nat : BeginOf(given[b], k)' <=> BeginOf(given'[b], k)
    BY DEF BeginOf
  <2> QED
    BY <2>1, <2>2, <2>3 DEF Takes
<1>8. GoodFramesComplete'
  BY <1>3 DEF FrameInv, GoodFramesComplete, EndsGiven, Ends
<1> QED
  BY <1>2, <1>4, <1>5, <1>6, <1>7, <1>8 DEF FrameInv

\* A packet that is not the last one again is added: the next one continues what the
\* buffer has, and completes a frame that began after an end marker.
LEMMA PacketStep ==
  ASSUME FrameInv, NEW n \in 0 .. MaxPackets - 1, RcvPacket(n)
  PROVE  FrameInv'
<1> DEFINE f == frames[rcvPtr]  g == given[rcvPtr]  m == g[Len(g)]
<1>1. /\ frames \in [Buffers -> Frames] /\ given \in [Buffers -> Seq(Nat \cup {STOP})]
      /\ rcvPtr \in Buffers /\ next \in Nat /\ Buffer(f) /\ g \in Seq(Nat \cup {STOP})
  BY DEF FrameInv, Types
<1>2. /\ rcvAt = "fill" /\ rcvAt' = "fill" /\ rcvPtr' = rcvPtr /\ ~f.complete
      /\ n \in Nat /\ next - Late <= n /\ n <= next + Skipped
      /\ next' = IF n < next THEN next ELSE n + 1
      /\ next' \in Nat /\ Late \in Nat /\ Skipped \in Nat
      /\ SeqRange \in Int /\ SeqRange > 0 /\ Skipped + Late + 2 <= SeqRange
  BY <1>1, Sizes DEF RcvPacket, RcvGoes, Delivered
<1>3. ASSUME ~f.firstPacket
      PROVE  /\ g # << >> /\ m \in Nat /\ rcvSeq = SeqOf(m) /\ m < next /\ next <= m + 1 + Late
             /\ Carries(f, m) /\ -SeqRange < n - (m + 1) /\ n - (m + 1) < SeqRange
             /\ -SeqRange < n - m /\ n - m < SeqRange
  <2>1. /\ g # << >> /\ m \in Nat /\ rcvSeq = SeqOf(m) /\ m < next /\ next <= m + 1 + Late
        /\ Carries(f, m)
    BY <1>2, <1>3 DEF FrameInv, Filling, LastGiven
  <2>2. PICK l \in Nat : l = m
    BY <2>1
  <2>3. l < next /\ next <= l + 1 + Late
    BY <2>1, <2>2
  <2>4. -SeqRange < n - (l + 1) /\ n - (l + 1) < SeqRange /\ -SeqRange < n - l /\ n - l < SeqRange
    BY <1>1, <1>2, <2>3
  <2> QED
    BY <2>1, <2>2, <2>4
<1> HIDE DEF m
<1>4. CASE SeqOf(n) = rcvSeq /\ UNCHANGED <<frames, rcvSeq, given, late>>
  <2>1. next' = next \/ f.firstPacket
    <3>1. ASSUME ~f.firstPacket PROVE n = m
      BY <1>2, <1>3, <1>4, <3>1, SameRest DEF SeqOf
    <3>2. ASSUME ~f.firstPacket PROVE n < next
      BY <1>3, <3>1, <3>2
    <3> QED
      BY <1>2, <3>2
  <2>2. UNCHANGED <<frames, given, rcvAt, rcvPtr, rcvSeq>>
    BY <1>2, <1>4
  <2>3. DOMAIN frames = Buffers /\ frames = [b \in Buffers |-> frames[b]] /\ \A b \in Buffers : frames[b] \in Frames
    BY <1>1
  <2> QED
    BY <1>1, <1>2, <2>1, <2>2, <2>3, FramesStay
<1>5. CASE SeqOf(n) # rcvSeq
  <2> DEFINE h == AddPacket(f, n)  w == IF Ends(g) THEN <<n>> ELSE Append(g, n)
  <2>1. rcvSeq' = SeqOf(n) /\ frames' = [frames EXCEPT ![rcvPtr] = h] /\ given' = [given EXCEPT ![rcvPtr] = w]
    BY <1>1, <1>5 DEF RcvPacket, EndsGiven, Ends
  <2>2. /\ Buffer(h) /\ (~h.complete => Carries(h, n))
        /\ IsEndOfFrame(n) /\ h.size # 0 => ~h.wait /\ (h.complete \/ h.firstPacket)
        /\ h.size = f.size \/ (IsEndOfFrame(n) /\ h.complete)
        /\ ~f.wait /\ (f.firstPacket \/ n = m + 1) =>
             /\ ~IsEndOfFrame(n) => ~h.wait /\ ~h.firstPacket /\ ~h.complete /\ h.len = f.len + 1
             /\ IsEndOfFrame(n) /\ f.size # 0 /\ f.len + 1 = PktsPerFrame => h.complete
    BY <1>1, <1>2, <1>3, BufferAdds
  <2> HIDE DEF h
  <2>3. w \in Seq(Nat \cup {STOP}) /\ w # << >> /\ w[Len(w)] = n
    <3>1. PICK q : q = g /\ q \in Seq(Nat \cup {STOP})
      BY <1>1
    <3>2. Append(q, n) \in Seq(Nat \cup {STOP}) /\ Append(q, n) # << >> /\ Append(q, n)[Len(Append(q, n))] = n
      BY <1>2, <3>1
    <3>3. <<n>> \in Seq(Nat \cup {STOP}) /\ <<n>> # << >> /\ <<n>>[Len(<<n>>)] = n
      BY <1>2
    <3> QED
      BY <3>1, <3>2, <3>3
  <2>4. n \in Nat /\ n # STOP /\ (Ends(w) <=> IsEndOfFrame(n))
    BY <1>2, <2>3 DEF Ends, STOP
  <2>11. (Ends(g) => w = <<n>>) /\ (~Ends(g) => w = Append(g, n))
    OBVIOUS
  <2> HIDE DEF w
  <2>5. f.size # 0 /\ Ends(g) => ~f.wait /\ f.firstPacket /\ f.len = 0
    <3>1. f.size # 0 /\ Ends(g) => ~f.wait /\ f.firstPacket
      BY <1>1, <1>2 DEF FrameInv, Ready, EndsGiven, Ends
    <3> QED
      BY <1>1, <3>1 DEF Buffer
  <2>6. ASSUME ~Ends(g), f.size # 0, NEW k \in Nat, BeginOf(g, k), n = k * PktsPerFrame + Len(g)
        PROVE  ~f.wait /\ ~f.firstPacket /\ f.len = Len(g) /\ n = m + 1
    <3>1. ~f.wait /\ ~f.firstPacket /\ f.len = Len(g)
      BY <1>1, <2>6 DEF FrameInv, Takes
    <3>2. g # << >> /\ \A j \in 1 .. Len(g) : g[j] = k * PktsPerFrame + j - 1
      BY <2>6 DEF BeginOf
    <3>3. Len(g) \in Nat /\ Len(g) \in 1 .. Len(g)
      BY <1>1, <3>2
    <3>4. m = k * PktsPerFrame + Len(g) - 1 /\ m \in Nat
      BY <1>3, <3>1, <3>2, <3>3 DEF m
    <3>5. k * PktsPerFrame \in Int
      BY Sizes
    <3> QED
      BY <2>6, <3>1, <3>3, <3>4, <3>5
  <2>7. h.size # 0 /\ Ends(w) => ~h.wait /\ (h.complete \/ h.firstPacket)
    BY <2>2, <2>4
  <2>8. ASSUME NEW k \in Nat, h.size # 0, BeginOf(w, k)
        PROVE  ~h.wait /\ ~h.firstPacket /\ ~h.complete /\ h.len = Len(w)
    <3>1. Len(w) \in 1 .. PktsPerFrame /\ Len(w) < PktsPerFrame /\ n = k * PktsPerFrame + Len(w) - 1
      <4>1. Len(w) \in Nat /\ Len(w) >= 1
        BY <2>3
      <4>2. Len(w) < PktsPerFrame /\ \A j \in 1 .. Len(w) : w[j] = k * PktsPerFrame + j - 1
        BY <2>8 DEF BeginOf
      <4>3. Len(w) \in 1 .. Len(w)
        BY <4>1
      <4>4. w[Len(w)] = k * PktsPerFrame + Len(w) - 1
        BY <4>2, <4>3
      <4> QED
        BY <2>3, <4>1, <4>2, <4>4, Sizes
    <3>2. ~IsEndOfFrame(n)
      BY <3>1, FrameEnds
    <3>3. f.size # 0
      BY <2>2, <2>8, <3>2
    <3>4. CASE Ends(g)
      <4>1. Len(w) = 1 /\ ~f.wait /\ f.firstPacket /\ f.len = 0
        BY <2>5, <2>11, <3>3, <3>4
      <4> QED
        BY <2>2, <3>2, <4>1
    <3>5. CASE ~Ends(g)
      <4>1. PICK q : q = g /\ q \in Seq(Nat \cup {STOP}) /\ q # << >>
        BY <1>1, <3>5 DEF Ends
      <4>2. w = Append(q, n) /\ Len(w) = Len(q) + 1 /\ \A j \in 1 .. Len(q) : w[j] = q[j]
        BY <1>2, <2>11, <3>5, <4>1
      <4>3. BeginOf(q, k) /\ n = k * PktsPerFrame + Len(q)
        <5>1. \A j \in 1 .. Len(w) : w[j] = k * PktsPerFrame + j - 1
          BY <2>8 DEF BeginOf
        <5>2. Len(q) \in Nat /\ \A j \in 1 .. Len(q) : j \in 1 .. Len(w)
          BY <4>1, <4>2
        <5>3. \A j \in 1 .. Len(q) : q[j] = k * PktsPerFrame + j - 1
          BY <4>2, <5>1, <5>2
        <5>4. Len(q) < PktsPerFrame
          BY <3>1, <4>2, <5>2, Sizes
        <5>5. k * PktsPerFrame \in Int
          BY Sizes
        <5> QED
          BY <3>1, <4>1, <4>2, <5>2, <5>3, <5>4, <5>5 DEF BeginOf
      <4>4. ~f.wait /\ ~f.firstPacket /\ f.len = Len(g) /\ n = m + 1
        BY <2>6, <3>3, <3>5, <4>1, <4>3
      <4> QED
        BY <2>2, <3>2, <4>1, <4>2, <4>4
    <3> QED
      BY <3>4, <3>5
  <2>9. ASSUME w # << >>, Ends(w), h.size # 0, w = FramePackets(FrameOf(w[1]))
        PROVE  h.complete
    <3>1. PICK k : k = FrameOf(w[1])
      OBVIOUS
    <3>2. w = FramePackets(k) /\ IsEndOfFrame(n)
      BY <2>4, <2>9, <3>1
    <3>3. Len(w) = PktsPerFrame /\ n = k * PktsPerFrame + PktsPerFrame - 1
          /\ \A j \in 1 .. PktsPerFrame : w[j] = k * PktsPerFrame + j - 1
      <4>1. PICK p \in Nat : p = PktsPerFrame /\ p >= 1
        BY Sizes
      <4>2. w = [j \in 1 .. p |-> k * p + j - 1] /\ w \in Seq(Nat \cup {STOP})
        BY <2>3, <3>2, <4>1 DEF FramePackets
      <4>3. Len(w) = p /\ p \in 1 .. p
        <5>1. DOMAIN w = 1 .. p /\ DOMAIN w = 1 .. Len(w) /\ Len(w) \in Nat
          BY <4>2
        <5> QED
          BY <4>1, <5>1
      <4>4. \A j \in 1 .. p : w[j] = k * p + j - 1
        BY <4>2
      <4>5. w[Len(w)] = k * p + p - 1
        BY <4>3, <4>4
      <4> QED
        BY <2>3, <4>1, <4>3, <4>4, <4>5
    <3>4. k \in Nat
      <4>1. w[1] \in Int
        BY <2>3, Sizes, <3>3 DEF STOP
      <4>2. k \in Int
        BY <3>1, <4>1, Sizes, DivMod DEF FrameOf
      <4>3. PICK p \in Int : p = PktsPerFrame /\ p > 0
        BY Sizes
      <4>4. k <= -1 => k * p <= -p
        BY <4>2, <4>3
      <4>5. k * p + p - 1 >= 0 /\ k * p \in Int
        BY <1>2, <3>3, <4>2, <4>3
      <4> QED
        BY <4>2, <4>3, <4>4, <4>5
    <3> SUFFICES ASSUME f.size # 0 PROVE h.complete
      BY <2>2, <2>9
    <3>5. CASE Ends(g)
      <4>1. Len(w) = 1 /\ ~f.wait /\ f.firstPacket /\ f.len = 0
        BY <2>5, <2>11, <3>5
      <4> QED
        BY <2>2, <3>2, <3>3, <4>1
    <3>6. CASE ~Ends(g)
      <4>1. PICK q : q = g /\ q \in Seq(Nat \cup {STOP}) /\ q # << >>
        BY <1>1, <3>6 DEF Ends
      <4>2. w = Append(q, n) /\ Len(w) = Len(q) + 1 /\ \A j \in 1 .. Len(q) : w[j] = q[j]
        BY <1>2, <2>11, <3>6, <4>1
      <4>3. Len(q) \in Nat /\ \A j \in 1 .. Len(q) : j \in 1 .. PktsPerFrame
        BY <3>3, <4>1, <4>2
      <4>4. BeginOf(q, k) /\ n = k * PktsPerFrame + Len(q)
        <5>1. \A j \in 1 .. Len(q) : q[j] = k * PktsPerFrame + j - 1
          BY <3>3, <4>2, <4>3
        <5>2. Len(q) < PktsPerFrame /\ PktsPerFrame = Len(q) + 1
          BY <3>3, <4>2, <4>3, Sizes
        <5>3. k * PktsPerFrame \in Int
          BY <3>4, Sizes
        <5> QED
          BY <3>3, <4>1, <4>3, <5>1, <5>2, <5>3 DEF BeginOf
      <4>5. ~f.wait /\ ~f.firstPacket /\ f.len = Len(g) /\ n = m + 1
        BY <2>6, <3>4, <3>6, <4>1, <4>4
      <4> QED
        BY <2>2, <3>2, <3>3, <4>1, <4>2, <4>5
    <3> QED
      BY <3>5, <3>6
  <2>10. n < next' /\ next' <= n + 1 + Late
    BY <1>1, <1>2
  <2> QED
    BY <1>2, <2>1, <2>2, <2>3, <2>7, <2>8, <2>9, <2>10, OneBuffer
<1> QED
  BY <1>4, <1>5 DEF RcvPacket

LEMMA NextStep == FrameInv /\ RcvNext => FrameInv'
<1> SUFFICES ASSUME FrameInv, RcvNext PROVE FrameInv'
  OBVIOUS
<1> DEFINE f == Reset(frames[rcvPtr])
           g == IF Ends(given[rcvPtr]) THEN << >> ELSE <<STOP>>
<1>1. rcvPtr \in Buffers /\ Buffer(frames[rcvPtr]) /\ next' \in Nat /\ rcvPtr' = rcvPtr
  BY DEF FrameInv, Types, RcvNext, netVars
<1>2. frames' = [frames EXCEPT ![rcvPtr] = f] /\ given' = [given EXCEPT ![rcvPtr] = g]
  <2>1. frames' = [frames EXCEPT ![rcvPtr] = Reset(@)] /\ frames \in [Buffers -> Frames]
    BY DEF RcvNext, FrameInv, Types
  <2>2. given' = [given EXCEPT ![rcvPtr] = IF EndsGiven(rcvPtr) THEN << >> ELSE <<STOP>>]
    BY DEF RcvNext
  <2>3. EndsGiven(rcvPtr) <=> Ends(given[rcvPtr])
    BY DEF EndsGiven, Ends
  <2> QED
    BY <1>1, <2>1, <2>2, <2>3
<1>3. /\ Buffer(f) /\ f.firstPacket /\ ~f.complete
      /\ f.size = frames[rcvPtr].size /\ f.wait = frames[rcvPtr].wait
  BY <1>1, BufferReset
<1> HIDE DEF f
<1>4. g \in Seq(Nat \cup {STOP}) /\ (g # << >> => g = <<STOP>>) /\ (g = << >> => Ends(given[rcvPtr]))
  <2>1. \A S : << >> \in Seq(S)
    OBVIOUS
  <2>2. <<STOP>> \in Seq(Nat \cup {STOP}) /\ <<STOP>> # << >>
    OBVIOUS
  <2> QED
    BY <2>1, <2>2
<1> HIDE DEF g
<1>5. g # << >> => ~Ends(g)
  <2>1. <<STOP>>[Len(<<STOP>>)] = STOP /\ <<STOP>> # << >>
    OBVIOUS
  <2> QED
    BY <1>4, <2>1 DEF Ends
<1>6. f.size # 0 /\ Ends(g) => ~f.wait
  BY <1>1, <1>3, <1>4, <1>5 DEF FrameInv, Ready, EndsGiven, Ends
<1>7. \A k \in Nat : ~BeginOf(g, k)
  <2> SUFFICES ASSUME NEW k \in Nat, g = <<STOP>>, BeginOf(g, k) PROVE FALSE
    BY <1>4 DEF BeginOf
  <2>1. <<STOP>>[1] = STOP /\ 1 \in 1 .. Len(<<STOP>>) /\ STOP = -1
    BY DEF STOP
  <2>2. k * PktsPerFrame + 1 - 1 = -1
    BY <2>1 DEF BeginOf
  <2>3. PICK x \in Int : x = k * PktsPerFrame /\ x >= 0
    BY Sizes
  <2> QED
    BY <2>2, <2>3
<1> QED
  BY <1>1, <1>2, <1>3, <1>4, <1>5, <1>6, <1>7, OneBuffer

LEMMA ErrorStep == FrameInv /\ RcvError => FrameInv'
<1> SUFFICES ASSUME FrameInv, RcvError PROVE FrameInv'
  OBVIOUS
<1> DEFINE f == Abort(frames[rcvPtr])
           g == <<STOP>>
<1>1. /\ rcvPtr \in Buffers /\ Buffer(frames[rcvPtr]) /\ next' \in Nat /\ rcvPtr' = rcvPtr
      /\ rcvAt' = "next"
  BY DEF FrameInv, Types, RcvError, SourceFails, RcvGoes
<1>2. frames' = [frames EXCEPT ![rcvPtr] = f] /\ given' = [given EXCEPT ![rcvPtr] = g]
  <2>1. frames' = [frames EXCEPT ![rcvPtr] = Abort(@)] /\ frames \in [Buffers -> Frames]
    BY DEF RcvError, FrameInv, Types
  <2> QED
    BY <1>1, <2>1 DEF RcvError
<1>3. Buffer(f)
  BY <1>1, BufferReset
<1> HIDE DEF f
<1>4. g \in Seq(Nat \cup {STOP}) /\ g # << >> /\ g[Len(g)] = STOP /\ g[1] = STOP /\ Len(g) = 1
  OBVIOUS
<1> HIDE DEF g
<1>5. ~Ends(g)
  BY <1>4 DEF Ends
<1>6. \A k \in Nat : ~BeginOf(g, k)
  <2> SUFFICES ASSUME NEW k \in Nat, BeginOf(g, k) PROVE FALSE
    OBVIOUS
  <2>1. k * PktsPerFrame + 1 - 1 = -1
    BY <1>4 DEF BeginOf, STOP
  <2>2. PICK x \in Int : x = k * PktsPerFrame /\ x >= 0
    BY Sizes
  <2> QED
    BY <2>1, <2>2
<1> QED
  BY <1>1, <1>2, <1>3, <1>4, <1>5, <1>6, OneBuffer

\* The reading thread takes from what is left to read of a frame, and nothing else.
LEMMA ReadStep == FrameInv /\ Reader => FrameInv'
<1> SUFFICES ASSUME FrameInv, Reader PROVE FrameInv'
  OBVIOUS
<1>1. UNCHANGED <<given, rcvAt, rcvPtr, rcvSeq, next>>
  BY DEF Reader, ReadLoop, ReadPop, ReadLock, ReadTake, ReadCopied, ReadKeeps, netVars, rcvVars
<1>2. frames' = frames \/ (HasMedia /\ frames' = [frames EXCEPT ![current].avail = Tail(@)])
  BY DEF Reader, ReadLoop, ReadPop, ReadLock, ReadTake, ReadCopied
<1>3. frames \in [Buffers -> Frames] /\ rcvPtr \in Buffers /\ next \in Nat
  BY DEF FrameInv, Types
<1>4. /\ DOMAIN frames' = Buffers /\ frames' = [b \in Buffers |-> frames'[b]]
      /\ \A b \in Buffers :
           /\ frames'[b] \in Frames
           /\ frames'[b].wait = frames[b].wait /\ frames'[b].firstPacket = frames[b].firstPacket
           /\ frames'[b].lastSeq = frames[b].lastSeq /\ frames'[b].size = frames[b].size
           /\ frames'[b].len = frames[b].len /\ frames'[b].data = frames[b].data
           /\ frames'[b].complete = frames[b].complete
  <2>1. CASE frames' = frames
    BY <1>3, <2>1
  <2>2. CASE HasMedia /\ frames' = [frames EXCEPT ![current].avail = Tail(@)]
    <3>1. ASSUME NEW b \in Buffers
          PROVE  /\ frames'[b] \in Frames
                 /\ frames'[b].wait = frames[b].wait /\ frames'[b].firstPacket = frames[b].firstPacket
                 /\ frames'[b].lastSeq = frames[b].lastSeq /\ frames'[b].size = frames[b].size
                 /\ frames'[b].len = frames[b].len /\ frames'[b].data = frames[b].data
                 /\ frames'[b].complete = frames[b].complete
      <4>1. CASE b # current
        BY <1>3, <2>2, <4>1
      <4>2. CASE b = current
        <5>1. PICK f \in Frames : f = frames[b] /\ f.avail # << >> /\ f.avail \in Seq(Media)
          BY <1>3, <2>2, <4>2 DEF HasMedia, Frames
        <5>2. PICK a : a = Tail(f.avail)
          OBVIOUS
        <5>3. a \in Seq(Media)
          BY <5>1, <5>2
        <5>4. frames'[b] = [f EXCEPT !.avail = a]
          BY <1>3, <2>2, <4>2, <5>1, <5>2
        <5> QED
          BY <5>1, <5>3, <5>4 DEF Frames
      <4> QED
        BY <4>1, <4>2
    <3>2. DOMAIN frames' = Buffers /\ frames' = [b \in Buffers |-> frames'[b]]
      BY <1>3, <2>2
    <3> QED
      BY <3>1, <3>2
  <2> QED
    BY <1>2, <2>1, <2>2
<1> QED
  BY <1>1, <1>3, <1>4, FramesStay

LEMMA OtherStep ==
  FrameInv /\ (RcvFirst \/ RcvStopped \/ RcvLeave \/ RcvComplete \/ RcvAnnounce
               \/ AppStart \/ AppStop \/ AppThread \/ Rest \/ UNCHANGED vars) => FrameInv'
<1> SUFFICES ASSUME FrameInv, \/ RcvFirst \/ RcvStopped \/ RcvLeave \/ RcvComplete \/ RcvAnnounce
                              \/ AppStart \/ AppStop \/ AppThread \/ Rest \/ UNCHANGED vars
             PROVE  FrameInv'
  OBVIOUS
<1>1. /\ frames \in [Buffers -> Frames] /\ DOMAIN frames = Buffers /\ frames = [b \in Buffers |-> frames[b]]
      /\ (\A b \in Buffers : frames[b] \in Frames) /\ rcvPtr \in Buffers /\ next \in Nat
  BY DEF FrameInv, Types
<1>2. frames' = frames /\ given' = given
  BY DEF RcvFirst, RcvStopped, RcvLeave, RcvComplete, RcvAnnounce, AppStart, AppStop, AppThread, AppSpawn, AppClose,
         AppMark, AppJoinRcv, AppJoinRead, AppKeeps, Rest, vars, bufVars, histVars
<1>3. rcvPtr' \in Buffers
  <2>1. CASE RcvAnnounce
    <3>1. PICK b \in Int : b = rcvPtr + 1
      BY <1>1 DEF Buffers
    <3>2. b % NbBuffers \in 0 .. NbBuffers - 1
      BY Sizes, DivMod
    <3> QED
      BY <2>1, <3>1, <3>2 DEF RcvAnnounce, Buffers
  <2>2. CASE AppStart
    BY <2>2, Sizes DEF AppStart
  <2>3. CASE RcvFirst \/ RcvStopped \/ RcvLeave \/ RcvComplete \/ AppStop \/ AppThread \/ Rest \/ UNCHANGED vars
    BY <1>1, <2>3 DEF RcvFirst, RcvStopped, RcvLeave, RcvComplete, AppStop, AppThread, AppSpawn, AppClose,
         AppMark, AppJoinRcv, AppJoinRead, AppKeeps, Rest, vars, rcvVars
  <2> QED
    BY <2>1, <2>2, <2>3
<1>4. next' \in Nat
  <2>1. CASE RcvFirst
    BY <1>1, <2>1, Sizes DEF RcvFirst, Delivered, SourceFails, netVars
  <2>2. CASE ~RcvFirst
    BY <1>1, <2>2 DEF RcvStopped, RcvLeave, RcvComplete, RcvAnnounce, AppStart, AppStop, AppThread, AppSpawn, AppClose,
         AppMark, AppJoinRcv, AppJoinRead, AppKeeps, Rest, vars, netVars
  <2> QED
    BY <2>1, <2>2
<1>5. rcvAt' = "fill" => rcvAt = "fill" /\ rcvPtr' = rcvPtr /\ rcvSeq' = rcvSeq /\ next' = next
  <2>1. CASE RcvFirst \/ RcvStopped \/ RcvLeave \/ RcvComplete \/ RcvAnnounce \/ AppStart \/ AppJoinRcv
    BY <2>1 DEF RcvFirst, RcvStopped, RcvLeave, RcvComplete, RcvAnnounce, RcvGoes, AppStart, AppJoinRcv
  <2>2. CASE AppStop \/ AppSpawn \/ AppClose \/ AppMark \/ AppJoinRead \/ Rest \/ UNCHANGED vars
    BY <2>2 DEF AppStop, AppSpawn, AppClose, AppMark, AppJoinRead, AppKeeps, Rest, vars, netVars, rcvVars
  <2> QED
    BY <2>1, <2>2 DEF AppThread
<1> QED
  BY <1>1, <1>2, <1>3, <1>4, <1>5, FramesStay

LEMMA FrameStep == FrameInv /\ [Next]_vars => FrameInv'
<1> SUFFICES ASSUME FrameInv, [Next]_vars PROVE FrameInv'
  OBVIOUS
<1>1. CASE Receiver
  <2>1. CASE RcvNext
    BY <2>1, NextStep
  <2>2. CASE \E n \in 0 .. MaxPackets - 1 : RcvPacket(n)
    BY <2>2, PacketStep
  <2>3. CASE RcvError
    BY <2>3, ErrorStep
  <2>4. CASE RcvFirst \/ RcvStopped \/ RcvLeave \/ RcvComplete \/ RcvAnnounce
    BY <2>4, OtherStep
  <2> QED
    BY <1>1, <2>1, <2>2, <2>3, <2>4 DEF Receiver
<1>2. CASE Reader
  BY <1>2, ReadStep
<1>3. CASE AppStart \/ AppStop \/ AppThread \/ Rest \/ UNCHANGED vars
  BY <1>3, OtherStep
<1> QED
  BY <1>1, <1>2, <1>3 DEF Next

LEMMA FrameAlways == Spec => []FrameInv
BY FrameInit, FrameStep, PTL DEF Spec

\* Whatever the network loses, repeats or reorders within a turn of the sequence
\* number, whatever fails and however often the pin is restarted, addRTPPacket only
\* completes a buffer that has exactly the packets of one frame.
THEOREM FramesAreWhole == Spec => []CompleteFramesAreWhole
<1>1. FrameInv => CompleteFramesAreWhole
  BY DEF FrameInv, Buffer, CompleteFramesAreWhole
<1> QED
  BY <1>1, FrameAlways, PTL

\* addRTPPacket loses no frame needlessly: once a buffer knows the length of a frame,
\* the packets of a frame in order after an end marker always complete it.
THEOREM NoFrameIsDropped == Spec => []GoodFramesComplete
<1>1. FrameInv => GoodFramesComplete
  BY DEF FrameInv
<1> QED
  BY <1>1, FrameAlways, PTL

(***************************************************************************)
(* The reader that keeps up.  Behind the frame being filled come those in  *)
(* the queue and then the one the reader has; their first packets tell     *)
(* their order in the stream.                                              *)
(***************************************************************************)
First(b) == frames[b].data[1]

\* First packets: the memory of a first frame is no packet.
Before(x, y) == x # JUNK /\ y # JUNK => x <= y

InQueue(b) == \E j \in 1 .. Len(queue) : queue[j] = b
Comes(b, c) == \E i, j \in 1 .. Len(queue) : i < j /\ queue[i] = b /\ queue[j] = c
Ahead(b) ==
  \/ readAt = "lock" /\ popped = b
  \/ current = b /\ (frames[b].avail # << >> \/ readAt \in {"take", "copy"})

KeepTypes ==
  /\ queue \in Seq(Buffers \cup {STOP}) /\ current \in Buffers \cup {NONE}
  /\ readAt = "lock" => popped \in Buffers
  /\ copied \in Seq(Nat \cup {JUNK}) /\ taken \in Seq(Nat)

\* A frame that is still to be read is complete, and not the one being filled.
Kept ==
  /\ \A b \in Buffers : InUse(b) => frames[b].complete
  /\ rcvAt \in {"fill", "push"} => ~InUse(rcvPtr)
  /\ rcvAt = "push" => frames[rcvPtr].complete
  /\ readAt = "copy" => current # NONE /\ copied = frames[current].data
  /\ ~torn

\* The first packet of a frame that was read, or is still to be read.
Behind(x) ==
  \/ \E b \in Buffers : InUse(b) /\ x = First(b) /\ x # JUNK
  \/ \E j \in 1 .. Len(taken) : x = taken[j] * PktsPerFrame

\* The network has passed all those frames, and the frame being filled began after
\* the last packets of each had come, be it with a late packet.
Passed ==
  /\ \A x \in Nat : Behind(x) => x + PktsPerFrame <= next
  /\ rcvAt \in {"fill", "push"} /\ frames[rcvPtr].data # << >> /\ First(rcvPtr) # JUNK =>
       /\ \A x \in Nat : Behind(x) => x + PktsPerFrame <= First(rcvPtr) + Late
       /\ frames[rcvPtr].complete => First(rcvPtr) + PktsPerFrame <= next

InTurn ==
  /\ Rising(taken)
  /\ \A j \in 1 .. Len(taken), b \in Buffers : InUse(b) => Before(taken[j] * PktsPerFrame, First(b))
  /\ \A b, c \in Buffers : Comes(b, c) \/ (Ahead(b) /\ InQueue(c)) => Before(First(b), First(c))

KeepInv == KeepTypes /\ (~late => Kept /\ Passed /\ InTurn)

\* No packet is as late as two frames are long.
WithinTwoFrames == Late < 2 * PktsPerFrame

LEMMA InUseIs == \A b : InUse(b) <=> InQueue(b) \/ Ahead(b)
BY DEF InUse, InQueue, Ahead

\* A frame of the stream by its first packet.
LEMMA SoundFrame ==
  ASSUME NEW d, d \in Seq(Nat \cup {JUNK}), Sound(d), d[1] # JUNK
  PROVE  /\ FrameOf(d[1]) \in Nat /\ d[1] = FrameOf(d[1]) * PktsPerFrame
         /\ Len(d) = PktsPerFrame /\ d[PktsPerFrame] = d[1] + PktsPerFrame - 1
<1>1. PICK p \in Nat : p = PktsPerFrame /\ p >= 1
  BY Sizes
<1>2. d # << >> /\ Len(d) \in Nat /\ Len(d) >= 1
  BY DEF Sound
<1>3. d[1] \in Nat
  BY <1>2
<1>4. d # Junk(PktsPerFrame)
  BY <1>1 DEF Junk
<1>5. PICK k \in Int, r \in 0 .. p - 1 : k = FrameOf(d[1]) /\ d[1] = p * k + r
  <2>1. PICK x \in Int : x = d[1]
    BY <1>3
  <2>2. x = p * (x \div p) + (x % p) /\ x % p \in 0 .. p - 1 /\ x \div p \in Int
    BY <1>1, DivMod
  <2> QED
    BY <1>1, <2>1, <2>2 DEF FrameOf
<1>6. k \in Nat
  <2>1. k <= -1 => p * k <= -p
    BY <1>1
  <2> QED
    BY <1>1, <1>3, <1>5, <2>1
<1>7. d = [j \in 1 .. p |-> k * p + j - 1]
  BY <1>1, <1>4, <1>5 DEF Sound, FramePackets
<1>8. k * p \in Int /\ Len(d) = p /\ d[1] = k * p + 1 - 1 /\ d[p] = k * p + p - 1
  <2>1. k * p \in Int
    BY <1>1, <1>5
  <2>2. DOMAIN d = 1 .. p /\ DOMAIN d = 1 .. Len(d)
    BY <1>7
  <2> QED
    BY <1>1, <1>2, <1>7, <2>1, <2>2
<1>9. PICK x \in Int : x = k * p /\ d[1] = x /\ d[p] = x + p - 1
  BY <1>8
<1>10. d[p] = d[1] + p - 1
  BY <1>1, <1>9
<1> QED
  BY <1>1, <1>5, <1>6, <1>8, <1>9, <1>10

\* Frames of the stream do not overlap.
LEMMA FramesApart ==
  ASSUME WithinTwoFrames, NEW k \in Int, NEW l \in Int
  PROVE  /\ k * PktsPerFrame + PktsPerFrame <= l * PktsPerFrame + Late => k * PktsPerFrame <= l * PktsPerFrame
         /\ k * PktsPerFrame <= l * PktsPerFrame => k <= l
<1>1. PICK p \in Int : p = PktsPerFrame /\ p > 0
  BY Sizes
<1>2. p * (k - l) = k * p - l * p
  BY <1>1
<1>3. k - l >= 1 => p * (k - l) >= p
  BY <1>1
<1>4. k * p <= l * p => k <= l
  BY <1>1, <1>2, <1>3
<1>5. k * p + p <= l * p + Late => k * p <= l * p
  <2>1. k * p + p <= l * p + Late => p * (k - l) < p
    BY <1>1, <1>2, Sizes DEF WithinTwoFrames
  <2>2. p * (k - l) < p => k - l <= 0
    BY <1>1, <1>3
  <2>3. k - l <= 0 => p * (k - l) <= 0
    BY <1>1
  <2> QED
    BY <1>1, <1>2, <2>1, <2>2, <2>3
<1> QED
  BY <1>1, <1>4, <1>5

\* What a packet does to a buffer that is not complete.
LEMMA AddedData ==
  ASSUME NEW f \in Frames, ~f.complete, NEW n \in Nat, NEW g, g = AddPacket(f, n)
  PROVE  /\ ~g.complete => g.avail = f.avail
         /\ \/ g.data = << >>
            \/ g.data = f.data /\ ~g.complete
            \/ g.data = Append(f.data, n)
            \/ g.data = Junk(f.len + 1) /\ f.len + 1 >= PktsPerFrame
<1>1. PICK h : h = [f EXCEPT !.lastSeq = SeqOf(n)]
  OBVIOUS
<1>2. /\ h \in Frames /\ h.wait = f.wait /\ h.firstPacket = f.firstPacket
      /\ h.size = f.size /\ h.len = f.len /\ h.data = f.data /\ h.complete = FALSE /\ h.avail = f.avail
  <2>1. SeqOf(n) \in 0 .. SeqRange - 1
    BY Sizes, DivMod DEF SeqOf
  <2> QED
    BY <1>1, <2>1 DEF Frames
<1>3. g = IF f.wait \/ Gap(f, n) THEN Skip(h, n) ELSE Keep(h, n)
  BY <1>1 DEF AddPacket
<1>4. \A e \in Frames : e.complete = FALSE =>
        /\ Reset(e).data = << >> /\ Reset(e).avail = e.avail /\ Reset(e).complete = FALSE
        /\ Abort(e).data = << >> /\ Abort(e).avail = e.avail /\ Abort(e).complete = FALSE
  BY DEF Reset, Abort, Frames
<1>5. CASE g = Skip(h, n)
  <2>1. [Reset(h) EXCEPT !.wait = FALSE].data = << >> /\ [Reset(h) EXCEPT !.wait = FALSE].avail = h.avail
        /\ [Reset(h) EXCEPT !.wait = FALSE].complete = FALSE
    BY <1>2 DEF Reset, Frames
  <2>2. [h EXCEPT !.wait = TRUE].data = h.data /\ [h EXCEPT !.wait = TRUE].avail = h.avail
        /\ [h EXCEPT !.wait = TRUE].complete = FALSE
    BY <1>2 DEF Frames
  <2> QED
    BY <1>2, <1>5, <2>1, <2>2 DEF Skip
<1>6. CASE g = Keep(h, n)
  <2>1. PICK c : c = Copy(h, n)
    OBVIOUS
  <2>2. PICK d : d = IF h.size = 0 THEN h.data ELSE Append(h.data, n)
    OBVIOUS
  <2>3. d \in Seq(Nat \cup {JUNK})
    BY <1>2, <2>2 DEF Frames
  <2>4. c = [wait |-> h.wait, firstPacket |-> FALSE, lastSeq |-> h.lastSeq, size |-> h.size,
             len |-> h.len + 1, data |-> d, complete |-> h.complete, avail |-> h.avail]
    <3>1. c = [h EXCEPT !.firstPacket = FALSE, !.len = h.len + 1, !.data = d]
      BY <1>2, <2>1, <2>2 DEF Copy, Frames
    <3> QED
      BY <1>2, <3>1 DEF Frames
  <2>5. c \in Frames /\ c.complete = FALSE /\ c.avail = f.avail /\ c.len = f.len + 1 /\ c.data = d
        /\ c.data \in {f.data, Append(f.data, n)} /\ (c.size # 0 => c.data = Append(f.data, n))
    <3>1. h.len + 1 \in Nat /\ h.wait \in BOOLEAN /\ h.lastSeq \in {-1} \cup 0 .. SeqRange - 1 /\ h.size \in Nat
          /\ h.avail \in Seq(Media)
      BY <1>2 DEF Frames
    <3>2. c \in Frames
      BY <1>2, <2>3, <2>4, <3>1 DEF Frames
    <3> QED
      BY <1>2, <2>2, <2>4, <3>2
  <2>6. \A e \in Frames : Complete(e).data = e.data /\ Complete(e).complete = TRUE
    BY DEF Complete, Frames
  <2>7. CASE g = EndOfFrame(c)
    <3>1. CASE c.size = 0 /\ c.len \in PktsPerFrame .. PktsPerFrame + 1
      <4>1. PICK e : e = [c EXCEPT !.size = c.len, !.data = Junk(c.len)]
        OBVIOUS
      <4>2. Junk(c.len) \in Seq(Nat \cup {JUNK}) /\ c.len \in Nat
        BY <2>5 DEF Frames, Junk
      <4>3. e \in Frames /\ e.data = Junk(c.len)
        BY <2>5, <4>1, <4>2 DEF Frames
      <4>4. g = Complete(e)
        BY <2>5, <2>7, <3>1, <4>1 DEF EndOfFrame, Frames
      <4> QED
        BY <2>5, <2>6, <3>1, <4>3, <4>4, Sizes
    <3>2. CASE c.size # 0 /\ c.len = c.size
      <4>1. g = Complete(c)
        BY <2>7, <3>2 DEF EndOfFrame
      <4> QED
        BY <2>5, <2>6, <3>2, <4>1
    <3>3. CASE ~(c.size = 0 /\ c.len \in PktsPerFrame .. PktsPerFrame + 1) /\ ~(c.size # 0 /\ c.len = c.size)
      <4>1. g = Abort(c) \/ g = Reset(c)
        BY <2>7, <3>3 DEF EndOfFrame
      <4> QED
        BY <1>4, <2>5, <4>1
    <3> QED
      BY <3>1, <3>2, <3>3
  <2>8. CASE g = Abort(h)
    BY <1>2, <1>4, <2>8
  <2>9. CASE g = c
    BY <2>5, <2>9
  <2> QED
    BY <1>6, <2>1, <2>7, <2>8, <2>9 DEF Keep
<1> QED
  BY <1>3, <1>5, <1>6

(***************************************************************************)
(* Steps that make no frame one that is to be read.                        *)
(***************************************************************************)
\* Frames that are to be read are as they were.
SameUse ==
  \A b \in Buffers : InUse(b)' =>
    InUse(b) /\ frames'[b].complete = frames[b].complete /\ frames'[b].data = frames[b].data

SameTurns ==
  \A b, c \in Buffers : Comes(b, c)' \/ (Ahead(b)' /\ InQueue(c)') =>
    Before(frames[b].data[1], frames[c].data[1])

LEMMA QueuedInUse ==
  \A b, c : /\ Comes(b, c) => InUse(b) /\ InUse(c)
            /\ Ahead(b) /\ InQueue(c) => InUse(b) /\ InUse(c)
BY DEF Comes, Ahead, InQueue, InUse

LEMMA StillKept ==
  ASSUME Kept, SameUse, rcvPtr \in Buffers,
         rcvAt' \in {"fill", "push"} => rcvPtr' = rcvPtr /\ ~InUse(rcvPtr),
         rcvAt' = "push" => frames'[rcvPtr'].complete,
         readAt' = "copy" => current' # NONE /\ copied' = frames'[current'].data,
         ~torn'
  PROVE  Kept'
<1>1. \A b \in Buffers : InUse(b)' => frames'[b].complete
  BY DEF Kept, SameUse
<1>2. ASSUME rcvAt' \in {"fill", "push"} PROVE ~InUse(rcvPtr)'
  <2>1. PICK b \in Buffers : b = rcvPtr /\ b = rcvPtr'
    BY <1>2
  <2>2. ~InUse(b)'
    BY <1>2, <2>1 DEF SameUse
  <2> QED
    BY <2>1, <2>2 DEF InUse
<1> QED
  BY <1>1, <1>2 DEF Kept

LEMMA StillBehind ==
  ASSUME SameUse, taken' = taken
  PROVE  \A x : Behind(x)' => Behind(x)
BY DEF SameUse, Behind, First

\* No frame is being filled, or the same.
SameFilling ==
  rcvAt' \in {"fill", "push"} =>
    /\ rcvPtr' = rcvPtr
    /\ \/ frames'[rcvPtr].data = << >>
       \/ /\ rcvAt \in {"fill", "push"}
          /\ frames'[rcvPtr].data = frames[rcvPtr].data
          /\ frames'[rcvPtr].complete = frames[rcvPtr].complete

LEMMA StillPassed ==
  ASSUME Passed, SameFilling, \A x \in Nat : Behind(x)' => Behind(x),
         next \in Nat, next' \in Nat, next <= next', frames \in [Buffers -> Frames], rcvPtr \in Buffers,
         \A b \in Buffers : Buffer(frames[b])
  PROVE  Passed'
<1>1. \A x \in Nat : Behind(x)' => x + PktsPerFrame <= next'
  BY Sizes DEF Passed
<1>2. ASSUME rcvAt' \in {"fill", "push"}, frames'[rcvPtr'].data # << >>, frames'[rcvPtr'].data[1] # JUNK
      PROVE  /\ \A x \in Nat : Behind(x)' => x + PktsPerFrame <= frames'[rcvPtr'].data[1] + Late
             /\ frames'[rcvPtr'].complete => frames'[rcvPtr'].data[1] + PktsPerFrame <= next'
  <2>1. /\ rcvPtr' = rcvPtr /\ rcvAt \in {"fill", "push"}
        /\ frames'[rcvPtr].data = frames[rcvPtr].data /\ frames'[rcvPtr].complete = frames[rcvPtr].complete
    BY <1>2 DEF SameFilling
  <2>2. PICK y : y = frames[rcvPtr].data[1]
    OBVIOUS
  <2>3. y \in Nat
    <3>1. frames[rcvPtr].data \in Seq(Nat \cup {JUNK}) /\ frames[rcvPtr].data # << >>
      BY <1>2, <2>1 DEF Frames
    <3> QED
      BY <1>2, <2>1, <2>2, <3>1
  <2>4. /\ \A x \in Nat : Behind(x) => x + PktsPerFrame <= y + Late
        /\ frames[rcvPtr].complete => y + PktsPerFrame <= next
    BY <1>2, <2>1, <2>2 DEF Passed, First
  <2>5. frames[rcvPtr].complete => y + PktsPerFrame <= next'
    BY <2>3, <2>4, Sizes
  <2> QED
    BY <2>1, <2>2, <2>4, <2>5
<1> QED
  BY <1>1, <1>2 DEF Passed, First

LEMMA StillInTurn ==
  ASSUME InTurn, SameUse, SameTurns, taken' = taken
  PROVE  InTurn'
<1>1. Rising(taken)'
  BY DEF InTurn, Rising
<1>2. \A j \in 1 .. Len(taken), b \in Buffers : InUse(b)' => Before(taken[j] * PktsPerFrame, frames'[b].data[1])
  BY DEF InTurn, SameUse, First
<1>3. \A b, c \in Buffers : Comes(b, c)' \/ (Ahead(b)' /\ InQueue(c)') => Before(frames'[b].data[1], frames'[c].data[1])
  <2> SUFFICES ASSUME NEW b \in Buffers, NEW c \in Buffers, Comes(b, c)' \/ (Ahead(b)' /\ InQueue(c)')
               PROVE  Before(frames'[b].data[1], frames'[c].data[1])
    OBVIOUS
  <2>1. InUse(b)' /\ InUse(c)'
    BY DEF Comes, Ahead, InQueue, InUse
  <2>2. frames'[b].data = frames[b].data /\ frames'[c].data = frames[c].data
    BY <2>1 DEF SameUse
  <2> QED
    BY <2>2 DEF SameTurns
<1>4. \A x, y : Before(x, y)' <=> Before(x, y)
  BY DEF Before
<1> QED
  BY <1>1, <1>2, <1>3, <1>4 DEF InTurn, First, Before

\* Together: what a step has to be for the reader to keep up.
LEMMA KeepStill ==
  ASSUME FrameInv, FrameInv', KeepInv, ~late, KeepTypes', SameUse, SameTurns, SameFilling, next <= next',
         rcvAt' \in {"fill", "push"} => ~InUse(rcvPtr),
         rcvAt' = "push" => frames'[rcvPtr'].complete,
         readAt' = "copy" => current' # NONE /\ copied' = frames'[current'].data,
         torn' = torn, taken' = taken
  PROVE  KeepInv'
<1>1. Kept /\ Passed /\ InTurn
  BY DEF KeepInv
<1>2. /\ next \in Nat /\ next' \in Nat /\ rcvPtr \in Buffers /\ frames \in [Buffers -> Frames]
      /\ \A b \in Buffers : Buffer(frames[b])
  BY DEF FrameInv, Types
<1>3. rcvAt' \in {"fill", "push"} => rcvPtr' = rcvPtr
  BY DEF SameFilling
<1>4. Kept'
  <2>1. ~torn'
    BY <1>1 DEF Kept
  <2> QED
    BY <1>1, <1>2, <1>3, <2>1, StillKept
<1>5. \A x \in Nat : Behind(x)' => Behind(x)
  BY StillBehind
<1>6. Passed'
  BY <1>1, <1>2, <1>5, StillPassed
<1>7. InTurn'
  BY <1>1, StillInTurn
<1> QED
  BY <1>4, <1>6, <1>7 DEF KeepInv

\* Steps of the receiving thread and the application that touch no frame, and add no more
\* than a marker to the queue.
Aside ==
  /\ UNCHANGED <<frames, current, popped, copied, taken, torn, late>>
  /\ queue' \in {queue, Append(queue, STOP)}
  /\ next <= next'
  /\ readAt' \in {"lock", "take", "copy"} => readAt' = readAt
  /\ rcvAt' \in {"fill", "push"} => rcvAt \in {"fill", "push"} /\ rcvPtr' = rcvPtr
  /\ rcvAt' = "push" => rcvAt = "push" \/ frames[rcvPtr].complete

LEMMA AsideSteps ==
  ASSUME FrameInv,
         \/ RcvFirst \/ RcvStopped \/ RcvLeave \/ RcvComplete
         \/ AppStart \/ AppStop \/ AppThread \/ Rest \/ UNCHANGED vars
  PROVE  Aside
<1>1. next \in Nat
  BY DEF FrameInv, Types
<1>2. CASE RcvFirst
  <2>1. next <= next'
    BY <1>1, <1>2, Sizes DEF RcvFirst, Delivered, SourceFails, netVars
  <2>2. UNCHANGED <<frames, current, popped, copied, taken, torn, late, queue, readAt>> /\ rcvAt' \notin {"fill", "push"}
    BY <1>2 DEF RcvFirst, RcvGoes, bufVars, readVars, histVars
  <2> QED
    BY <2>1, <2>2 DEF Aside
<1>3. CASE RcvStopped \/ RcvLeave \/ RcvComplete
  BY <1>1, <1>3 DEF RcvStopped, RcvLeave, RcvComplete, RcvGoes, Aside, netVars, bufVars, readVars, histVars
<1>4. CASE AppStart \/ AppStop \/ AppThread
  <2>1. CASE AppMark
    BY <1>1, <2>1 DEF AppMark, Aside, netVars, rcvVars, readVars, histVars
  <2>2. CASE AppStart \/ AppStop \/ AppSpawn \/ AppClose \/ AppJoinRcv \/ AppJoinRead
    BY <1>1, <2>2 DEF AppStart, AppStop, AppSpawn, AppClose, AppJoinRcv, AppJoinRead, AppKeeps, AppGoes, Aside,
         netVars, bufVars, rcvVars, histVars
  <2> QED
    BY <1>4, <2>1, <2>2 DEF AppThread
<1>5. CASE Rest \/ UNCHANGED vars
  BY <1>1, <1>5 DEF Rest, Aside, vars, netVars, bufVars, rcvVars, readVars, histVars
<1> QED
  BY <1>2, <1>3, <1>4, <1>5

LEMMA AppendMember ==
  ASSUME NEW S, NEW s \in Seq(S), NEW e
  PROVE  /\ Len(Append(s, e)) = Len(s) + 1 /\ Len(s) \in Nat
         /\ \A j \in 1 .. Len(s) + 1 : Append(s, e)[j] = IF j <= Len(s) THEN s[j] ELSE e
         /\ e \in S => Append(s, e) \in Seq(S)
OBVIOUS

LEMMA TailMember ==
  ASSUME NEW S, NEW s \in Seq(S), s # << >>
  PROVE  /\ Len(Tail(s)) = Len(s) - 1 /\ Len(s) \in Nat /\ Len(s) >= 1 /\ Head(s) = s[1] /\ Head(s) \in S
         /\ \A j \in 1 .. Len(s) - 1 : Tail(s)[j] = s[j + 1]
         /\ Tail(s) \in Seq(S)
OBVIOUS

LEMMA KeepInit == Init => KeepInv
<1> SUFFICES ASSUME Init PROVE KeepInv
  OBVIOUS
<1>1. \A S : << >> \in Seq(S)
  OBVIOUS
<1>2. KeepTypes
  BY <1>1 DEF Init, KeepTypes
<1>3. ~InUse(rcvPtr) /\ \A b \in Buffers : ~InUse(b)
  BY DEF Init, InUse, NONE, Buffers
<1>4. Kept
  BY <1>3 DEF Init, Kept
<1>5. Passed
  <2>1. \A x : ~Behind(x)
    BY <1>3 DEF Init, Behind
  <2> QED
    BY <2>1 DEF Init, Passed
<1>6. InTurn
  BY DEF Init, InTurn, Rising, Comes, InQueue
<1> QED
  BY <1>2, <1>4, <1>5, <1>6 DEF KeepInv

LEMMA KeepTypesStep == FrameInv /\ KeepTypes /\ [Next]_vars => KeepTypes'
<1> SUFFICES ASSUME FrameInv, KeepTypes, [Next]_vars PROVE KeepTypes'
  OBVIOUS
<1>1. /\ queue \in Seq(Buffers \cup {STOP}) /\ current \in Buffers \cup {NONE} /\ rcvPtr \in Buffers
      /\ copied \in Seq(Nat \cup {JUNK}) /\ taken \in Seq(Nat) /\ frames \in [Buffers -> Frames]
      /\ readAt = "lock" => popped \in Buffers
  BY DEF FrameInv, Types, KeepTypes
<1>2. CASE Aside
  <2>1. Append(queue, STOP) \in Seq(Buffers \cup {STOP})
    BY <1>1
  <2> QED
    BY <1>1, <1>2, <2>1 DEF Aside, KeepTypes
<1>3. CASE RcvNext \/ RcvError \/ \E n \in 0 .. MaxPackets - 1 : RcvPacket(n)
  BY <1>1, <1>3 DEF RcvNext, RcvError, RcvPacket, readVars, KeepTypes
<1>4. CASE RcvAnnounce
  <2>1. Append(queue, rcvPtr) \in Seq(Buffers \cup {STOP})
    BY <1>1
  <2> QED
    BY <1>1, <1>4, <2>1 DEF RcvAnnounce, readVars, histVars, KeepTypes
<1>5. CASE Reader
  <2>1. CASE ReadLoop
    BY <1>1, <2>1 DEF ReadLoop, ReadGoes, KeepTypes
  <2>2. CASE ReadPop
    <3>1. queue # << >> /\ Tail(queue) \in Seq(Buffers \cup {STOP}) /\ Head(queue) \in Buffers \cup {STOP}
      BY <1>1, <2>2, TailMember DEF ReadPop
    <3> QED
      BY <1>1, <2>2, <3>1 DEF ReadPop, ReadGoes, KeepTypes
  <2>3. CASE ReadLock
    BY <1>1, <2>3 DEF ReadLock, ReadGoes, KeepTypes
  <2>4. CASE ReadTake
    <3>1. HasMedia => frames[current].data \in Seq(Nat \cup {JUNK})
      BY <1>1 DEF HasMedia, Frames
    <3> QED
      BY <1>1, <2>4, <3>1 DEF ReadTake, KeepTypes
  <2>5. CASE ReadCopied
    <3>1. << >> \in Seq(Nat \cup {JUNK})
      OBVIOUS
    <3>2. taken' \in Seq(Nat)
      <4>1. Sound(copied) /\ copied[1] # JUNK => FrameOf(copied[1]) \in Nat
        BY <1>1, SoundFrame
      <4> QED
        BY <1>1, <2>5, <4>1 DEF ReadCopied
    <3> QED
      BY <1>1, <2>5, <3>1, <3>2 DEF ReadCopied, ReadGoes, KeepTypes
  <2> QED
    BY <1>5, <2>1, <2>2, <2>3, <2>4, <2>5 DEF Reader
<1> QED
  BY <1>2, <1>3, <1>4, <1>5, AsideSteps DEF Next, Receiver

LEMMA LateStays == [Next]_vars /\ ~late' => ~late
BY DEF Next, Receiver, RcvFirst, RcvNext, RcvStopped, RcvPacket, RcvError, RcvLeave, RcvComplete, RcvAnnounce,
       Reader, ReadLoop, ReadPop, ReadLock, ReadTake, ReadCopied, ReadKeeps, AppStart, AppStop, AppThread,
       AppSpawn, AppClose, AppMark, AppJoinRcv, AppJoinRead, AppKeeps, Rest, vars, histVars

\* A step of those two threads but for RcvAnnounce: nothing more is to be read.
LEMMA NoneMore ==
  ASSUME KeepTypes, \A b \in Buffers : frames'[b].avail = frames[b].avail \/ current # b,
         queue' \in {queue, Append(queue, STOP)}, current' = current, popped' = popped,
         readAt' \in {"lock", "take", "copy"} => readAt' = readAt
  PROVE  /\ \A b \in Buffers : InQueue(b)' => InQueue(b)
         /\ \A b, c \in Buffers : Comes(b, c)' => Comes(b, c)
         /\ \A b \in Buffers : Ahead(b)' => Ahead(b)
         /\ \A b \in Buffers : InUse(b)' => InUse(b)
<1>1. queue \in Seq(Buffers \cup {STOP}) /\ STOP \notin Buffers
  BY DEF KeepTypes, STOP, Buffers
<1>2. PICK s : s = Append(queue, STOP)
  OBVIOUS
<1>3. /\ Len(s) = Len(queue) + 1 /\ Len(queue) \in Nat
      /\ \A j \in 1 .. Len(queue) + 1 : s[j] = IF j <= Len(queue) THEN queue[j] ELSE STOP
  BY <1>1, <1>2, AppendMember
<1>4. /\ \A b \in Buffers : InQueue(b)' => InQueue(b)
      /\ \A b, c \in Buffers : Comes(b, c)' => Comes(b, c)
  <2>1. CASE queue' = queue
    BY <2>1 DEF InQueue, Comes
  <2>2. CASE queue' = s
    BY <1>1, <1>3, <2>2 DEF InQueue, Comes
  <2> QED
    BY <1>2, <2>1, <2>2
<1>5. \A b \in Buffers : Ahead(b)' => Ahead(b)
  <2> SUFFICES ASSUME NEW b \in Buffers, Ahead(b)' PROVE Ahead(b)
    OBVIOUS
  <2>1. CASE readAt' = "lock" /\ popped' = b
    BY <2>1 DEF Ahead
  <2>2. CASE current' = b /\ readAt' \in {"take", "copy"}
    BY <2>2 DEF Ahead
  <2>3. CASE current' = b /\ frames'[b].avail # << >>
    BY <2>3 DEF Ahead
  <2> QED
    BY <2>1, <2>2, <2>3 DEF Ahead
<1>6. \A b \in Buffers : InUse(b)' => InUse(b)
  <2>1. \A b \in Buffers : InUse(b)' => InQueue(b)' \/ Ahead(b)'
    BY DEF InUse, InQueue, Ahead
  <2> QED
    BY <1>4, <1>5, <2>1, InUseIs
<1> QED
  BY <1>4, <1>5, <1>6

\* Such a step keeps the order.
LEMMA UnusedTurns ==
  ASSUME InTurn,
         \A b, c \in Buffers : Comes(b, c)' => Comes(b, c),
         \A b \in Buffers : Ahead(b)' => Ahead(b),
         \A b \in Buffers : InQueue(b)' => InQueue(b)
  PROVE  SameTurns
BY DEF InTurn, SameTurns, First

LEMMA KeepAside == FrameInv /\ FrameInv' /\ KeepInv /\ KeepTypes' /\ ~late /\ Aside => KeepInv'
<1> SUFFICES ASSUME FrameInv, FrameInv', KeepInv, KeepTypes', ~late, Aside PROVE KeepInv'
  OBVIOUS
<1>1. KeepTypes /\ Kept /\ InTurn /\ rcvPtr \in Buffers
  BY DEF KeepInv, FrameInv, Types
<1>2. /\ \A b \in Buffers : frames'[b] = frames[b]
      /\ queue' \in {queue, Append(queue, STOP)} /\ current' = current /\ popped' = popped
      /\ readAt' \in {"lock", "take", "copy"} => readAt' = readAt
  BY DEF Aside
<1>4. /\ \A b \in Buffers : InQueue(b)' => InQueue(b)
      /\ \A b, c \in Buffers : Comes(b, c)' => Comes(b, c)
      /\ \A b \in Buffers : Ahead(b)' => Ahead(b)
      /\ \A b \in Buffers : InUse(b)' => InUse(b)
  BY <1>1, <1>2, NoneMore
<1>5. SameUse
  BY <1>2, <1>4 DEF SameUse
<1>6. SameTurns
  BY <1>1, <1>4, UnusedTurns
<1>7. SameFilling
  BY DEF Aside, SameFilling
<1>8. rcvAt' \in {"fill", "push"} => ~InUse(rcvPtr)
  BY <1>1 DEF Aside, Kept
<1>9. rcvAt' = "push" => frames'[rcvPtr'].complete
  BY <1>1 DEF Aside, Kept
<1>10. readAt' = "copy" => current' # NONE /\ copied' = frames'[current'].data
  BY <1>1, <1>2 DEF Aside, Kept
<1> QED
  BY <1>5, <1>6, <1>7, <1>8, <1>9, <1>10, KeepStill DEF Aside

\* RcvNext and RcvError empty the buffer; one that is to be read makes the reader late.
LEMMA KeepReset ==
  FrameInv /\ FrameInv' /\ KeepInv /\ KeepTypes' /\ ~late /\ ~late' /\ (RcvNext \/ RcvError) => KeepInv'
<1> SUFFICES ASSUME FrameInv, FrameInv', KeepInv, KeepTypes', ~late, ~late', RcvNext \/ RcvError
             PROVE  KeepInv'
  OBVIOUS
<1>1. /\ KeepTypes /\ Kept /\ InTurn /\ rcvPtr \in Buffers /\ frames \in [Buffers -> Frames]
      /\ Buffer(frames[rcvPtr]) /\ next \in Nat
  BY DEF KeepInv, FrameInv, Types
<1>2. ~InUse(rcvPtr) /\ rcvPtr' = rcvPtr /\ rcvAt' # "push" /\ (readAt' = readAt)
  BY <1>1 DEF RcvNext, RcvError, RcvGoes, Kept, readVars
<1>3. PICK f : f \in {Reset(frames[rcvPtr]), Abort(frames[rcvPtr])} /\ frames' = [frames EXCEPT ![rcvPtr] = f]
  BY <1>1 DEF RcvNext, RcvError
<1>4. f.data = << >> /\ f.avail = frames[rcvPtr].avail
  BY <1>1, <1>3 DEF Reset, Abort, Frames
<1>5. /\ frames'[rcvPtr] = f
      /\ \A b \in Buffers : b # rcvPtr => frames'[b] = frames[b]
  BY <1>1, <1>3
<1>6. /\ queue' = queue /\ current' = current /\ popped' = popped /\ copied' = copied /\ taken' = taken /\ torn' = torn
  BY DEF RcvNext, RcvError, readVars
<1>7. next <= next'
  BY <1>1 DEF RcvNext, RcvError, SourceFails, netVars
<1>8. /\ \A b \in Buffers : InQueue(b)' => InQueue(b)
      /\ \A b, c \in Buffers : Comes(b, c)' => Comes(b, c)
      /\ \A b \in Buffers : Ahead(b)' => Ahead(b)
      /\ \A b \in Buffers : InUse(b)' => InUse(b)
  <2>1. \A b \in Buffers : frames'[b].avail = frames[b].avail
    BY <1>4, <1>5
  <2> QED
    BY <1>1, <1>2, <1>6, <2>1, NoneMore
<1>9. SameUse
  BY <1>2, <1>5, <1>8 DEF SameUse
<1>10. SameTurns
  BY <1>1, <1>8, UnusedTurns
<1>11. SameFilling
  BY <1>2, <1>4, <1>5 DEF SameFilling
<1>12. ASSUME readAt' = "copy" PROVE current' # NONE /\ copied' = frames'[current'].data
  <2>1. current \in Buffers /\ copied = frames[current].data
    BY <1>1, <1>2, <1>12 DEF Kept, KeepTypes
  <2>2. InUse(current)
    BY <1>2, <1>12 DEF InUse
  <2>3. current # rcvPtr
    BY <1>2, <2>2
  <2>4. frames'[current] = frames[current]
    BY <1>5, <2>1, <2>3
  <2> QED
    BY <1>6, <2>1, <2>4 DEF Buffers, NONE
<1> QED
  BY <1>2, <1>6, <1>7, <1>9, <1>10, <1>11, <1>12, KeepStill

\* The reader leaves what frames have and takes none from the queue but the first.
LEMMA ReadUse ==
  ASSUME FrameInv, Reader
  PROVE  /\ \A b \in Buffers : frames'[b].data = frames[b].data /\ frames'[b].complete = frames[b].complete
         /\ UNCHANGED <<rcvAt, rcvPtr, next>>
         /\ SameFilling
<1>1. frames \in [Buffers -> Frames] /\ rcvPtr \in Buffers
  BY DEF FrameInv, Types
<1>2. UNCHANGED <<rcvAt, rcvPtr, next>>
  BY DEF Reader, ReadLoop, ReadPop, ReadLock, ReadTake, ReadCopied, ReadKeeps, netVars, rcvVars
<1>3. frames' = frames \/ (HasMedia /\ frames' = [frames EXCEPT ![current].avail = Tail(@)])
  BY DEF Reader, ReadLoop, ReadPop, ReadLock, ReadTake, ReadCopied
<1>4. ASSUME NEW b \in Buffers
      PROVE  frames'[b].data = frames[b].data /\ frames'[b].complete = frames[b].complete
  <2>1. PICK a : a = Tail(frames[current].avail)
    OBVIOUS
  <2>2. frames' = frames \/ frames' = [frames EXCEPT ![current].avail = a]
    BY <1>1, <1>3, <2>1
  <2>3. PICK f \in Frames : f = frames[b]
    BY <1>1
  <2>4. frames'[b] = f \/ frames'[b] = [f EXCEPT !.avail = a]
    BY <1>1, <2>2, <2>3
  <2>5. [f EXCEPT !.avail = a].data = f.data /\ [f EXCEPT !.avail = a].complete = f.complete
    BY <2>3 DEF Frames
  <2> QED
    BY <2>3, <2>4, <2>5
<1> QED
  BY <1>1, <1>2, <1>4 DEF SameFilling

LEMMA KeepPop ==
  FrameInv /\ FrameInv' /\ KeepInv /\ KeepTypes' /\ ~late /\ ReadPop => KeepInv'
<1> SUFFICES ASSUME FrameInv, FrameInv', KeepInv, KeepTypes', ~late, ReadPop PROVE KeepInv'
  OBVIOUS
<1>1. KeepTypes /\ Kept /\ InTurn /\ next \in Nat
  BY DEF KeepInv, FrameInv, Types
<1>2. Reader
  BY DEF Reader
<1>3. /\ \A b \in Buffers : frames'[b].data = frames[b].data /\ frames'[b].complete = frames[b].complete
      /\ UNCHANGED <<rcvAt, rcvPtr, next>> /\ SameFilling
  BY <1>2, ReadUse
<1>4. /\ queue \in Seq(Buffers \cup {STOP}) /\ queue # << >> /\ queue' = Tail(queue)
      /\ frames' = frames /\ taken' = taken /\ torn' = torn /\ readAt' \in {"loop", "lock"}
      /\ current' \in {current, NONE} /\ readAt = "pop"
      /\ readAt' = "lock" => popped' = Head(queue)
  BY <1>1 DEF ReadPop, ReadGoes, KeepTypes
<1>5. /\ Len(queue') = Len(queue) - 1 /\ Len(queue) \in Nat /\ Len(queue) >= 1 /\ Head(queue) = queue[1]
      /\ \A j \in 1 .. Len(queue) - 1 : queue'[j] = queue[j + 1]
  BY <1>4, TailMember
<1>6. \A b, c \in Buffers : Comes(b, c)' => Comes(b, c)
  <2> SUFFICES ASSUME NEW b \in Buffers, NEW c \in Buffers,
                      NEW i \in 1 .. Len(queue'), NEW j \in 1 .. Len(queue'), i < j, queue'[i] = b, queue'[j] = c
               PROVE  Comes(b, c)
    BY DEF Comes
  <2>1. i + 1 \in 1 .. Len(queue) /\ j + 1 \in 1 .. Len(queue) /\ i + 1 < j + 1
        /\ queue[i + 1] = b /\ queue[j + 1] = c
    BY <1>5
  <2> QED
    BY <2>1 DEF Comes
<1>7. \A b \in Buffers : InQueue(b)' => InQueue(b)
  <2> SUFFICES ASSUME NEW b \in Buffers, NEW j \in 1 .. Len(queue'), queue'[j] = b PROVE InQueue(b)
    BY DEF InQueue
  <2>1. j + 1 \in 1 .. Len(queue) /\ queue[j + 1] = b
    BY <1>5
  <2> QED
    BY <2>1 DEF InQueue
<1>8. \A b \in Buffers : Ahead(b)' => Ahead(b) \/ b = queue[1]
  <2>1. NONE \notin Buffers
    BY DEF NONE, Buffers
  <2> QED
    BY <1>4, <1>5, <2>1 DEF Ahead
<1>9. 1 \in 1 .. Len(queue)
  BY <1>5
<1>10. SameUse
  <2>1. \A b \in Buffers : b = queue[1] => InQueue(b)
    BY <1>9 DEF InQueue
  <2>2. \A b \in Buffers : InUse(b)' => InQueue(b)' \/ Ahead(b)'
    BY DEF InUse, InQueue, Ahead
  <2>3. \A b \in Buffers : InUse(b)' => InUse(b)
    BY <1>7, <1>8, <2>1, <2>2, InUseIs
  <2> QED
    BY <1>3, <2>3 DEF SameUse
<1>11. SameTurns
  <2>1. ASSUME NEW b \in Buffers, NEW c \in Buffers, b = queue[1], InQueue(c)' PROVE Comes(b, c)
    <3>1. PICK j \in 1 .. Len(queue') : queue'[j] = c
      BY <2>1 DEF InQueue
    <3>2. j + 1 \in 1 .. Len(queue) /\ 1 < j + 1 /\ queue[j + 1] = c
      BY <1>5, <3>1
    <3> QED
      BY <1>9, <2>1, <3>2 DEF Comes
  <2> QED
    BY <1>1, <1>6, <1>7, <1>8, <2>1 DEF InTurn, SameTurns, First
<1> QED
  BY <1>1, <1>3, <1>4, <1>10, <1>11, KeepStill DEF Kept

LEMMA KeepLock ==
  FrameInv /\ FrameInv' /\ KeepInv /\ KeepTypes' /\ ~late /\ (ReadLoop \/ ReadLock \/ ReadTake) => KeepInv'
<1> SUFFICES ASSUME FrameInv, FrameInv', KeepInv, KeepTypes', ~late, ReadLoop \/ ReadLock \/ ReadTake
             PROVE KeepInv'
  OBVIOUS
<1>1. KeepTypes /\ Kept /\ InTurn /\ next \in Nat /\ frames \in [Buffers -> Frames]
  BY DEF KeepInv, FrameInv, Types
<1>2. Reader
  BY DEF Reader
<1>3. /\ \A b \in Buffers : frames'[b].data = frames[b].data /\ frames'[b].complete = frames[b].complete
      /\ UNCHANGED <<rcvAt, rcvPtr, next>> /\ SameFilling
  BY <1>2, ReadUse
<1>4. queue' = queue /\ taken' = taken /\ torn' = torn
  BY DEF ReadLoop, ReadLock, ReadTake
<1>5. \A b \in Buffers : Ahead(b)' => Ahead(b)
  <2>1. CASE ReadLoop
    BY <2>1 DEF ReadLoop, ReadGoes, HasMedia, Ahead
  <2>2. CASE ReadLock
    BY <2>2 DEF ReadLock, ReadGoes, Ahead
  <2>3. CASE ReadTake
    <3>1. current' = current /\ popped' = popped /\ readAt = "take" /\ readAt' \in {"loop", "copy"}
      BY <2>3 DEF ReadTake
    <3> QED
      BY <3>1 DEF Ahead
  <2> QED
    BY <2>1, <2>2, <2>3
<1>6. /\ \A b \in Buffers : InQueue(b)' => InQueue(b)
      /\ \A b, c \in Buffers : Comes(b, c)' => Comes(b, c)
  BY <1>4 DEF InQueue, Comes
<1>7. SameTurns
  BY <1>1, <1>5, <1>6, UnusedTurns
<1>8. SameUse
  <2>1. \A b \in Buffers : InUse(b)' => InQueue(b)' \/ Ahead(b)'
    BY DEF InUse, InQueue, Ahead
  <2> QED
    BY <1>3, <1>5, <1>6, <2>1, InUseIs DEF SameUse
<1>9. ASSUME readAt' = "copy" PROVE current' # NONE /\ copied' = frames'[current'].data
  <2>1. HasMedia /\ current' = current /\ copied' = frames[current].data
    BY <1>9 DEF ReadLoop, ReadLock, ReadTake, ReadGoes
  <2>2. current \in Buffers
    BY <1>1, <2>1 DEF HasMedia, KeepTypes
  <2> QED
    BY <1>3, <2>1, <2>2 DEF HasMedia
<1>10. rcvAt' \in {"fill", "push"} => ~InUse(rcvPtr)
  BY <1>1, <1>3 DEF Kept
<1>11. rcvAt' = "push" => frames'[rcvPtr'].complete
  <2>1. rcvPtr \in Buffers
    BY DEF FrameInv, Types
  <2> QED
    BY <1>1, <1>3, <2>1 DEF Kept
<1>12. next <= next'
  BY <1>1, <1>3
<1> QED
  BY <1>3, <1>4, <1>7, <1>8, <1>9, <1>10, <1>11, <1>12, KeepStill

\* What is read is a frame that no other thread touches.
LEMMA KeepCopied ==
  WithinTwoFrames /\ FrameInv /\ FrameInv' /\ KeepInv /\ KeepTypes' /\ ~late /\ ReadCopied => KeepInv'
<1> SUFFICES ASSUME WithinTwoFrames, FrameInv, FrameInv', KeepInv, KeepTypes', ~late, ReadCopied PROVE KeepInv'
  OBVIOUS
<1>1. /\ KeepTypes /\ Kept /\ Passed /\ InTurn /\ next \in Nat /\ frames \in [Buffers -> Frames] /\ rcvPtr \in Buffers
      /\ \A b \in Buffers : Buffer(frames[b])
  BY DEF KeepInv, FrameInv, Types
<1>2. /\ \A b \in Buffers : frames'[b].data = frames[b].data /\ frames'[b].complete = frames[b].complete
      /\ UNCHANGED <<rcvAt, rcvPtr, next>> /\ SameFilling
  BY ReadUse DEF Reader
<1>3. /\ UNCHANGED <<frames, queue, current, popped>> /\ readAt = "copy" /\ readAt' = "loop"
      /\ current # NONE /\ copied = frames[current].data /\ current \in Buffers
  BY <1>1 DEF ReadCopied, ReadGoes, Kept, KeepTypes
<1>4. Ahead(current) /\ InUse(current)
  BY <1>3 DEF Ahead, InUse
<1>5. PICK c \in Buffers : c = current
  BY <1>3
<1>6. PICK d : d = frames[c].data
  OBVIOUS
<1>7. d \in Seq(Nat \cup {JUNK}) /\ Sound(d) /\ copied = d
  BY <1>1, <1>3, <1>4, <1>5, <1>6 DEF Kept, Buffer, Frames
<1>8. ~torn'
  BY <1>1, <1>3, <1>7 DEF ReadCopied, Kept
<1>9. /\ \A b \in Buffers : InQueue(b)' => InQueue(b)
      /\ \A b, e \in Buffers : Comes(b, e)' => Comes(b, e)
      /\ \A b \in Buffers : Ahead(b)' => Ahead(b) /\ b = c
  BY <1>3, <1>5 DEF InQueue, Comes, Ahead
<1>10. SameUse
  <2>1. \A b \in Buffers : InUse(b)' => InQueue(b)' \/ Ahead(b)'
    BY DEF InUse, InQueue, Ahead
  <2> QED
    BY <1>2, <1>9, <2>1, InUseIs DEF SameUse
<1>11. SameTurns
  BY <1>1, <1>9, UnusedTurns
<1>12. Kept'
  <2>1. rcvAt' \in {"fill", "push"} => rcvPtr' = rcvPtr /\ ~InUse(rcvPtr)
    BY <1>1, <1>2 DEF Kept
  <2>2. rcvAt' = "push" => frames'[rcvPtr'].complete
    BY <1>1, <1>2 DEF Kept
  <2> QED
    BY <1>1, <1>3, <1>8, <1>10, <2>1, <2>2, StillKept
<1>13. CASE d[1] = JUNK
  <2>1. taken' = taken
    BY <1>7, <1>13 DEF ReadCopied
  <2>2. \A x \in Nat : Behind(x)' => Behind(x)
    BY <1>10, <2>1, StillBehind
  <2>3. Passed'
    <3>1. next' \in Nat /\ next <= next'
      BY <1>1, <1>2
    <3> QED
      BY <1>1, <1>2, <2>2, <3>1, StillPassed
  <2>4. InTurn'
    BY <1>1, <1>10, <1>11, <2>1, StillInTurn
  <2> QED
    BY <1>12, <2>3, <2>4 DEF KeepInv
<1>14. CASE d[1] # JUNK
  <2>1. PICK k \in Nat : k = FrameOf(d[1]) /\ d[1] = k * PktsPerFrame
    BY <1>7, <1>14, SoundFrame
  <2>2. PICK s \in Seq(Nat) : s = taken
    BY <1>1 DEF KeepTypes
  <2>3. taken' = Append(s, k)
    BY <1>7, <1>14, <2>1, <2>2 DEF ReadCopied
  <2>4. /\ Len(taken') = Len(s) + 1 /\ Len(s) \in Nat
        /\ \A j \in 1 .. Len(s) + 1 : taken'[j] = IF j <= Len(s) THEN s[j] ELSE k
    BY <2>3, AppendMember
  <2>5. \A x : Behind(x)' => Behind(x)
    <3>1. \A x : (\E b \in Buffers : InUse(b)' /\ x = frames'[b].data[1] /\ x # JUNK) => Behind(x)
      BY <1>10 DEF SameUse, Behind, First
    <3>2. \A x : (\E j \in 1 .. Len(taken') : x = taken'[j] * PktsPerFrame) => Behind(x)
      <4> SUFFICES ASSUME NEW j \in 1 .. Len(taken') PROVE Behind(taken'[j] * PktsPerFrame)
        OBVIOUS
      <4>1. CASE j \in 1 .. Len(s)
        BY <2>2, <2>4, <4>1 DEF Behind
      <4>2. CASE j = Len(s) + 1
        <5>1. taken'[j] * PktsPerFrame = d[1]
          BY <2>1, <2>4, <4>2
        <5> QED
          BY <1>4, <1>5, <1>6, <1>14, <5>1 DEF Behind, First
      <4> QED
        BY <2>4, <4>1, <4>2
    <3> QED
      BY <3>1, <3>2 DEF Behind, First
  <2>6. Passed'
    <3>1. next' \in Nat /\ next <= next'
      BY <1>1, <1>2
    <3> QED
      BY <1>1, <1>2, <2>5, <3>1, StillPassed
  <2>7. Rising(taken)'
    <3>1. \A j \in 1 .. Len(s) : s[j] <= k
      <4> SUFFICES ASSUME NEW j \in 1 .. Len(s) PROVE s[j] <= k
        OBVIOUS
      <4>1. Before(s[j] * PktsPerFrame, d[1])
        BY <1>1, <1>4, <1>5, <1>6, <2>2 DEF InTurn, First
      <4>2. s[j] \in Nat /\ s[j] * PktsPerFrame \in Nat
        <5>1. s[j] \in Nat
          BY <2>2
        <5>2. PICK p \in Nat : p = PktsPerFrame
          BY Sizes
        <5> QED
          BY <5>1, <5>2
      <4>3. s[j] * PktsPerFrame <= k * PktsPerFrame
        BY <1>14, <2>1, <4>1, <4>2 DEF Before, JUNK
      <4> QED
        BY <4>2, <4>3, FramesApart
    <3>2. \A j \in 2 .. Len(s) : s[j - 1] <= s[j]
      BY <1>1, <2>2 DEF InTurn, Rising
    <3>3. \A j \in 2 .. Len(s) + 1 : taken'[j - 1] <= taken'[j]
      <4> SUFFICES ASSUME NEW j \in 2 .. Len(s) + 1 PROVE taken'[j - 1] <= taken'[j]
        OBVIOUS
      <4>1. j - 1 \in 1 .. Len(s) /\ taken'[j - 1] = s[j - 1]
        BY <2>4
      <4>2. CASE j <= Len(s)
        BY <2>4, <3>2, <4>1, <4>2
      <4>3. CASE j = Len(s) + 1
        <5>1. taken'[j] = k /\ s[j - 1] <= k
          BY <2>4, <3>1, <4>1, <4>3
        <5> QED
          BY <4>1, <5>1
      <4> QED
        BY <2>4, <4>2, <4>3
    <3> QED
      BY <2>4, <3>3 DEF Rising
  <2>8. ASSUME NEW j \in 1 .. Len(taken'), NEW b \in Buffers, InUse(b)'
        PROVE  Before(taken'[j] * PktsPerFrame, frames'[b].data[1])
    <3>1. InUse(b) /\ frames'[b].data = frames[b].data
      BY <1>10, <2>8 DEF SameUse
    <3>2. CASE j \in 1 .. Len(s)
      BY <1>1, <2>2, <2>4, <3>1, <3>2 DEF InTurn, First
    <3>3. CASE j = Len(s) + 1
      <4>1. taken'[j] * PktsPerFrame = d[1]
        BY <2>1, <2>4, <3>3
      <4>2. Before(d[1], frames[b].data[1])
        <5>1. CASE InQueue(b)
          BY <1>1, <1>4, <1>5, <1>6, <5>1 DEF InTurn, First
        <5>2. CASE ~InQueue(b)
          <6>1. b = c
            <7>1. InQueue(b)' \/ Ahead(b)'
              BY <2>8 DEF InUse, InQueue, Ahead
            <7> QED
              BY <1>9, <5>2, <7>1
          <6>2. d[1] \in Nat
            BY <1>7, <1>14 DEF Sound
          <6> QED
            BY <1>6, <6>1, <6>2 DEF Before
        <5> QED
          BY <5>1, <5>2
      <4> QED
        BY <3>1, <4>1, <4>2
    <3> QED
      BY <2>4, <3>2, <3>3
  <2>9. \A b, e \in Buffers : Comes(b, e)' \/ (Ahead(b)' /\ InQueue(e)') => Before(frames'[b].data[1], frames'[e].data[1])
    BY <1>2, <1>11 DEF SameTurns
  <2>10. InTurn'
    BY <2>7, <2>8, <2>9 DEF InTurn, First, Before
  <2> QED
    BY <1>12, <2>6, <2>10 DEF KeepInv
<1> QED
  BY <1>13, <1>14

\* The buffer being filled is nobody's, but the reader is late when it is completed
\* under the reader's hands.
LEMMA KeepPacket ==
  ASSUME WithinTwoFrames, FrameInv, FrameInv', KeepInv, KeepTypes', ~late, ~late',
         NEW n \in 0 .. MaxPackets - 1, RcvPacket(n)
  PROVE  KeepInv'
<1>1. /\ KeepTypes /\ Kept /\ Passed /\ InTurn /\ next \in Nat /\ next' \in Nat
      /\ frames \in [Buffers -> Frames] /\ rcvPtr \in Buffers /\ n \in Nat
      /\ \A b \in Buffers : Buffer(frames[b])
  BY DEF KeepInv, FrameInv, Types
<1>2. /\ rcvAt = "fill" /\ rcvAt' = "fill" /\ ~frames[rcvPtr].complete /\ rcvPtr' = rcvPtr
      /\ UNCHANGED <<queue, current, popped, copied, readAt, taken, torn>>
  BY DEF RcvPacket, RcvGoes, readVars
<1>3. next <= next' /\ n < next' /\ next <= n + Late
  BY <1>1, Sizes DEF RcvPacket, Delivered
<1>4. PICK f : f = frames[rcvPtr]
  OBVIOUS
<1>5. f \in Frames /\ ~f.complete
  BY <1>1, <1>2, <1>4
<1>6. PICK g : /\ frames' = [frames EXCEPT ![rcvPtr] = g]
               /\ g = f \/ (g = AddPacket(f, n) /\ ~(g.complete /\ current = rcvPtr))
  <2>1. CASE frames' = frames
    BY <1>1, <1>4, <2>1
  <2>2. CASE frames' = [frames EXCEPT ![rcvPtr] = AddPacket(@, n)] /\ late' = (late \/ (frames'[rcvPtr].complete /\ current = rcvPtr))
    BY <1>1, <1>4, <2>2
  <2> QED
    BY <2>1, <2>2 DEF RcvPacket
<1>7. /\ frames'[rcvPtr] = g
      /\ \A b \in Buffers : b # rcvPtr => frames'[b] = frames[b]
  BY <1>1, <1>6
<1>8. /\ ~g.complete => g.avail = f.avail
      /\ \/ g.data = << >>
         \/ g.data = f.data /\ ~g.complete
         \/ g.data = Append(f.data, n)
         \/ g.data = Junk(f.len + 1) /\ f.len + 1 >= PktsPerFrame
  BY <1>1, <1>5, <1>6, AddedData
<1>9. ~InUse(rcvPtr)
  BY <1>1, <1>2 DEF Kept
<1>10. /\ \A b \in Buffers : InQueue(b)' => InQueue(b)
       /\ \A b, c \in Buffers : Comes(b, c)' => Comes(b, c)
       /\ \A b \in Buffers : Ahead(b)' => Ahead(b)
       /\ \A b \in Buffers : InUse(b)' => InUse(b)
  <2>1. \A b \in Buffers : frames'[b].avail = frames[b].avail \/ current # b
    BY <1>4, <1>5, <1>6, <1>7, <1>8
  <2> QED
    BY <1>1, <1>2, <2>1, NoneMore
<1>11. SameUse
  BY <1>7, <1>9, <1>10 DEF SameUse
<1>12. SameTurns
  BY <1>1, <1>10, UnusedTurns
<1>13. InTurn'
  BY <1>1, <1>2, <1>11, <1>12, StillInTurn
<1>14. Kept'
  <2>1. ASSUME readAt' = "copy" PROVE current' # NONE /\ copied' = frames'[current'].data
    <3>1. current # NONE /\ copied = frames[current].data /\ current \in Buffers
      BY <1>1, <1>2, <2>1 DEF Kept, KeepTypes
    <3>2. InUse(current)
      BY <1>2, <2>1 DEF InUse
    <3>3. frames'[current] = frames[current]
      BY <1>7, <1>9, <3>1, <3>2
    <3> QED
      BY <1>2, <3>1, <3>3
  <2>2. ~torn'
    BY <1>1, <1>2 DEF Kept
  <2> QED
    BY <1>1, <1>2, <1>9, <1>11, <2>1, <2>2, StillKept
<1>15. \A x \in Nat : Behind(x)' => Behind(x)
  BY <1>2, <1>11, StillBehind
<1>16. \A x \in Nat : Behind(x) => x + PktsPerFrame <= next
  BY <1>1 DEF Passed
<1>17. ASSUME g.data # << >>, g.data[1] # JUNK
       PROVE  /\ \A x \in Nat : Behind(x) => x + PktsPerFrame <= g.data[1] + Late
              /\ g.complete => g.data[1] + PktsPerFrame <= next'
  <2>1. f.data \in Seq(Nat \cup {JUNK})
    BY <1>5 DEF Frames
  <2>2. f.data # << >> /\ f.data[1] # JUNK => \A x \in Nat : Behind(x) => x + PktsPerFrame <= f.data[1] + Late
    BY <1>1, <1>2, <1>4 DEF Passed, First
  <2>3. CASE g.data = f.data /\ ~g.complete
    BY <1>17, <2>2, <2>3
  <2>4. CASE g.data = Junk(f.len + 1) /\ f.len + 1 >= PktsPerFrame
    <3>1. f.len \in Nat
      BY <1>5 DEF Frames
    <3>2. Junk(f.len + 1)[1] = JUNK
      BY <3>1 DEF Junk
    <3> QED
      BY <1>17, <2>4, <3>2
  <2>5. CASE g.data = Append(f.data, n)
    <3>1. PICK s \in Seq(Nat \cup {JUNK}) : s = f.data
      BY <2>1
    <3>2. /\ Len(g.data) = Len(s) + 1 /\ Len(s) \in Nat
          /\ \A j \in 1 .. Len(s) + 1 : g.data[j] = IF j <= Len(s) THEN s[j] ELSE n
          /\ g.data \in Seq(Nat \cup {JUNK})
      BY <1>1, <2>5, <3>1, AppendMember
    <3>3. CASE s = << >>
      <4>1. g.data[1] = n
        BY <3>2, <3>3
      <4>2. g.complete => PktsPerFrame = 1
        <5>1. g.complete => Buffer(g)
          BY <1>1, <1>7 DEF FrameInv
        <5>2. g.complete => Sound(g.data)
          BY <5>1 DEF Buffer
        <5>3. g.complete => Len(g.data) = PktsPerFrame
          BY <1>17, <3>2, <5>2, SoundFrame
        <5> QED
          BY <3>2, <3>3, <5>3
      <4>3. \A x \in Nat : Behind(x) => x + PktsPerFrame <= n + Late
        <5>1. PICK p \in Nat : p = PktsPerFrame
          BY Sizes
        <5> QED
          BY <1>1, <1>3, <1>16, <5>1, Sizes
      <4> QED
        BY <1>1, <1>3, <4>1, <4>2, <4>3
    <3>4. CASE s # << >>
      <4>1. Len(s) >= 1 /\ g.data[1] = s[1] /\ g.data[Len(s) + 1] = n
        BY <3>2, <3>4
      <4>2. \A x \in Nat : Behind(x) => x + PktsPerFrame <= g.data[1] + Late
        BY <1>17, <2>2, <3>1, <3>4, <4>1
      <4>3. ASSUME g.complete PROVE g.data[1] + PktsPerFrame <= next'
        <5>1. Sound(g.data)
          BY <1>1, <1>7, <4>3 DEF FrameInv, Buffer
        <5>2. Len(g.data) = PktsPerFrame /\ g.data[PktsPerFrame] = g.data[1] + PktsPerFrame - 1
          BY <1>17, <3>2, <5>1, SoundFrame
        <5>3. n = g.data[1] + PktsPerFrame - 1
          BY <3>2, <4>1, <5>2
        <5>4. PICK y \in Nat, p \in Nat : y = g.data[1] /\ p = PktsPerFrame
          BY <1>17, <3>1, <3>4, <4>1, Sizes
        <5>5. n = y + p - 1
          BY <5>3, <5>4
        <5>6. y + p <= next'
          BY <1>1, <1>3, <5>5
        <5> QED
          BY <5>4, <5>6
      <4> QED
        BY <4>2, <4>3
    <3> QED
      BY <3>3, <3>4
  <2> QED
    BY <1>8, <1>17, <2>3, <2>4, <2>5
<1>18. Passed'
  <2>1. \A x \in Nat : Behind(x)' => x + PktsPerFrame <= next'
    BY <1>1, <1>3, <1>15, <1>16, Sizes
  <2>2. g.data # << >> /\ g.data[1] # JUNK =>
          /\ \A x \in Nat : Behind(x)' => x + PktsPerFrame <= g.data[1] + Late
          /\ g.complete => g.data[1] + PktsPerFrame <= next'
    BY <1>15, <1>17
  <2> QED
    BY <1>2, <1>7, <2>1, <2>2 DEF Passed, First
<1> QED
  BY <1>13, <1>14, <1>18 DEF KeepInv

\* A frame joins the queue behind those whose packets came before its first one.
LEMMA KeepAnnounce ==
  WithinTwoFrames /\ FrameInv /\ FrameInv' /\ KeepInv /\ KeepTypes' /\ ~late /\ RcvAnnounce => KeepInv'
<1> SUFFICES ASSUME WithinTwoFrames, FrameInv, FrameInv', KeepInv, KeepTypes', ~late, RcvAnnounce PROVE KeepInv'
  OBVIOUS
<1>1. /\ KeepTypes /\ Kept /\ Passed /\ InTurn /\ next \in Nat
      /\ frames \in [Buffers -> Frames] /\ rcvPtr \in Buffers
      /\ \A b \in Buffers : Buffer(frames[b])
  BY DEF KeepInv, FrameInv, Types
<1>2. PICK r \in Buffers : r = rcvPtr
  BY <1>1
<1>3. PICK d : d = frames[r].data
  OBVIOUS
<1>4. /\ rcvAt = "push" /\ rcvAt' = "next" /\ queue' = Append(queue, r)
      /\ UNCHANGED <<next, frames, current, popped, copied, readAt, taken, torn>>
  BY <1>2 DEF RcvAnnounce, RcvGoes, netVars, readVars, histVars
<1>5. frames[r].complete /\ d \in Seq(Nat \cup {JUNK}) /\ Sound(d)
  BY <1>1, <1>2, <1>3, <1>4 DEF Kept, Buffer, Frames
<1>6. d # << >>
  BY <1>5 DEF Sound
<1>7. d[1] # JUNK => \A x \in Nat : Behind(x) => x + PktsPerFrame <= d[1] + Late
  BY <1>1, <1>2, <1>3, <1>4, <1>6 DEF Passed, First
<1>8. d[1] # JUNK => d[1] + PktsPerFrame <= next
  BY <1>1, <1>2, <1>3, <1>4, <1>5, <1>6 DEF Passed, First
<1>9. /\ Len(queue') = Len(queue) + 1 /\ Len(queue) \in Nat
      /\ \A j \in 1 .. Len(queue) + 1 : queue'[j] = IF j <= Len(queue) THEN queue[j] ELSE r
  BY <1>1, <1>4, AppendMember DEF KeepTypes
<1>10. \A b \in Buffers : InQueue(b)' => InQueue(b) \/ b = r
  BY <1>9 DEF InQueue
<1>11. \A b \in Buffers : Ahead(b)' => Ahead(b)
  BY <1>4 DEF Ahead
<1>12. \A b, c \in Buffers : Comes(b, c)' => Comes(b, c) \/ (InQueue(b) /\ c = r)
  <2> SUFFICES ASSUME NEW b \in Buffers, NEW c \in Buffers,
                      NEW i \in 1 .. Len(queue'), NEW j \in 1 .. Len(queue'), i < j, queue'[i] = b, queue'[j] = c
               PROVE  Comes(b, c) \/ (InQueue(b) /\ c = r)
    BY DEF Comes
  <2>1. i \in 1 .. Len(queue) /\ queue[i] = b
    BY <1>9
  <2>2. j \in 1 .. Len(queue) => queue[j] = c
    BY <1>9
  <2>3. j \notin 1 .. Len(queue) => c = r
    BY <1>9
  <2> QED
    BY <2>1, <2>2, <2>3 DEF Comes, InQueue
<1>13. \A b \in Buffers : InUse(b)' => InUse(b) \/ b = r
  <2>1. \A b \in Buffers : InUse(b)' => InQueue(b)' \/ Ahead(b)'
    BY DEF InUse, InQueue, Ahead
  <2> QED
    BY <1>10, <1>11, <2>1, InUseIs
<1>14. Kept'
  BY <1>1, <1>4, <1>5, <1>13 DEF Kept
<1>15. ASSUME NEW k \in Int, Behind(k * PktsPerFrame), k * PktsPerFrame \in Nat, d[1] # JUNK
       PROVE  k * PktsPerFrame <= d[1]
  <2>1. PICK l \in Nat : d[1] = l * PktsPerFrame
    BY <1>5, <1>15, SoundFrame
  <2>2. k * PktsPerFrame + PktsPerFrame <= l * PktsPerFrame + Late
    BY <1>7, <1>15, <2>1
  <2> QED
    BY <2>1, <2>2, FramesApart
<1>16. \A b \in Buffers : InUse(b) => Before(frames[b].data[1], d[1])
  <2> SUFFICES ASSUME NEW b \in Buffers, InUse(b), frames[b].data[1] # JUNK, d[1] # JUNK
               PROVE  frames[b].data[1] <= d[1]
    BY DEF Before
  <2>1. PICK e : e = frames[b].data
    OBVIOUS
  <2>2. Sound(e) /\ e \in Seq(Nat \cup {JUNK})
    BY <1>1, <2>1 DEF Kept, Buffer, Frames
  <2>3. PICK k \in Nat : e[1] = k * PktsPerFrame
    BY <2>1, <2>2, SoundFrame
  <2>4. Behind(k * PktsPerFrame)
    BY <2>1, <2>3 DEF Behind, First
  <2>5. k * PktsPerFrame \in Nat
    <3>1. PICK p \in Nat : p = PktsPerFrame
      BY Sizes
    <3> QED
      BY <3>1
  <2> QED
    BY <1>15, <2>1, <2>3, <2>4, <2>5
<1>17. Passed'
  <2>1. \A x \in Nat : Behind(x)' => Behind(x) \/ (x = d[1] /\ x # JUNK)
    BY <1>3, <1>4, <1>13 DEF Behind, First
  <2>2. \A x \in Nat : Behind(x)' => x + PktsPerFrame <= next
    BY <1>1, <1>8, <2>1 DEF Passed
  <2> QED
    BY <1>4, <2>2 DEF Passed
<1>18. InTurn'
  <2>1. Rising(taken)'
    BY <1>1, <1>4 DEF InTurn, Rising
  <2>2. ASSUME NEW j \in 1 .. Len(taken), NEW b \in Buffers, InUse(b)'
        PROVE  Before(taken[j] * PktsPerFrame, frames[b].data[1])
    <3>1. CASE InUse(b)
      BY <1>1, <3>1 DEF InTurn, First
    <3>2. CASE b = r
      <4>1. PICK k \in Nat : k = taken[j]
        BY <1>1 DEF KeepTypes
      <4>2. k * PktsPerFrame \in Nat
        <5>1. PICK p \in Nat : p = PktsPerFrame
          BY Sizes
        <5> QED
          BY <5>1
      <4>3. Behind(k * PktsPerFrame)
        BY <4>1 DEF Behind
      <4>4. d[1] # JUNK => k * PktsPerFrame <= d[1]
        BY <1>15, <4>2, <4>3
      <4> QED
        BY <1>3, <3>2, <4>1, <4>4 DEF Before
    <3> QED
      BY <1>13, <2>2, <3>1, <3>2
  <2>3. ASSUME NEW b \in Buffers, NEW c \in Buffers, Comes(b, c)' \/ (Ahead(b)' /\ InQueue(c)')
        PROVE  Before(frames[b].data[1], frames[c].data[1])
    <3>1. \/ Comes(b, c) \/ (Ahead(b) /\ InQueue(c))
          \/ c = r /\ InUse(b)
      BY <1>10, <1>11, <1>12, <2>3, InUseIs
    <3>2. CASE Comes(b, c) \/ (Ahead(b) /\ InQueue(c))
      BY <1>1, <3>2 DEF InTurn, First
    <3>3. CASE c = r /\ InUse(b)
      BY <1>3, <1>16, <3>3
    <3> QED
      BY <3>1, <3>2, <3>3
  <2> QED
    BY <1>4, <2>1, <2>2, <2>3 DEF InTurn, First, Before
<1> QED
  BY <1>14, <1>17, <1>18 DEF KeepInv

LEMMA KeepStep == WithinTwoFrames /\ FrameInv /\ FrameInv' /\ KeepInv /\ [Next]_vars => KeepInv'
<1> SUFFICES ASSUME WithinTwoFrames, FrameInv, FrameInv', KeepInv, [Next]_vars PROVE KeepInv'
  OBVIOUS
<1>1. KeepTypes'
  BY KeepTypesStep DEF KeepInv
<1> SUFFICES ASSUME ~late' PROVE KeepInv'
  BY <1>1 DEF KeepInv
<1>2. ~late
  BY LateStays
<1>3. CASE Receiver
  <2>1. CASE RcvNext \/ RcvError
    BY <1>1, <1>2, <2>1, KeepReset
  <2>2. CASE \E n \in 0 .. MaxPackets - 1 : RcvPacket(n)
    BY <1>1, <1>2, <2>2, KeepPacket
  <2>3. CASE RcvAnnounce
    BY <1>1, <1>2, <2>3, KeepAnnounce
  <2>4. CASE RcvFirst \/ RcvStopped \/ RcvLeave \/ RcvComplete
    BY <1>1, <1>2, <2>4, AsideSteps, KeepAside
  <2> QED
    BY <1>3, <2>1, <2>2, <2>3, <2>4 DEF Receiver
<1>4. CASE Reader
  BY <1>1, <1>2, <1>4, KeepPop, KeepLock, KeepCopied DEF Reader
<1>5. CASE AppStart \/ AppStop \/ AppThread \/ Rest \/ UNCHANGED vars
  BY <1>1, <1>2, <1>5, AsideSteps, KeepAside
<1> QED
  BY <1>3, <1>4, <1>5 DEF Next

\* A reader that keeps up reads whole frames in the order of the stream, across losses,
\* late packets, errors and restarts, if no packet is as late as two frames are long: the
\* queue keeps the order of the buffers, and no buffer is filled before it is read.
THEOREM FramesAreReadInOrder == ASSUME WithinTwoFrames PROVE Spec => []KeepsUpReadsInOrder
<1>1. KeepInv => KeepsUpReadsInOrder
  BY DEF KeepInv, Kept, InTurn, KeepsUpReadsInOrder
<1>2. FrameInv /\ FrameInv' /\ KeepInv /\ [Next]_vars => KeepInv'
  BY KeepStep
<1> QED
  BY <1>1, <1>2, KeepInit, FrameAlways, PTL DEF Spec

=============================================================================
