---------------------------- MODULE Transport_proofs ----------------------------
(***************************************************************************)
(* For any connections, room, slots and messages, and any breaks: what the *)
(* reading pin gives is a frame as the sending pin had it.                 *)
(***************************************************************************)
EXTENDS Transport, TLAPS

(***************************************************************************)
(* Frames are words, numbered from 0.                                      *)
(***************************************************************************)
Frames == 0 .. FrameMod - 1
WordSet == {w \in Frames \X Nat : w[2] < Size(w[1])}

\* Word w comes after word v: the next of its frame, or the first of any after the last.
Follows(v, w) == (w[1] = v[1] /\ w[2] = v[2] + 1) \/ (w[2] = 0 /\ v[2] = Size(v[1]) - 1)
Chained(p) == \A i \in 1 .. Len(p) - 1 : Follows(p[i], p[i + 1])

LEMMA Sizes == \A n \in Frames : Size(n) \in {2, 3}
<1>1. Frames = {0, 1, 2}
  BY DEF Frames, FrameMod
<1>2. \A n \in Frames : n % 2 \in {0, 1}
  BY <1>1
<1> QED
  BY <1>2 DEF Size

LEMMA WordsOf ==
  ASSUME NEW n \in Frames
  PROVE  /\ Words(n) \in Seq(WordSet) /\ Len(Words(n)) = Size(n) /\ Size(n) \in Nat /\ Size(n) > 1
         /\ \A i \in 1 .. Size(n) : Words(n)[i] = <<n, i - 1>> /\ <<n, i - 1>> \in WordSet
<1>1. Size(n) \in Nat /\ Size(n) > 1
  BY Sizes
<1>2. \A i \in 1 .. Size(n) : i - 1 \in Nat /\ i - 1 < Size(n)
  BY <1>1
<1>3. \A i \in 1 .. Size(n) : <<n, i - 1>> \in WordSet
  BY <1>2 DEF WordSet
<1>4. PICK m \in Nat : m = Size(n)
  BY <1>1
<1>5. Words(n) \in [1 .. m -> WordSet] /\ \A i \in 1 .. m : Words(n)[i] = <<n, i - 1>>
  BY <1>3, <1>4 DEF Words
<1>6. Words(n) \in Seq(WordSet) /\ Len(Words(n)) = m
  BY <1>5
<1> QED
  BY <1>1, <1>3, <1>4, <1>5, <1>6

LEMMA NextIsFrame == \A n \in Frames : (n + 1) % FrameMod \in Frames
<1>1. Frames = {0, 1, 2} /\ FrameMod = 3
  BY DEF Frames, FrameMod
<1>2. (0 + 1) % 3 = 1 /\ (1 + 1) % 3 = 2 /\ (2 + 1) % 3 = 0
  OBVIOUS
<1> QED
  BY <1>1, <1>2

\* The word after a word of a frame is known, but for the frame it begins.
LEMMA After ==
  ASSUME NEW n \in Frames, NEW j \in Nat, j < Size(n), NEW w \in WordSet, Follows(<<n, j>>, w)
  PROVE  /\ j + 1 < Size(n) => w = <<n, j + 1>>
         /\ j + 1 = Size(n) => w[2] = 0
<1>1. Size(n) \in Nat
  BY Sizes
<1>2. PICK a \in Frames, b \in Nat : w = <<a, b>> /\ b < Size(a)
  BY DEF WordSet
<1>3. (a = n /\ b = j + 1) \/ (b = 0 /\ j = Size(n) - 1)
  BY <1>2 DEF Follows
<1>4. j + 1 < Size(n) => a = n /\ b = j + 1
  BY <1>1, <1>3
<1>5. j + 1 = Size(n) => b = 0
  BY <1>1, <1>2, <1>3
<1> QED
  BY <1>2, <1>4, <1>5

LEMMA Cut ==
  ASSUME NEW p \in Seq(WordSet), NEW n \in 1 .. Len(p)
  PROVE  /\ SubSeq(p, 1, n) \in Seq(WordSet) /\ Len(SubSeq(p, 1, n)) = n
         /\ \A i \in 1 .. n : SubSeq(p, 1, n)[i] = p[i]
         /\ SubSeq(p, n + 1, Len(p)) \in Seq(WordSet) /\ Len(SubSeq(p, n + 1, Len(p))) = Len(p) - n
         /\ \A j \in 1 .. Len(p) - n : SubSeq(p, n + 1, Len(p))[j] = p[n + j]
<1>1. Len(p) \in Nat /\ n \in Nat /\ 1 <= n /\ n <= Len(p)
  OBVIOUS
<1>2. /\ SubSeq(p, 1, n) \in Seq(WordSet) /\ Len(SubSeq(p, 1, n)) = n
      /\ \A i \in 1 .. n : SubSeq(p, 1, n)[i] = p[i]
  BY <1>1
<1>3. /\ SubSeq(p, n + 1, Len(p)) \in Seq(WordSet) /\ Len(SubSeq(p, n + 1, Len(p))) = Len(p) - n
      /\ \A j \in 1 .. Len(p) - n : SubSeq(p, n + 1, Len(p))[j] = p[n + j]
  BY <1>1
<1> QED
  BY <1>2, <1>3

LEMMA Joined ==
  ASSUME NEW p \in Seq(WordSet), NEW q \in Seq(WordSet)
  PROVE  /\ p \o q \in Seq(WordSet) /\ Len(p \o q) = Len(p) + Len(q) /\ Len(p) \in Nat /\ Len(q) \in Nat
         /\ \A i \in 1 .. Len(p) : (p \o q)[i] = p[i]
         /\ \A i \in 1 .. Len(q) : (p \o q)[Len(p) + i] = q[i]
<1>1. p \o q \in Seq(WordSet) /\ Len(p \o q) = Len(p) + Len(q) /\ Len(p) \in Nat /\ Len(q) \in Nat
  OBVIOUS
<1>2. \A i \in 1 .. Len(p) : (p \o q)[i] = p[i]
  OBVIOUS
<1>3. ASSUME NEW i \in 1 .. Len(q) PROVE (p \o q)[Len(p) + i] = q[i]
  <2>1. Len(p) + i \in 1 .. Len(p) + Len(q) /\ Len(p) + i > Len(p) /\ Len(p) + i - Len(p) = i
    BY <1>1
  <2> QED
    BY <1>1, <2>1
<1> QED
  BY <1>1, <1>2, <1>3

(***************************************************************************)
(* TCP: connections that wait to be accepted are all different.            *)
(***************************************************************************)
Distinct(w) == \A i, j \in 1 .. Len(w) : i # j => w[i] # w[j]

LEMMA WaitingTail ==
  ASSUME NEW S, NEW w \in Seq(S), w # << >>, Distinct(w)
  PROVE  /\ Tail(w) \in Seq(S) /\ Distinct(Tail(w)) /\ Head(w) \in S
         /\ ToSet(Tail(w)) = ToSet(w) \ {Head(w)} /\ Head(w) \in ToSet(w)
<1>1. Len(w) \in Nat /\ Len(w) > 0 /\ Head(w) = w[1] /\ w[1] \in S
  OBVIOUS
<1>8. /\ Tail(w) \in Seq(S) /\ Len(Tail(w)) = Len(w) - 1
      /\ \A i \in 1 .. Len(Tail(w)) : Tail(w)[i] = w[i + 1]
  BY <1>1
<1>9. \A i \in 1 .. Len(w) - 1 : i + 1 \in 1 .. Len(w)
  BY <1>1
<1>2. PICK t \in Seq(S) : /\ t = Tail(w) /\ Len(t) = Len(w) - 1
                          /\ \A i \in 1 .. Len(t) : t[i] = w[i + 1] /\ i + 1 \in 1 .. Len(w)
  BY <1>8, <1>9
<1>3. Distinct(t)
  <2>1. \A i, j \in 1 .. Len(t) : i # j => i + 1 # j + 1
    OBVIOUS
  <2> QED
    BY <1>2, <2>1 DEF Distinct
<1>4. ToSet(w) = {w[i] : i \in 1 .. Len(w)} /\ ToSet(t) = {t[i] : i \in 1 .. Len(t)}
  BY DEF ToSet
<1>5. \A i \in 1 .. Len(w) : i = 1 \/ \E j \in 1 .. Len(t) : i = j + 1
  <2>1. ASSUME NEW i \in 1 .. Len(w), i # 1 PROVE \E j \in 1 .. Len(t) : i = j + 1
    <3>1. i - 1 \in 1 .. Len(t) /\ i = (i - 1) + 1
      BY <1>1, <1>2, <2>1
    <3> QED
      BY <3>1
  <2> QED
    BY <2>1
<1>6. \A j \in 1 .. Len(t) : t[j] # w[1]
  <2>1. \A j \in 1 .. Len(t) : j + 1 # 1 /\ 1 \in 1 .. Len(w)
    BY <1>1
  <2> QED
    BY <1>2, <2>1 DEF Distinct
<1>7. ToSet(t) = ToSet(w) \ {w[1]} /\ w[1] \in ToSet(w)
  <2>1. \A x \in ToSet(t) : x \in ToSet(w) /\ x # w[1]
    BY <1>2, <1>4, <1>6
  <2>2. \A x \in ToSet(w) : x # w[1] => x \in ToSet(t)
    BY <1>2, <1>4, <1>5
  <2>3. w[1] \in ToSet(w)
    BY <1>1, <1>4
  <2> QED
    BY <2>1, <2>2, <2>3
<1> QED
  BY <1>1, <1>2, <1>3, <1>7

LEMMA WaitingAppend ==
  ASSUME NEW S, NEW w \in Seq(S), Distinct(w), NEW c \in S, c \notin ToSet(w)
  PROVE  /\ Append(w, c) \in Seq(S) /\ Distinct(Append(w, c))
         /\ ToSet(Append(w, c)) = ToSet(w) \cup {c}
<1>1. PICK n \in Nat : n = Len(w)
  OBVIOUS
<1>2. PICK v : v = Append(w, c)
  OBVIOUS
<1>3. v \in Seq(S) /\ Len(v) = n + 1 /\ v[n + 1] = c /\ \A i \in 1 .. n : v[i] = w[i]
  BY <1>1, <1>2
<1>4. \A i \in 1 .. n + 1 : i \in 1 .. n \/ i = n + 1
  OBVIOUS
<1>5. ToSet(w) = {w[i] : i \in 1 .. n} /\ ToSet(v) = {v[i] : i \in 1 .. n + 1}
  BY <1>1, <1>3 DEF ToSet
<1>6. Distinct(v)
  BY <1>1, <1>3, <1>4, <1>5 DEF Distinct
<1>7. ToSet(v) = ToSet(w) \cup {c}
  <2>1. \A i \in 1 .. n : i \in 1 .. n + 1
    OBVIOUS
  <2>2. n + 1 \in 1 .. n + 1
    OBVIOUS
  <2> QED
    BY <1>3, <1>4, <1>5, <2>1, <2>2
<1> QED
  BY <1>2, <1>3, <1>6, <1>7

Conn == 1 .. Conns

LEMMA Waiting == ASSUME NEW w \in Seq(Conn), NEW c \in ToSet(w) PROVE c \in Conn /\ c # 0
<1>1. PICK i \in 1 .. Len(w) : c = w[i]
  BY DEF ToSet
<1>2. c \in Conn
  BY <1>1
<1> QED
  BY <1>2, TcpAssumption DEF Conn

TcpTypes ==
  /\ pipe \in [Conn -> Seq(WordSet)] /\ got \in Seq(WordSet) /\ left \in Seq(WordSet)
  /\ backlog \in Seq(Conn) /\ f \in Frames
  /\ inC \in Conn \cup {0} /\ outC \in Conn \cup {0} /\ recvC \in Conn \cup {0}

\* The connection the reader has, which a stop takes from it only once recv returns.
Source == IF recvC # 0 THEN recvC ELSE inC
Reading(c) == at = "media" /\ Source = c

\* What the reader expects: the next word of its frame, or the first of any.
Expected(c, w) == IF Reading(c) THEN w = <<got[1][1], Len(got)>> ELSE w[2] = 0

\* What the writer writes next: the rest of its frame, or the first of any.
Due == IF outAt = "write" THEN <<f, Size(f) - Len(left)>> ELSE <<0, 0>>

ReaderInv ==
  /\ recvC # 0 => at \in {"head", "media"} /\ inC \in {0, recvC}
  /\ at # "media" => got = << >>
  /\ at = "media" =>
       /\ got # << >> /\ got[1][1] \in Frames /\ Len(got) < Size(got[1][1])
       /\ \A i \in 1 .. Len(got) : got[i] = <<got[1][1], i - 1>>

WriterInv ==
  /\ outAt = "write" => /\ outC # 0 /\ Len(left) \in 1 .. Size(f)
                        /\ \A i \in 1 .. Len(left) : left[i] = <<f, Size(f) - Len(left) + (i - 1)>>
  /\ outAt # "write" => left = << >>

\* Nothing was sent before the other side accepts; when that one is the reader, what
\* was sent already waits for it.
Waits(c) ==
  /\ InListens => c \notin {inC, recvC}
  /\ ~InListens => pipe[c] = << >> /\ c # outC /\ ~Reading(c)
BacklogInv == Distinct(backlog) /\ \A c \in ToSet(backlog) : Waits(c)

\* A connection that is or will be read has the stream of the writer, cut in frames.
Attended(c) == c = Source \/ c \in ToSet(backlog)
Writing(c) == c = outC /\ c \in outOpen

PipeInv(c) ==
  /\ Chained(pipe[c])
  /\ Attended(c) /\ pipe[c] # << >> => Expected(c, pipe[c][1])
  /\ Writing(c) /\ pipe[c] # << >> => Follows(pipe[c][Len(pipe[c])], Due)
  /\ Writing(c) /\ pipe[c] = << >> /\ Attended(c) => Expected(c, Due)

TcpInv ==
  TcpTypes /\ ReaderInv /\ WriterInv /\ BacklogInv /\ \A c \in Conn : PipeInv(c)

\* A step that leaves the stream of a connection as it was, or forgets who read or wrote it.
LEMMA PipeKept ==
  ASSUME NEW c \in Conn, PipeInv(c), pipe'[c] = pipe[c], Attended(c)' => Attended(c),
         Attended(c)' => ((Reading(c)' <=> Reading(c)) /\ (Reading(c) => got' = got)),
         Writing(c)' => Writing(c) /\ Due' = Due
  PROVE  PipeInv(c)'
<1>1. ASSUME NEW w, Attended(c)', Expected(c, w) PROVE IF Reading(c)' THEN w = <<got'[1][1], Len(got')>> ELSE w[2] = 0
  BY <1>1 DEF Expected
<1>2. Chained(pipe'[c])
  BY DEF PipeInv
<1>3. Attended(c)' /\ pipe'[c] # << >> => (IF Reading(c)' THEN pipe'[c][1] = <<got'[1][1], Len(got')>> ELSE pipe'[c][1][2] = 0)
  BY <1>1 DEF PipeInv
<1>4. Writing(c)' /\ pipe'[c] # << >> => Follows(pipe'[c][Len(pipe'[c])], Due')
  BY DEF PipeInv
<1>5. Writing(c)' /\ pipe'[c] = << >> /\ Attended(c)' => (IF Reading(c)' THEN Due' = <<got'[1][1], Len(got')>> ELSE Due'[2] = 0)
  BY <1>1 DEF PipeInv
<1> QED
  BY <1>2, <1>3, <1>4, <1>5 DEF PipeInv, Expected

\* A new or an empty connection that no one sends on.
LEMMA PipeEmpty ==
  ASSUME NEW c \in Conn, pipe'[c] = << >>, ~Writing(c)'
  PROVE  PipeInv(c)'
<1>1. Chained(<< >>)
  BY DEF Chained
<1> QED
  BY <1>1 DEF PipeInv

LEMMA TcpFacts ==
  ASSUME TcpInv
  PROVE  TcpTypes /\ ReaderInv /\ WriterInv /\ BacklogInv /\ \A c \in Conn : PipeInv(c)
BY DEF TcpInv

LEMMA TcpStart == TcpInit /\ at = "loop" /\ outAt = "idle" /\ f = 0 => TcpInv
<1> SUFFICES ASSUME TcpInit, at = "loop", outAt = "idle", f = 0 PROVE TcpInv
  OBVIOUS
<1>1. << >> \in Seq(WordSet) /\ << >> \in Seq(Conn) /\ Len(<< >>) = 0 /\ 0 \in Frames
  BY DEF Frames, FrameMod
<1>2. TcpTypes
  BY <1>1 DEF TcpInit, TcpTypes, Conn
<1>3. BacklogInv
  BY <1>1 DEF TcpInit, BacklogInv, Distinct, ToSet
<1>4. ASSUME NEW c \in Conn PROVE PipeInv(c)
  <2>1. pipe[c] = << >> /\ outOpen = {}
    BY DEF TcpInit, Conn
  <2> QED
    BY <1>1, <2>1 DEF PipeInv, Chained, Writing
<1> QED
  BY <1>1, <1>2, <1>3, <1>4 DEF TcpInv, ReaderInv, WriterInv, TcpInit

(***************************************************************************)
(* TCP: the reader.                                                        *)
(***************************************************************************)
\* A step that neither opens nor closes a connection nor moves a word.
LEMMA NothingRead ==
  ASSUME TcpInv, UNCHANGED <<link, pipe, got, left, backlog, f, inC, outC, outOpen, outAt>>,
         at' = "media" <=> at = "media",
         recvC' = recvC \/ (recvC = 0 /\ inC # 0 /\ recvC' = inC),
         recvC' # 0 => at' \in {"head", "media"}
  PROVE  TcpInv'
<1>1. TcpTypes /\ ReaderInv /\ WriterInv /\ BacklogInv /\ \A c \in Conn : PipeInv(c)
  BY TcpFacts
<1>2. TcpTypes' /\ ReaderInv' /\ WriterInv'
  BY <1>1 DEF TcpTypes, ReaderInv, WriterInv
<1>3. Source' = Source
  BY DEF Source
<1>4. BacklogInv'
  <2>1. \A c \in ToSet(backlog) : c # 0
    BY <1>1, Waiting DEF TcpTypes
  <2>2. ASSUME NEW c \in ToSet(backlog) PROVE Waits(c)'
    <3>1. Waits(c) /\ c # 0
      BY <1>1, <2>1 DEF BacklogInv
    <3> QED
      BY <1>3, <3>1 DEF Waits, InListens, Reading
  <2> QED
    BY <1>1, <2>2 DEF BacklogInv
<1>5. ASSUME NEW c \in Conn PROVE PipeInv(c)'
  <2>1. (Attended(c)' <=> Attended(c)) /\ (Reading(c)' <=> Reading(c)) /\ (Writing(c)' <=> Writing(c)) /\ Due' = Due
    BY <1>3 DEF Attended, Reading, Writing, Due
  <2> QED
    BY <1>1, <2>1, PipeKept
<1> QED
  BY <1>2, <1>4, <1>5 DEF TcpInv

\* A listening pin takes the first that waits.
LEMMA ReaderAccepts ==
  ASSUME TcpInv, InListens, inC = 0, recvC = 0, Accepts, inC' = Head(backlog), at' = "head", at # "media",
         UNCHANGED <<link, pipe, got, left, f, outC, recvC, outOpen, outAt>>
  PROVE  TcpInv'
<1>1. TcpTypes /\ ReaderInv /\ WriterInv /\ BacklogInv /\ \A c \in Conn : PipeInv(c)
  BY TcpFacts
<1>2. /\ backlog' \in Seq(Conn) /\ Distinct(backlog') /\ Head(backlog) \in Conn
      /\ ToSet(backlog') = ToSet(backlog) \ {Head(backlog)} /\ Head(backlog) \in ToSet(backlog)
  BY <1>1, WaitingTail DEF TcpTypes, BacklogInv, Accepts
<1>3. TcpTypes' /\ ReaderInv' /\ WriterInv'
  BY <1>1, <1>2 DEF TcpTypes, ReaderInv, WriterInv
<1>4. BacklogInv'
  <2>1. ASSUME NEW c \in ToSet(backlog') PROVE Waits(c)'
    <3>1. c # inC' /\ c # 0
      BY <1>2, <2>1, Waiting
    <3> QED
      BY <3>1 DEF Waits, InListens
  <2> QED
    BY <1>2, <2>1 DEF BacklogInv
<1>5. ASSUME NEW c \in Conn PROVE PipeInv(c)'
  <2>1. ~Reading(c)' /\ ~Reading(c)
    BY DEF Reading
  <2>2. Attended(c)' => Attended(c)
    BY <1>2 DEF Attended, Source
  <2>3. (Writing(c)' <=> Writing(c)) /\ Due' = Due
    BY DEF Writing, Due
  <2> QED
    BY <1>1, <2>1, <2>2, <2>3, PipeKept
<1> QED
  BY <1>3, <1>4, <1>5 DEF TcpInv

\* The other pin makes a new connection, which waits to be accepted.
LEMMA NewConnection ==
  ASSUME TcpInv, NEW c \in Unused, Connects(c)
  PROVE  /\ c \in Conn /\ c \notin {inC, outC, recvC} /\ c \notin ToSet(backlog)
         /\ backlog' \in Seq(Conn) /\ Distinct(backlog') /\ ToSet(backlog') = ToSet(backlog) \cup {c}
         /\ pipe' \in [Conn -> Seq(WordSet)] /\ pipe'[c] = << >>
         /\ \A d \in Conn : d # c => pipe'[d] = pipe[d] /\ (d \in outOpen' <=> d \in outOpen)
<1>1. TcpTypes /\ BacklogInv
  BY TcpFacts
<1>3. c \in Conn /\ c \notin {inC, outC, recvC} /\ c \notin ToSet(backlog)
  BY DEF Unused, Conn
<1>4. backlog' \in Seq(Conn) /\ Distinct(backlog') /\ ToSet(backlog') = ToSet(backlog) \cup {c}
  BY <1>1, <1>3, WaitingAppend DEF TcpTypes, BacklogInv, Connects
<1>5. << >> \in Seq(WordSet)
  OBVIOUS
<1>6. pipe' = [pipe EXCEPT ![c] = << >>] /\ outOpen' = outOpen \cup {c}
  BY DEF Connects
<1> QED
  BY <1>1, <1>3, <1>4, <1>5, <1>6 DEF TcpTypes

LEMMA ReaderConnects ==
  ASSUME TcpInv, ~InListens, inC = 0, recvC = 0, NEW c \in Unused, Connects(c), inC' = c, at' = "head", at # "media",
         UNCHANGED <<link, got, left, f, outC, recvC, outAt>>
  PROVE  TcpInv'
<1>1. TcpTypes /\ ReaderInv /\ WriterInv /\ BacklogInv /\ \A d \in Conn : PipeInv(d)
  BY TcpFacts
<1>2. /\ c \in Conn /\ c \notin {inC, outC, recvC} /\ c \notin ToSet(backlog)
      /\ backlog' \in Seq(Conn) /\ Distinct(backlog') /\ ToSet(backlog') = ToSet(backlog) \cup {c}
      /\ pipe' \in [Conn -> Seq(WordSet)] /\ pipe'[c] = << >>
      /\ \A d \in Conn : d # c => pipe'[d] = pipe[d] /\ (d \in outOpen' <=> d \in outOpen)
  BY NewConnection
<1>3. TcpTypes' /\ ReaderInv' /\ WriterInv'
  BY <1>1, <1>2 DEF TcpTypes, ReaderInv, WriterInv
<1>4. BacklogInv'
  <2>1. ASSUME NEW d \in ToSet(backlog') PROVE Waits(d)'
    <3>1. ~Reading(d)'
      BY DEF Reading
    <3>2. pipe'[d] = << >> /\ d # outC'
      <4>1. CASE d = c
        BY <1>2, <4>1
      <4>2. CASE d # c
        <5>1. d \in ToSet(backlog) /\ d \in Conn
          BY <1>1, <1>2, <2>1, <4>2, Waiting DEF TcpTypes
        <5>2. pipe[d] = << >> /\ d # outC
          BY <1>1, <5>1 DEF BacklogInv, Waits
        <5> QED
          BY <1>2, <4>2, <5>1, <5>2
      <4> QED
        BY <4>1, <4>2
    <3> QED
      BY <3>1, <3>2 DEF Waits, InListens
  <2> QED
    BY <1>2, <2>1 DEF BacklogInv
<1>5. ASSUME NEW d \in Conn PROVE PipeInv(d)'
  <2>1. CASE d = c
    BY <1>2, <2>1, PipeEmpty DEF Writing
  <2>2. CASE d # c
    <3>1. ~Reading(d)' /\ ~Reading(d)
      BY DEF Reading
    <3>2. Attended(d)' => Attended(d)
      BY <1>2, <2>2 DEF Attended, Source
    <3>3. (Writing(d)' <=> Writing(d)) /\ Due' = Due
      BY <1>2, <2>2 DEF Writing, Due
    <3> QED
      BY <1>1, <1>2, <2>2, <3>1, <3>2, <3>3, PipeKept
  <2> QED
    BY <2>1, <2>2
<1> QED
  BY <1>3, <1>4, <1>5 DEF TcpInv

LEMMA TcpOpenStep == ASSUME TcpInv, TcpOpen, link' = link PROVE TcpInv'
<1>1. at = "read" /\ got' = << >> /\ UNCHANGED <<outAt, f, outC, left, recvC>>
  BY DEF TcpOpen, readerKeeps
<1>2. recvC = 0 /\ got = << >>
  BY <1>1, TcpFacts DEF ReaderInv
<1>3. CASE UNCHANGED <<backlog, inC, outOpen, pipe>> /\ at' \in {"head", "loop"}
  BY <1>1, <1>2, <1>3, NothingRead
<1>4. CASE inC = 0 /\ InListens /\ UNCHANGED <<outOpen, pipe>> /\ Accepts /\ inC' = Head(backlog) /\ at' = "head"
  BY <1>1, <1>2, <1>4, ReaderAccepts
<1>5. CASE inC = 0 /\ ~InListens /\ \E c \in Unused : Connects(c) /\ inC' = c /\ at' = "head"
  <2>1. PICK c \in Unused : Connects(c) /\ inC' = c /\ at' = "head"
    BY <1>5
  <2> QED
    BY <1>1, <1>2, <1>5, <2>1, ReaderConnects
<1> QED
  BY <1>3, <1>4, <1>5 DEF TcpOpen, NoClient, Refused

\* What the reader closes it does not read again.
LEMMA ReaderCloses ==
  ASSUME TcpInv, UNCHANGED <<link, pipe, f, outC, outAt, left>>, InCloses,
         \/ at' = "loop" /\ got' = << >> /\ recvC' = 0
         \/ UNCHANGED <<at, got, recvC>>
  PROVE  TcpInv'
<1>1. TcpTypes /\ ReaderInv /\ WriterInv /\ BacklogInv /\ \A c \in Conn : PipeInv(c)
  BY TcpFacts
<1>2. inC' = 0 /\ outOpen' \subseteq outOpen /\ (backlog' = backlog \/ (InListens /\ backlog' = << >>))
  BY DEF InCloses, ClosesListener
<1>3. << >> \in Seq(Conn) /\ << >> \in Seq(WordSet) /\ ToSet(<< >>) = {} /\ Distinct(<< >>)
  BY DEF ToSet, Distinct
<1>4. TcpTypes' /\ ReaderInv' /\ WriterInv'
  <2>1. TcpTypes'
    BY <1>1, <1>2, <1>3 DEF TcpTypes
  <2>2. ReaderInv'
    BY <1>1, <1>2 DEF ReaderInv
  <2> QED
    BY <1>1, <2>1, <2>2 DEF WriterInv
<1>5. \A c \in Conn : Source' = c => Source = c
  BY <1>2 DEF Source, Conn
<1>6. \A c \in Conn : Reading(c)' => Reading(c) /\ got' = got
  BY <1>5 DEF Reading
<1>7. ASSUME NEW c \in Conn, Attended(c)' PROVE Attended(c) /\ (Reading(c) => Reading(c)' /\ got' = got)
  <2>1. CASE c \in ToSet(backlog')
    <3>1. c \in ToSet(backlog)
      BY <1>2, <1>3, <2>1
    <3>2. ~InListens
      <4>1. SUFFICES ASSUME InListens PROVE FALSE
        OBVIOUS
      <4>2. backlog' = << >>
        BY <4>1 DEF InCloses, ClosesListener
      <4> QED
        BY <1>3, <2>1, <4>2
    <3>3. ~Reading(c)
      BY <1>1, <3>1, <3>2 DEF BacklogInv, Waits
    <3> QED
      BY <3>1, <3>3 DEF Attended
  <2>2. CASE c = Source'
    <3>1. recvC' = c /\ recvC' # 0 /\ UNCHANGED <<at, got, recvC>>
      BY <1>2, <2>2 DEF Source, Conn
    <3>2. Source = c
      BY <3>1 DEF Source
    <3> QED
      BY <2>2, <3>1, <3>2 DEF Attended, Reading
  <2> QED
    BY <1>7, <2>1, <2>2 DEF Attended
<1>8. BacklogInv'
  <2>1. Distinct(backlog')
    BY <1>1, <1>2, <1>3 DEF BacklogInv
  <2>2. ASSUME NEW c \in ToSet(backlog') PROVE Waits(c)'
    <3>1. backlog' = backlog /\ Waits(c) /\ c \in Conn
      BY <1>1, <1>2, <1>3, <2>2, Waiting DEF BacklogInv, TcpTypes
    <3>2. c # 0
      BY <1>1, <2>2, <3>1, Waiting DEF TcpTypes
    <3>3. InListens => c \notin {inC', recvC'}
      BY <1>2, <3>1, <3>2 DEF Waits
    <3> QED
      BY <1>6, <3>1, <3>3 DEF Waits, InListens
  <2> QED
    BY <2>1, <2>2 DEF BacklogInv
<1>9. ASSUME NEW c \in Conn PROVE PipeInv(c)'
  <2>1. (Writing(c)' => Writing(c)) /\ Due' = Due
    BY <1>2 DEF Writing, Due
  <2> QED
    BY <1>1, <1>6, <1>7, <2>1, PipeKept
<1> QED
  BY <1>4, <1>8, <1>9 DEF TcpInv

LEMMA TcpRecvsStep == ASSUME TcpInv, TcpRecvs PROVE TcpInv'
BY NothingRead DEF TcpRecvs, commonVars

LEMMA TcpRecvFailsStep == ASSUME TcpInv, TcpRecvFails PROVE TcpInv'
BY ReaderCloses DEF TcpRecvFails, GivesNone, readerKeeps

LEMMA TcpStopStep == ASSUME TcpInv, TcpStop PROVE TcpInv'
<1>1. UNCHANGED <<link, at, f, outAt, recvC, pipe, got, outC, left>>
  BY DEF TcpStop, StopPinCalled
<1>2. CASE InCloses
  BY <1>1, <1>2, ReaderCloses
<1>3. CASE UNCHANGED <<inC, inOpen, outOpen, lsock, backlog>>
  <2>1. recvC' # 0 => at' \in {"head", "media"}
    BY <1>1, TcpFacts DEF ReaderInv
  <2> QED
    BY <1>1, <1>3, <2>1, NothingRead
<1> QED
  BY <1>2, <1>3 DEF TcpStop

LEMMA DueIsWord == ASSUME TcpInv PROVE Due \in WordSet
<1>1. TcpTypes /\ WriterInv
  BY TcpFacts
<1>2. 0 \in Frames /\ f \in Frames
  BY <1>1 DEF Frames, FrameMod, TcpTypes
<1>3. Size(0) \in {2, 3} /\ Size(f) \in {2, 3}
  BY <1>2, Sizes
<1>4. CASE outAt = "write"
  <2>1. PICK k \in 1 .. Size(f) : k = Len(left)
    BY <1>1, <1>4 DEF WriterInv
  <2>2. Size(f) - k \in Nat /\ Size(f) - k < Size(f)
    BY <1>3, <2>1
  <2> QED
    BY <1>2, <1>4, <2>1, <2>2 DEF Due, WordSet
<1>5. CASE outAt # "write"
  <2>1. 0 \in Nat /\ 0 < Size(0)
    BY <1>3
  <2> QED
    BY <1>2, <1>5, <2>1 DEF Due, WordSet
<1> QED
  BY <1>4, <1>5

\* What was read of a frame is its first words.
LEMMA ReadWords ==
  ASSUME TcpInv, recvC # 0, NEW n \in 1 .. Len(pipe[recvC]), Len(got) + n <= Wanted
  PROVE  \E a \in Frames : LET w == got \o SubSeq(pipe[recvC], 1, n) IN
           /\ w \in Seq(WordSet) /\ Len(w) = Len(got) + n /\ Len(w) \in 1 .. Size(a)
           /\ \A i \in 1 .. Len(w) : w[i] = <<a, i - 1>>
           /\ pipe[recvC][n] = <<a, Len(w) - 1>>
           /\ (at = "media" => a = got[1][1]) /\ (at = "head" => Len(w) = 1)
<1>1. TcpTypes /\ ReaderInv /\ \A c \in Conn : PipeInv(c)
  BY TcpFacts
<1>2. recvC \in Conn /\ at \in {"head", "media"} /\ Source = recvC
  BY <1>1 DEF TcpTypes, ReaderInv, Source
<1>3. PICK p \in Seq(WordSet) : p = pipe[recvC]
  BY <1>1, <1>2 DEF TcpTypes
<1>4. n \in 1 .. Len(p) /\ Len(p) \in Nat /\ n \in Nat /\ n >= 1 /\ p # << >> /\ 1 \in 1 .. Len(p)
  BY <1>3
<1>5. Chained(p) /\ Expected(recvC, p[1])
  BY <1>1, <1>2, <1>3, <1>4 DEF PipeInv, Attended
<1>6. PICK s : s = SubSeq(p, 1, n)
  OBVIOUS
<1>7. s \in Seq(WordSet) /\ Len(s) = n /\ \A i \in 1 .. n : s[i] = p[i]
  BY <1>3, <1>4, <1>6, Cut
<1>8. PICK g : g = got
  OBVIOUS
<1>9. g \in Seq(WordSet) /\ Len(g) \in Nat
  BY <1>1, <1>8 DEF TcpTypes
<1>10. PICK w : w = g \o s
  OBVIOUS
<1>11. /\ w \in Seq(WordSet) /\ Len(w) = Len(g) + n
       /\ \A i \in 1 .. Len(g) : w[i] = g[i]
       /\ \A i \in 1 .. n : w[Len(g) + i] = s[i]
  BY <1>7, <1>9, <1>10, Joined
<1>12. w = got \o SubSeq(pipe[recvC], 1, n) /\ Len(w) = Len(got) + n /\ pipe[recvC][n] = p[n]
  BY <1>3, <1>6, <1>8, <1>10, <1>11
<1>13. CASE at = "head"
  <2>1. g = << >> /\ Len(g) = 0 /\ n = 1
    BY <1>1, <1>4, <1>8, <1>13 DEF ReaderInv, Wanted
  <2>2. p[1] \in WordSet /\ p[1][2] = 0
    BY <1>2, <1>4, <1>5, <1>13 DEF Expected, Reading
  <2>3. PICK a \in Frames : p[1] = <<a, 0>>
    BY <2>2 DEF WordSet
  <2>4. Len(w) = 1 /\ w[1] = <<a, 0>>
    BY <1>7, <1>11, <2>1, <2>3
  <2>5. Len(w) \in 1 .. Size(a)
    BY <2>4, Sizes
  <2>6. \A i \in 1 .. Len(w) : w[i] = <<a, i - 1>>
    BY <2>4
  <2> QED
    BY <1>11, <1>13, <1>12, <2>3, <2>4, <2>5, <2>6
<1>14. CASE at = "media"
  <2>1. PICK a \in Frames : a = g[1][1]
    BY <1>1, <1>8, <1>14 DEF ReaderInv
  <2>2. Len(g) < Size(a) /\ \A i \in 1 .. Len(g) : g[i] = <<a, i - 1>>
    BY <1>1, <1>8, <1>14, <2>1 DEF ReaderInv
  <2>3. Len(g) >= 1 /\ Len(g) + n <= Size(a) /\ Size(a) \in {2, 3}
    <3>1. g # << >>
      BY <1>1, <1>8, <1>14 DEF ReaderInv
    <3>2. Len(g) + n <= Size(a)
      BY <1>8, <1>14, <2>1 DEF Wanted
    <3> QED
      BY <1>9, <2>1, <3>1, <3>2, Sizes
  <2>4. p[1] = <<a, Len(g)>>
    BY <1>2, <1>5, <1>8, <1>14, <2>1 DEF Expected, Reading
  <2>5. n = 2 => p[2] = <<a, Len(g) + 1>>
    <3>1. SUFFICES ASSUME n = 2 PROVE p[2] = <<a, Len(g) + 1>>
      OBVIOUS
    <3>2. p[2] \in WordSet /\ 1 \in 1 .. Len(p) - 1 /\ 1 + 1 = 2
      BY <1>3, <1>4, <3>1
    <3>3. Follows(p[1], p[2])
      BY <1>5, <3>2 DEF Chained
    <3>4. Len(g) + 1 < Size(a)
      BY <1>9, <2>3, <3>1
    <3> QED
      BY <1>9, <2>2, <2>4, <3>2, <3>3, <3>4, After
  <2>6. n \in {1, 2}
    BY <1>4, <1>9, <2>3
  <2>7. \A j \in 1 .. n : p[j] = <<a, Len(g) + j - 1>>
    <3>1. \A j \in 1 .. n : j = 1 \/ (j = 2 /\ n = 2)
      BY <2>6
    <3>2. Len(g) + 1 - 1 = Len(g) /\ Len(g) + 2 - 1 = Len(g) + 1
      BY <1>9
    <3> QED
      BY <2>4, <2>5, <3>1, <3>2
  <2>8. \A i \in 1 .. Len(w) : w[i] = <<a, i - 1>>
    <3>1. ASSUME NEW i \in 1 .. Len(w) PROVE w[i] = <<a, i - 1>>
      <4>1. CASE i \in 1 .. Len(g)
        BY <1>11, <2>2, <4>1
      <4>2. CASE i \notin 1 .. Len(g)
        <5>1. PICK j \in 1 .. n : i = Len(g) + j
          <6>1. i - Len(g) \in 1 .. n /\ i = Len(g) + (i - Len(g))
            BY <1>4, <1>9, <1>11, <3>1, <4>2
          <6> QED
            BY <6>1
        <5>2. w[i] = s[j] /\ s[j] = p[j]
          BY <1>7, <1>11, <5>1
        <5>3. Len(g) + j - 1 = i - 1
          BY <1>9, <5>1
        <5> QED
          BY <2>7, <5>2, <5>3
      <4> QED
        BY <4>1, <4>2
    <3> QED
      BY <3>1
  <2>9. p[n] = <<a, Len(w) - 1>> /\ Len(w) \in 1 .. Size(a)
    <3>1. n \in 1 .. n
      BY <1>4
    <3>2. Len(w) \in 1 .. Size(a)
      BY <1>4, <1>9, <1>11, <2>3
    <3> QED
      BY <1>11, <2>7, <3>1, <3>2
  <2> QED
    <3>1. a = got[1][1]
      BY <1>8, <2>1
    <3> QED
      BY <1>11, <1>14, <1>12, <2>8, <2>9, <3>1
<1> QED
  BY <1>2, <1>13, <1>14

\* The reader takes words from its connection, k of its frame with those it had.
LEMMA PipeRead ==
  ASSUME TcpInv, recvC # 0, NEW n \in 1 .. Len(pipe[recvC]), NEW a \in Frames, NEW k \in 1 .. Size(a),
         pipe[recvC][n] = <<a, k - 1>>,
         pipe' = [pipe EXCEPT ![recvC] = SubSeq(@, n + 1, Len(@))],
         recvC' = 0, UNCHANGED <<link, backlog, inC, outOpen, outC, outAt, f, left>>,
         \/ at' = "media" /\ k < Size(a) /\ got'[1][1] = a /\ Len(got') = k
         \/ at' # "media" /\ k = Size(a)
  PROVE  BacklogInv' /\ pipe' \in [Conn -> Seq(WordSet)] /\ \A d \in Conn : PipeInv(d)'
<1>1. TcpTypes /\ ReaderInv /\ WriterInv /\ BacklogInv /\ \A d \in Conn : PipeInv(d)
  BY TcpFacts
<1>2. PICK c \in Conn : c = recvC /\ Source = c /\ inC \in {0, c}
  BY <1>1 DEF TcpTypes, ReaderInv, Source
<1>3. PICK p \in Seq(WordSet) : p = pipe[c]
  BY <1>1, <1>2 DEF TcpTypes
<1>4. n \in 1 .. Len(p) /\ p # << >>
  BY <1>2, <1>3
<1>5. PICK r : r = SubSeq(p, n + 1, Len(p))
  OBVIOUS
<1>6. r \in Seq(WordSet) /\ Len(r) = Len(p) - n /\ \A j \in 1 .. Len(p) - n : r[j] = p[n + j]
  BY <1>3, <1>4, <1>5, Cut
<1>7. pipe' \in [Conn -> Seq(WordSet)] /\ pipe'[c] = r /\ \A d \in Conn : d # c => pipe'[d] = pipe[d]
  BY <1>1, <1>2, <1>3, <1>5, <1>6 DEF TcpTypes
<1>8. Source' = inC
  BY DEF Source
<1>9. \A d \in ToSet(backlog) : d \in Conn /\ d # 0 /\ d # c
  <2>1. ASSUME NEW d \in ToSet(backlog) PROVE d \in Conn /\ d # 0 /\ d # c
    <3>1. d \in Conn /\ d # 0 /\ Waits(d)
      BY <1>1, Waiting DEF TcpTypes, BacklogInv
    <3>2. d # c
      BY <1>2, <1>3, <1>4, <3>1 DEF Waits
    <3> QED
      BY <3>1, <3>2
  <2> QED
    BY <2>1
<1>10. BacklogInv'
  <2>1. ASSUME NEW d \in ToSet(backlog) PROVE Waits(d)'
    <3>1. d \in Conn /\ d # 0 /\ d # c /\ Waits(d)
      BY <1>1, <1>9 DEF BacklogInv
    <3>2. ~Reading(d)'
      BY <1>2, <1>8, <3>1 DEF Reading
    <3> QED
      BY <1>7, <3>1, <3>2 DEF Waits, InListens
  <2> QED
    BY <1>1, <2>1 DEF BacklogInv
<1>11. Chained(p) /\ (Writing(c) => Follows(p[Len(p)], Due))
  BY <1>1, <1>3, <1>4 DEF PipeInv
<1>12. Due' = Due /\ \A d \in Conn : Writing(d)' <=> Writing(d)
  BY DEF Due, Writing
<1>13. p[n] = <<a, k - 1>> /\ k - 1 \in Nat /\ k - 1 < Size(a) /\ k - 1 + 1 = k
  BY <1>2, <1>3, Sizes
<1>14. ASSUME NEW w \in WordSet, Follows(p[n], w), Source' = c PROVE Expected(c, w)'
  <2>1. /\ k < Size(a) => w = <<a, k>>
        /\ k = Size(a) => w[2] = 0
    BY <1>13, <1>14, After
  <2>2. Reading(c)' <=> at' = "media"
    BY <1>14 DEF Reading
  <2>3. Size(a) \in Nat /\ k \in Nat
    BY Sizes
  <2>4. ~(k < Size(a) /\ k = Size(a))
    BY <2>3
  <2> QED
    BY <2>1, <2>2, <2>4 DEF Expected
<1>15. ASSUME NEW d \in Conn, d # c PROVE PipeInv(d)'
  <2>1. ~Reading(d) /\ (Attended(d)' => Attended(d))
    BY <1>2, <1>8, <1>15, TcpAssumption DEF Reading, Attended, Conn
  <2>2. ~Reading(d)'
    BY <1>2, <1>8, <1>15, TcpAssumption DEF Reading, Conn
  <2> QED
    BY <1>1, <1>7, <1>12, <1>15, <2>1, <2>2, PipeKept
<1>16. PipeInv(c)'
  <2>1. Attended(c)' => Source' = c
    BY <1>9 DEF Attended
  <2>2. CASE n = Len(p)
    <3>1. r = << >>
      BY <1>3, <1>6, <2>2
    <3>2. Chained(r)
      BY <3>1 DEF Chained
    <3>3. Writing(c)' /\ Attended(c)' => Expected(c, Due)'
      <4>1. SUFFICES ASSUME Writing(c)', Attended(c)' PROVE Expected(c, Due)'
        OBVIOUS
      <4>2. PICK v \in WordSet : v = Due
        BY DueIsWord
      <4>3. Follows(p[n], v)
        BY <1>11, <1>12, <2>2, <4>1, <4>2
      <4>4. Expected(c, v)'
        BY <1>14, <2>1, <4>1, <4>3
      <4> QED
        BY <1>12, <4>2, <4>4 DEF Expected
    <3> QED
      BY <1>7, <3>1, <3>2, <3>3 DEF PipeInv
  <2>3. CASE n # Len(p)
    <3>1. Len(r) > 0 /\ Len(r) \in Nat /\ r[1] = p[n + 1] /\ p[n + 1] \in WordSet /\ n \in 1 .. Len(p) - 1
      <4>1. Len(p) - n > 0 /\ 1 \in 1 .. Len(p) - n /\ n + 1 \in 1 .. Len(p) /\ n \in 1 .. Len(p) - 1
        BY <1>3, <1>4, <2>3
      <4> QED
        BY <1>3, <1>6, <4>1
    <3>2. Follows(p[n], r[1])
      BY <1>11, <3>1 DEF Chained
    <3>3. r[Len(r)] = p[Len(p)]
      <4>1. Len(r) \in 1 .. Len(p) - n /\ n + Len(r) = Len(p)
        BY <1>3, <1>4, <1>6, <3>1
      <4> QED
        BY <1>6, <4>1
    <3>4. Chained(r)
      <4>1. ASSUME NEW i \in 1 .. Len(r) - 1 PROVE Follows(r[i], r[i + 1])
        <5>0. PICK m \in Nat : m = Len(p) /\ Len(r) = m - n /\ n \in 1 .. m
          BY <1>4, <1>6
        <5>2. i \in Nat /\ i >= 1 /\ i <= m - n - 1
          BY <5>0
        <5>1. n + i \in 1 .. Len(p) - 1 /\ i \in 1 .. Len(p) - n /\ i + 1 \in 1 .. Len(p) - n /\ n + (i + 1) = (n + i) + 1
          BY <5>0, <5>2
        <5> QED
          BY <1>6, <1>11, <5>1 DEF Chained
      <4> QED
        BY <4>1 DEF Chained
    <3>5. r # << >>
      BY <3>1
    <3> QED
      BY <1>7, <1>11, <1>12, <1>14, <2>1, <3>1, <3>2, <3>3, <3>4, <3>5 DEF PipeInv
  <2> QED
    BY <2>2, <2>3
<1> QED
  BY <1>7, <1>10, <1>15, <1>16

\* What the reader gives as a frame is one.
LEMMA TcpRecvStep == ASSUME TcpInv, TcpRecv PROVE TcpInv' /\ (~broken => ~broken')
<1>1. TcpTypes /\ ReaderInv /\ WriterInv
  BY TcpFacts
<1>2. recvC # 0 /\ recvC' = 0 /\ UNCHANGED <<link, stopAt, outAt, f, breaks, outC, left, lsock, backlog, inC, outOpen>>
  BY DEF TcpRecv, readerKeeps
<1>3. PICK n \in 1 .. Len(pipe[recvC]) :
        /\ Len(got) + n <= Wanted
        /\ Received(got \o SubSeq(pipe[recvC], 1, n))
        /\ pipe' = [pipe EXCEPT ![recvC] = SubSeq(@, n + 1, Len(@))]
  BY DEF TcpRecv
<1>4. PICK w : w = got \o SubSeq(pipe[recvC], 1, n)
  OBVIOUS
<1>5. PICK a \in Frames : /\ w \in Seq(WordSet) /\ Len(w) = Len(got) + n /\ Len(w) \in 1 .. Size(a)
           /\ \A i \in 1 .. Len(w) : w[i] = <<a, i - 1>>
           /\ pipe[recvC][n] = <<a, Len(w) - 1>>
           /\ (at = "media" => a = got[1][1]) /\ (at = "head" => Len(w) = 1)
  BY <1>2, <1>3, <1>4, ReadWords
<1>6. PICK k \in 1 .. Size(a) : k = Len(w)
  BY <1>5
<1>7. Size(a) \in {2, 3}
  BY Sizes
<1>8. 1 \in 1 .. Len(w) /\ w[1] = <<a, 0>> /\ w # << >>
  BY <1>5, <1>6, <1>7
<1>9. Received(w) /\ at \in {"head", "media"}
  BY <1>1, <1>2, <1>3, <1>4 DEF ReaderInv
<1>10. /\ ~broken => ~broken'
       /\ \/ at' = "media" /\ k < Size(a) /\ got' = w
          \/ at' = "loop" /\ k = Size(a) /\ got' = << >>
  <2>1. CASE at = "head"
    <3>1. Wanted = 1 /\ Len(w) = 1
      BY <1>5, <2>1 DEF Wanted
    <3>2. Header(w)
      BY <1>9, <2>1, <3>1 DEF Received
    <3>3. at' = "media" /\ got' = w /\ broken' = broken
      BY <1>8, <3>2 DEF Header
    <3> QED
      BY <1>6, <1>7, <3>1, <3>3
  <2>2. CASE at = "media"
    <3>1. Wanted = Size(a)
      BY <1>5, <2>2 DEF Wanted
    <3>2. CASE Len(w) < Wanted /\ got' = w /\ UNCHANGED <<at, turn, broken>>
      BY <1>6, <2>2, <3>1, <3>2
    <3>3. CASE Len(w) = Wanted /\ Media(w)
      <4>1. w = Words(a)
        <5>1. Len(w) = Size(a) /\ Len(Words(a)) = Size(a) /\ Words(a) \in Seq(WordSet)
          BY <3>1, <3>3, WordsOf
        <5>2. \A i \in 1 .. Size(a) : w[i] = Words(a)[i]
          BY <1>5, <5>1, WordsOf
        <5>3. PICK v \in Seq(WordSet) : v = Words(a)
          BY <5>1
        <5> QED
          BY <1>5, <5>1, <5>2, <5>3
      <4>2. ~broken => ~broken'
        <5>1. w = Words(w[1][1])
          BY <1>8, <4>1
        <5>2. broken' = (broken \/ (w # Words(w[1][1]) /\ ~FALSE))
          BY <3>3 DEF Media, Gives
        <5> QED
          BY <5>1, <5>2
      <4> QED
        BY <1>6, <3>1, <3>3, <4>2 DEF Media, Gives
    <3> QED
      BY <1>9, <2>2, <3>2, <3>3 DEF Received
  <2> QED
    BY <1>9, <2>1, <2>2
<1>11. /\ BacklogInv' /\ pipe' \in [Conn -> Seq(WordSet)] /\ \A d \in Conn : PipeInv(d)'
  <2>1. \/ at' = "media" /\ k < Size(a) /\ got'[1][1] = a /\ Len(got') = k
        \/ at' # "media" /\ k = Size(a)
    BY <1>6, <1>8, <1>10
  <2>2. pipe[recvC][n] = <<a, k - 1>>
    BY <1>5, <1>6
  <2> QED
    BY <1>2, <1>3, <2>1, <2>2, PipeRead
<1>12. TcpTypes' /\ ReaderInv' /\ WriterInv'
  <2>1. << >> \in Seq(WordSet)
    OBVIOUS
  <2>2. TcpTypes'
    BY <1>1, <1>2, <1>5, <1>10, <1>11, <2>1 DEF TcpTypes
  <2>3. ReaderInv'
    BY <1>2, <1>5, <1>6, <1>8, <1>10 DEF ReaderInv
  <2>4. WriterInv'
    BY <1>1, <1>2 DEF WriterInv
  <2> QED
    BY <2>2, <2>3, <2>4
<1> QED
  BY <1>10, <1>11, <1>12 DEF TcpInv

(***************************************************************************)
(* TCP: the writer.                                                        *)
(***************************************************************************)
\* The writer begins the frame f.
LEMMA FrameBegins ==
  ASSUME TcpInv, outAt' = "write", left' = Words(f), f' = f
  PROVE  Due' = <<f, 0>> /\ left' \in Seq(WordSet) /\ (outC' # 0 => WriterInv')
<1>1. f \in Frames
  BY TcpFacts DEF TcpTypes
<1>2. PICK w : w = Words(f)
  OBVIOUS
<1>3. PICK m \in Nat : m = Size(f) /\ m > 1
  BY <1>1, Sizes
<1>4. w \in Seq(WordSet) /\ Len(w) = m /\ \A i \in 1 .. m : w[i] = <<f, i - 1>>
  BY <1>1, <1>2, <1>3, WordsOf
<1>5. m - m = 0 /\ m \in 1 .. m /\ \A i \in 1 .. m : 0 + (i - 1) = i - 1
  BY <1>3
<1>6. Size(f') = m
  BY <1>3
<1> QED
  BY <1>2, <1>3, <1>4, <1>5, <1>6 DEF Due, WriterInv

\* Before, the writer was between two frames.
LEMMA BeginsKept ==
  ASSUME TcpInv, outAt = "idle", NEW w, w = <<f, 0>>
  PROVE  /\ \A v \in WordSet : Follows(v, Due) => Follows(v, w)
         /\ \A c \in Conn : Expected(c, Due) => Expected(c, w)
<1>1. Due = <<0, 0>>
  BY DEF Due
<1>2. \A v \in WordSet : v[2] \in Nat
  BY DEF WordSet
<1>3. \A v \in WordSet : Follows(v, Due) => Follows(v, w)
  <2>1. \A v \in WordSet : v[2] + 1 # 0
    BY <1>2
  <2> QED
    BY <1>1, <2>1 DEF Follows
<1>4. ASSUME NEW c \in Conn, Expected(c, Due) PROVE Expected(c, w)
  <2>1. CASE Reading(c)
    <3>1. got # << >> /\ got \in Seq(WordSet)
      BY <2>1, TcpFacts DEF Reading, ReaderInv, TcpTypes
    <3>2. Len(got) # 0
      BY <3>1
    <3>3. Due = <<got[1][1], Len(got)>>
      BY <1>4, <2>1 DEF Expected
    <3> QED
      BY <1>1, <3>2, <3>3
  <2>2. CASE ~Reading(c)
    BY <2>2 DEF Expected
  <2> QED
    BY <2>1, <2>2
<1> QED
  BY <1>3, <1>4

\* What the writer's frame does to the connections the writer has not.
LEMMA OthersKept ==
  ASSUME TcpInv, NEW c \in Conn, pipe'[c] = pipe[c], Attended(c)' => Attended(c),
         UNCHANGED <<at, got, inC, recvC>>, ~Writing(c)'
  PROVE  PipeInv(c)'
<1>1. Reading(c)' <=> Reading(c)
  BY DEF Reading, Source
<1> QED
  BY <1>1, TcpFacts, PipeKept

LEMMA SendStays ==
  ASSUME TcpInv, outAt = "idle", outC # 0, outAt' = "write", left' = Words(f),
         UNCHANGED <<link, at, inC, recvC, got, f, backlog, outC, outOpen, pipe>>
  PROVE  TcpInv'
<1>1. TcpTypes /\ ReaderInv /\ BacklogInv /\ \A c \in Conn : PipeInv(c)
  BY TcpFacts
<1>2. Due' = <<f, 0>> /\ left' \in Seq(WordSet) /\ WriterInv'
  BY FrameBegins
<1>3. TcpTypes' /\ ReaderInv'
  BY <1>1, <1>2 DEF TcpTypes, ReaderInv
<1>4. \A c \in Conn : /\ Reading(c)' <=> Reading(c)
                      /\ Attended(c)' <=> Attended(c)
                      /\ Writing(c)' <=> Writing(c)
  BY DEF Reading, Attended, Source, Writing
<1>5. BacklogInv'
  <2>1. ASSUME NEW c \in ToSet(backlog) PROVE Waits(c)'
    <3>1. c \in Conn /\ Waits(c)
      BY <1>1, Waiting DEF TcpTypes, BacklogInv
    <3> QED
      BY <1>4, <3>1 DEF Waits, InListens
  <2> QED
    BY <1>1, <2>1 DEF BacklogInv
<1>6. ASSUME NEW c \in Conn PROVE PipeInv(c)'
  <2>1. PICK w : w = <<f, 0>> /\ w = Due'
    BY <1>2
  <2>2. PICK p \in Seq(WordSet) : p = pipe[c] /\ p = pipe'[c]
    BY <1>1 DEF TcpTypes
  <2>3. p # << >> => p[Len(p)] \in WordSet
    BY <2>2
  <2>4. Writing(c) /\ p # << >> => Follows(p[Len(p)], w)
    BY <1>1, <2>1, <2>2, <2>3, BeginsKept DEF PipeInv
  <2>5. Writing(c) /\ p = << >> /\ Attended(c) => Expected(c, w)
    BY <1>1, <2>1, <2>2, BeginsKept DEF PipeInv
  <2>6. \A v : Expected(c, v) => (IF Reading(c)' THEN v = <<got'[1][1], Len(got')>> ELSE v[2] = 0)
    BY <1>4 DEF Expected
  <2>7. Attended(c) /\ p # << >> => Expected(c, p[1])
    BY <1>1, <2>2 DEF PipeInv
  <2>8. Chained(p)
    BY <1>1, <2>2 DEF PipeInv
  <2> QED
    BY <1>4, <2>1, <2>2, <2>4, <2>5, <2>6, <2>7, <2>8 DEF PipeInv, Expected
<1> QED
  BY <1>2, <1>3, <1>5, <1>6 DEF TcpInv

\* A listening pin takes the first that waits, to whom nothing was sent.
LEMMA SendAccepts ==
  ASSUME TcpInv, ~InListens, outC = 0, Accepts, outC' = Head(backlog), outAt' = "write", left' = Words(f),
         UNCHANGED <<link, at, inC, recvC, got, f, outOpen, pipe>>
  PROVE  TcpInv'
<1>1. TcpTypes /\ ReaderInv /\ BacklogInv /\ \A c \in Conn : PipeInv(c)
  BY TcpFacts
<1>2. /\ backlog' \in Seq(Conn) /\ Distinct(backlog') /\ Head(backlog) \in Conn
      /\ ToSet(backlog') = ToSet(backlog) \ {Head(backlog)} /\ Head(backlog) \in ToSet(backlog)
  BY <1>1, WaitingTail DEF TcpTypes, BacklogInv, Accepts
<1>3. outC' \in Conn /\ outC' # 0 /\ Waits(outC')
  <2>1. PICK h \in Conn : h = Head(backlog) /\ h \in ToSet(backlog)
    BY <1>2
  <2>2. h # 0 /\ Waits(h)
    BY <1>1, <2>1, Waiting DEF TcpTypes, BacklogInv
  <2> QED
    BY <2>1, <2>2
<1>4. Due' = <<f, 0>> /\ left' \in Seq(WordSet) /\ WriterInv'
  BY <1>3, FrameBegins
<1>5. TcpTypes' /\ ReaderInv'
  BY <1>1, <1>2, <1>3, <1>4 DEF TcpTypes, ReaderInv
<1>6. \A c \in Conn : /\ Reading(c)' <=> Reading(c)
                      /\ Attended(c)' => Attended(c)
  BY <1>2 DEF Reading, Attended, Source
<1>7. BacklogInv'
  <2>1. ASSUME NEW c \in ToSet(backlog') PROVE Waits(c)'
    <3>1. c \in Conn /\ c \in ToSet(backlog) /\ c # outC'
      BY <1>2, <2>1, Waiting
    <3>2. Waits(c)
      BY <1>1, <3>1 DEF BacklogInv
    <3> QED
      BY <1>6, <3>1, <3>2 DEF Waits, InListens
  <2> QED
    BY <1>2, <2>1 DEF BacklogInv
<1>8. ASSUME NEW c \in Conn PROVE PipeInv(c)'
  <2>1. CASE c = outC'
    <3>1. pipe[c] = << >> /\ ~Reading(c)
      BY <1>3, <2>1 DEF Waits
    <3>2. Chained(<< >>)
      BY DEF Chained
    <3>3. Due'[2] = 0
      BY <1>4
    <3> QED
      BY <1>6, <3>1, <3>2, <3>3 DEF PipeInv, Expected
  <2>2. CASE c # outC'
    <3>1. ~Writing(c)'
      BY <2>2 DEF Writing
    <3> QED
      BY <1>6, <3>1, OthersKept
  <2> QED
    BY <2>1, <2>2
<1> QED
  BY <1>4, <1>5, <1>7, <1>8 DEF TcpInv

LEMMA SendConnects ==
  ASSUME TcpInv, InListens, outC = 0, NEW c \in Unused, Connects(c), outC' = c, outAt' = "write", left' = Words(f),
         UNCHANGED <<link, at, inC, recvC, got, f>>
  PROVE  TcpInv'
<1>1. TcpTypes /\ ReaderInv /\ BacklogInv /\ \A d \in Conn : PipeInv(d)
  BY TcpFacts
<1>2. /\ c \in Conn /\ c \notin {inC, outC, recvC} /\ c \notin ToSet(backlog)
      /\ backlog' \in Seq(Conn) /\ Distinct(backlog') /\ ToSet(backlog') = ToSet(backlog) \cup {c}
      /\ pipe' \in [Conn -> Seq(WordSet)] /\ pipe'[c] = << >>
      /\ \A d \in Conn : d # c => pipe'[d] = pipe[d] /\ (d \in outOpen' <=> d \in outOpen)
  BY NewConnection
<1>3. outC' # 0
  BY <1>2
<1>4. Due' = <<f, 0>> /\ left' \in Seq(WordSet) /\ WriterInv'
  BY <1>3, FrameBegins
<1>5. TcpTypes' /\ ReaderInv'
  BY <1>1, <1>2, <1>4 DEF TcpTypes, ReaderInv
<1>6. BacklogInv'
  <2>1. ASSUME NEW d \in ToSet(backlog') PROVE Waits(d)'
    <3>1. CASE d = c
      BY <1>2, <3>1 DEF Waits, InListens
    <3>2. CASE d # c
      <4>1. Waits(d)
        BY <1>1, <1>2, <2>1, <3>2 DEF BacklogInv
      <4> QED
        BY <4>1 DEF Waits, InListens
    <3> QED
      BY <3>1, <3>2
  <2> QED
    BY <1>2, <2>1 DEF BacklogInv
<1>7. ASSUME NEW d \in Conn PROVE PipeInv(d)'
  <2>1. CASE d = c
    <3>1. ~Reading(d)'
      BY <1>2, <2>1 DEF Reading, Source
    <3>2. Chained(<< >>)
      BY DEF Chained
    <3>3. Due'[2] = 0
      BY <1>4
    <3> QED
      BY <1>2, <2>1, <3>1, <3>2, <3>3 DEF PipeInv, Expected
  <2>2. CASE d # c
    <3>1. ~Writing(d)' /\ (Attended(d)' => Attended(d))
      BY <1>2, <2>2 DEF Writing, Attended, Source
    <3> QED
      BY <1>2, <2>2, <3>1, OthersKept
  <2> QED
    BY <2>1, <2>2
<1> QED
  BY <1>4, <1>5, <1>6, <1>7 DEF TcpInv

\* Without a connection the frame is dropped.
LEMMA SendNothing ==
  ASSUME TcpInv, outAt = "idle", NextFrame, left' = << >>,
         UNCHANGED <<link, at, inC, recvC, got, backlog, outC, outOpen, pipe>>
  PROVE  TcpInv'
<1>1. TcpTypes /\ ReaderInv /\ BacklogInv /\ \A c \in Conn : PipeInv(c)
  BY TcpFacts
<1>2. f' \in Frames /\ outAt' = "idle"
  BY <1>1, NextIsFrame DEF NextFrame, TcpTypes
<1>3. TcpTypes' /\ ReaderInv' /\ WriterInv'
  <2>1. << >> \in Seq(WordSet)
    OBVIOUS
  <2> QED
    BY <1>1, <1>2, <2>1 DEF TcpTypes, ReaderInv, WriterInv
<1>4. Due' = Due
  BY <1>2 DEF Due
<1>5. \A c \in Conn : /\ Reading(c)' <=> Reading(c)
                      /\ Attended(c)' <=> Attended(c)
                      /\ Writing(c)' <=> Writing(c)
  BY DEF Reading, Attended, Source, Writing
<1>6. BacklogInv'
  <2>1. ASSUME NEW c \in ToSet(backlog) PROVE Waits(c)'
    <3>1. c \in Conn /\ Waits(c)
      BY <1>1, Waiting DEF TcpTypes, BacklogInv
    <3> QED
      BY <1>5, <3>1 DEF Waits, InListens
  <2> QED
    BY <1>1, <2>1 DEF BacklogInv
<1>7. \A c \in Conn : PipeInv(c)'
  BY <1>1, <1>4, <1>5, PipeKept
<1> QED
  BY <1>3, <1>6, <1>7 DEF TcpInv

LEMMA TcpSendOpenStep == ASSUME TcpInv, TcpSendOpen PROVE TcpInv'
<1>1. outAt = "idle" /\ UNCHANGED <<link, at, inC, recvC, got>>
  BY DEF TcpSendOpen, writerKeeps
<1>2. outAt' = "write" => left' = Words(f)
  BY DEF TcpSendOpen
<1>3. CASE outC # 0 /\ outAt' = "write" /\ UNCHANGED <<f, lsock, backlog, outC, inOpen, outOpen, pipe>>
  BY <1>1, <1>2, <1>3, SendStays
<1>4. CASE /\ outC = 0 /\ ~InListens /\ UNCHANGED <<inOpen, outOpen, pipe>>
           /\ Accepts /\ outC' = Head(backlog) /\ outAt' = "write" /\ UNCHANGED f
  BY <1>1, <1>2, <1>4, SendAccepts
<1>5. CASE NextFrame /\ UNCHANGED <<backlog, outC, outOpen, pipe>>
  <2>1. left' = << >>
    BY <1>5 DEF TcpSendOpen, NextFrame
  <2> QED
    BY <1>1, <1>5, <2>1, SendNothing
<1>6. CASE outC = 0 /\ InListens /\ \E c \in Unused : Connects(c) /\ outC' = c /\ outAt' = "write" /\ UNCHANGED f
  <2>1. PICK c \in Unused : Connects(c) /\ outC' = c /\ outAt' = "write" /\ UNCHANGED f
    BY <1>6
  <2> QED
    BY <1>1, <1>2, <1>6, <2>1, SendConnects
<1> QED
  BY <1>3, <1>4, <1>5, <1>6 DEF TcpSendOpen, NoClient, Refused

\* A part of the frame goes to the connection.
LEMMA TcpSendStep == ASSUME TcpInv, TcpSend PROVE TcpInv'
<1>1. TcpTypes /\ ReaderInv /\ WriterInv /\ BacklogInv /\ \A c \in Conn : PipeInv(c)
  BY TcpFacts
<1>2. /\ outAt = "write" /\ outC \in outOpen
      /\ UNCHANGED <<link, at, inC, recvC, got, backlog, outC, outOpen>>
      /\ IF left' = << >> THEN NextFrame ELSE UNCHANGED <<outAt, f>>
  BY DEF TcpSend, writerKeeps
<1>3. PICK n \in 1 .. Len(left) : /\ pipe' = [pipe EXCEPT ![outC] = @ \o SubSeq(left, 1, n)]
                                  /\ left' = SubSeq(left, n + 1, Len(left))
  BY DEF TcpSend
<1>4. PICK c \in Conn : c = outC /\ c # 0
  BY <1>1, <1>2 DEF TcpTypes, WriterInv
<1>5. PICK p \in Seq(WordSet) : p = pipe[c]
  BY <1>1 DEF TcpTypes
<1>6. PICK l \in Seq(WordSet) : l = left
  BY <1>1 DEF TcpTypes
<1>7. PICK m \in Nat, k \in Nat : m = Size(f) /\ k = Len(l) /\ k \in 1 .. m /\ n \in 1 .. k
  <2>1. Len(l) \in 1 .. Size(f) /\ n \in 1 .. Len(l)
    BY <1>1, <1>2, <1>3, <1>6 DEF WriterInv
  <2>2. f \in Frames
    BY <1>1 DEF TcpTypes
  <2>3. Size(f) \in Nat
    BY <2>2, Sizes
  <2> QED
    BY <2>1, <2>3
<1>8. \A i \in 1 .. k : l[i] = <<f, m - k + (i - 1)>>
  BY <1>1, <1>2, <1>6, <1>7 DEF WriterInv
<1>9. PICK s : s = SubSeq(l, 1, n)
  OBVIOUS
<1>10. PICK r : r = SubSeq(l, n + 1, Len(l))
  OBVIOUS
<1>11. /\ s \in Seq(WordSet) /\ Len(s) = n /\ \A i \in 1 .. n : s[i] = l[i]
       /\ r \in Seq(WordSet) /\ Len(r) = k - n /\ \A j \in 1 .. k - n : r[j] = l[n + j]
  BY <1>6, <1>7, <1>9, <1>10, Cut
<1>12. PICK q : q = p \o s
  OBVIOUS
<1>13. /\ q \in Seq(WordSet) /\ Len(q) = Len(p) + n /\ Len(p) \in Nat
       /\ \A i \in 1 .. Len(p) : q[i] = p[i]
       /\ \A i \in 1 .. n : q[Len(p) + i] = s[i]
  <2>1. s \in Seq(WordSet) /\ Len(s) = n
    BY <1>11
  <2>2. /\ p \o s \in Seq(WordSet) /\ Len(p \o s) = Len(p) + Len(s) /\ Len(p) \in Nat
        /\ \A i \in 1 .. Len(p) : (p \o s)[i] = p[i]
        /\ \A i \in 1 .. Len(s) : (p \o s)[Len(p) + i] = s[i]
    BY <2>1, Joined
  <2> QED
    BY <1>12, <2>1, <2>2
<1>14. pipe' \in [Conn -> Seq(WordSet)] /\ pipe'[c] = q /\ \A d \in Conn : d # c => pipe'[d] = pipe[d]
  BY <1>1, <1>3, <1>4, <1>5, <1>6, <1>9, <1>12, <1>13 DEF TcpTypes
<1>15. left' = r
  BY <1>3, <1>6, <1>10
<1>16. Due = l[1]
  <2>1. Due = <<f, m - k>> /\ 1 \in 1 .. k /\ m - k + (1 - 1) = m - k
    BY <1>2, <1>6, <1>7 DEF Due
  <2> QED
    BY <1>8, <2>1
<1>17. f' \in Frames /\ left' \in Seq(WordSet) /\ WriterInv' /\ Follows(l[n], Due')
  <2>1. CASE n = k
    <3>1. r = << >> /\ Len(r) = 0
      BY <1>7, <1>11, <2>1
    <3>2. NextFrame /\ left' = << >> /\ outAt' = "idle" /\ f' \in Frames
      BY <1>1, <1>2, <1>15, <3>1, NextIsFrame DEF NextFrame, TcpTypes
    <3>3. Due' = <<0, 0>>
      BY <3>2 DEF Due
    <3>4. l[n] = <<f, m - 1>>
      <4>1. n \in 1 .. k /\ m - k + (n - 1) = m - 1
        BY <1>7, <2>1
      <4> QED
        BY <1>8, <4>1
    <3>5. Follows(l[n], Due')
      BY <1>7, <3>3, <3>4 DEF Follows
    <3>6. << >> \in Seq(WordSet)
      OBVIOUS
    <3> QED
      BY <3>2, <3>5, <3>6 DEF WriterInv
  <2>2. CASE n # k
    <3>1. k - n \in 1 .. m /\ r # << >>
      BY <1>7, <1>11, <2>2
    <3>2. outAt' = "write" /\ f' = f /\ left' = r /\ outC' = outC /\ outC # 0
      BY <1>2, <1>4, <1>15, <3>1
    <3>3. \A j \in 1 .. k - n : r[j] = <<f, m - (k - n) + (j - 1)>>
      <4>1. ASSUME NEW j \in 1 .. k - n PROVE r[j] = <<f, m - (k - n) + (j - 1)>>
        <5>1. n + j \in 1 .. k /\ m - k + (n + j - 1) = m - (k - n) + (j - 1)
          BY <1>7
        <5>2. PICK i \in 1 .. k : i = n + j
          BY <5>1
        <5>3. r[j] = l[i] /\ l[i] = <<f, m - k + (i - 1)>>
          BY <1>8, <1>11, <5>2
        <5> QED
          BY <5>1, <5>2, <5>3
      <4> QED
        BY <4>1
    <3>4. Due' = <<f, m - (k - n)>>
      BY <1>7, <1>11, <3>2 DEF Due
    <3>5. l[n] = <<f, m - k + (n - 1)>> /\ m - k + (n - 1) + 1 = m - (k - n)
      BY <1>7, <1>8
    <3>6. Follows(l[n], Due')
      BY <3>4, <3>5 DEF Follows
    <3>7. WriterInv'
      BY <1>7, <1>11, <3>1, <3>2, <3>3 DEF WriterInv
    <3> QED
      BY <1>1, <1>11, <3>2, <3>6, <3>7 DEF TcpTypes
  <2> QED
    BY <2>1, <2>2
<1>18. TcpTypes' /\ ReaderInv'
  BY <1>1, <1>2, <1>14, <1>17 DEF TcpTypes, ReaderInv
<1>19. \A d \in Conn : /\ Reading(d)' <=> Reading(d)
                       /\ Attended(d)' <=> Attended(d)
                       /\ Writing(d)' <=> Writing(d)
  BY <1>2 DEF Reading, Attended, Source, Writing
<1>20. BacklogInv'
  <2>1. ASSUME NEW d \in ToSet(backlog) PROVE Waits(d)'
    <3>1. d \in Conn /\ Waits(d)
      BY <1>1, Waiting DEF TcpTypes, BacklogInv
    <3>2. ~InListens => pipe'[d] = pipe[d]
      BY <1>4, <1>14, <3>1 DEF Waits
    <3> QED
      BY <1>2, <1>19, <3>1, <3>2 DEF Waits, InListens
  <2> QED
    BY <1>1, <1>2, <2>1 DEF BacklogInv
<1>21. ASSUME NEW d \in Conn, d # c PROVE PipeInv(d)'
  BY <1>2, <1>4, <1>14, <1>19, <1>21, OthersKept DEF Writing
<1>22. Chained(q)
  <2>1. Chained(p) /\ (p # << >> => Follows(p[Len(p)], l[1]))
    BY <1>1, <1>2, <1>4, <1>5, <1>16 DEF PipeInv, Writing
  <2>2. \A i \in 1 .. n - 1 : Follows(l[i], l[i + 1])
    <3>1. ASSUME NEW i \in 1 .. n - 1 PROVE Follows(l[i], l[i + 1])
      <4>1. i \in 1 .. k /\ i + 1 \in 1 .. k /\ m - k + (i - 1) + 1 = m - k + (i + 1 - 1)
        BY <1>7
      <4>2. l[i] = <<f, m - k + (i - 1)>> /\ l[i + 1] = <<f, m - k + (i + 1 - 1)>>
        BY <1>8, <4>1
      <4> QED
        BY <4>1, <4>2 DEF Follows
    <3> QED
      BY <3>1
  <2>3. ASSUME NEW i \in 1 .. Len(q) - 1 PROVE Follows(q[i], q[i + 1])
    <3>1. PICK h \in Nat : h = Len(p) /\ Len(q) = h + n /\ i \in 1 .. h + n - 1
      BY <1>13
    <3>2. CASE i < h
      <4>1. i \in 1 .. h - 1 /\ i \in 1 .. h /\ i + 1 \in 1 .. h
        BY <3>1, <3>2
      <4> QED
        BY <1>13, <2>1, <3>1, <4>1 DEF Chained
    <3>3. CASE i = h
      <4>1. h \in 1 .. h /\ 1 \in 1 .. n /\ p # << >>
        BY <1>7, <3>1, <3>3
      <4>2. q[h] = p[h] /\ q[h + 1] = l[1]
        BY <1>11, <1>13, <3>1, <4>1
      <4> QED
        BY <2>1, <3>1, <3>3, <4>1, <4>2
    <3>4. CASE i > h
      <4>1. PICK j \in Nat : i = h + j /\ j \in 1 .. n - 1
        <5>1. i - h \in Nat /\ i = h + (i - h) /\ i - h \in 1 .. n - 1
          BY <3>1, <3>4, <1>7
        <5> QED
          BY <5>1
      <4>2. j \in 1 .. n /\ j + 1 \in 1 .. n /\ i + 1 = h + (j + 1)
        BY <1>7, <3>1, <4>1
      <4>3. q[i] = l[j] /\ q[i + 1] = l[j + 1]
        BY <1>11, <1>13, <3>1, <4>1, <4>2
      <4> QED
        BY <2>2, <4>1, <4>3
    <3> QED
      BY <3>1, <3>2, <3>3, <3>4
  <2> QED
    BY <2>3 DEF Chained
<1>23. Attended(c) => Expected(c, q[1])
  <2>1. CASE p = << >>
    <3>1. Len(p) = 0 /\ 1 \in 1 .. n /\ q[0 + 1] = s[1] /\ s[1] = l[1]
      BY <1>7, <1>11, <1>13, <2>1
    <3>2. Attended(c) => Expected(c, Due)
      BY <1>1, <1>2, <1>4, <1>5, <2>1 DEF PipeInv, Writing
    <3>3. q[1] = Due
      BY <1>16, <3>1
    <3> QED
      BY <3>2, <3>3 DEF Expected
  <2>2. CASE p # << >>
    <3>1. 1 \in 1 .. Len(p)
      BY <1>5, <2>2
    <3>2. q[1] = p[1]
      BY <1>13, <3>1
    <3> QED
      BY <1>1, <1>5, <2>2, <3>2 DEF PipeInv
  <2> QED
    BY <2>1, <2>2
<1>24. q # << >> /\ q[Len(q)] = l[n]
  <2>1. n \in 1 .. n /\ Len(p) + n # 0
    BY <1>7, <1>13
  <2> QED
    BY <1>11, <1>13, <2>1
<1>25. PipeInv(c)'
  <2>1. Attended(c)' => (IF Reading(c)' THEN q[1] = <<got'[1][1], Len(got')>> ELSE q[1][2] = 0)
    BY <1>2, <1>19, <1>23 DEF Expected
  <2> QED
    BY <1>14, <1>17, <1>22, <1>24, <2>1 DEF PipeInv, Expected
<1> QED
  BY <1>17, <1>18, <1>20, <1>21, <1>25 DEF TcpInv

\* The writer closes: nobody writes on its connections any more.
LEMMA WriterCloses ==
  ASSUME TcpInv, OutCloses, outAt' = "idle", f' \in Frames,
         UNCHANGED <<link, at, inC, recvC, got, pipe>>
  PROVE  TcpInv'
<1>1. TcpTypes /\ ReaderInv /\ BacklogInv /\ \A c \in Conn : PipeInv(c)
  BY TcpFacts
<1>2. outC' = 0 /\ left' = << >> /\ (backlog' = backlog \/ (~InListens /\ backlog' = << >>))
  BY DEF OutCloses, ClosesListener
<1>3. << >> \in Seq(Conn) /\ << >> \in Seq(WordSet) /\ ToSet(<< >>) = {} /\ Distinct(<< >>)
  BY DEF ToSet, Distinct
<1>4. TcpTypes' /\ ReaderInv' /\ WriterInv'
  BY <1>1, <1>2, <1>3 DEF TcpTypes, ReaderInv, WriterInv
<1>5. \A c \in Conn : /\ Reading(c)' <=> Reading(c)
                      /\ Attended(c)' => Attended(c)
                      /\ ~Writing(c)'
  BY <1>2, <1>3, TcpAssumption DEF Reading, Attended, Source, Writing, Conn
<1>6. BacklogInv'
  <2>1. ASSUME NEW c \in ToSet(backlog') PROVE Waits(c)'
    <3>1. c \in Conn /\ c # 0 /\ Waits(c)
      BY <1>1, <1>2, <1>3, <2>1, Waiting DEF TcpTypes, BacklogInv
    <3> QED
      BY <1>2, <1>5, <3>1 DEF Waits, InListens
  <2> QED
    BY <1>1, <1>2, <1>3, <2>1 DEF BacklogInv
<1>7. \A c \in Conn : PipeInv(c)'
  BY <1>5, OthersKept
<1> QED
  BY <1>4, <1>6, <1>7 DEF TcpInv

LEMMA TcpSendFailsStep == ASSUME TcpInv, TcpSendFails PROVE TcpInv'
<1>1. f' \in Frames
  BY TcpFacts, NextIsFrame DEF TcpSendFails, NextFrame, TcpTypes
<1> QED
  BY <1>1, WriterCloses DEF TcpSendFails, NextFrame, writerKeeps

\* A connection that breaks loses its words, and its two ends see it.
LEMMA TcpBreakStep == ASSUME TcpInv, TcpBreak PROVE TcpInv'
<1>1. UNCHANGED <<link, at, inC, recvC, got>>
  BY DEF TcpBreak, writerKeeps
<1>2. CASE OutCloses /\ outAt' = "idle" /\ f' = 0 /\ UNCHANGED pipe
  <2>1. f' \in Frames
    BY <1>2 DEF Frames, FrameMod
  <2> QED
    BY <1>1, <1>2, <2>1, WriterCloses
<1>3. CASE /\ outC # 0 /\ outOpen' = outOpen \ {outC}
           /\ pipe' = [pipe EXCEPT ![outC] = << >>]
           /\ UNCHANGED <<outAt, f, lsock, backlog, outC, left>>
  <2>1. TcpTypes /\ ReaderInv /\ WriterInv /\ BacklogInv /\ \A c \in Conn : PipeInv(c)
    BY TcpFacts
  <2>2. PICK c \in Conn : c = outC
    BY <1>3, <2>1 DEF TcpTypes
  <2>3. << >> \in Seq(WordSet)
    OBVIOUS
  <2>4. pipe' \in [Conn -> Seq(WordSet)] /\ pipe'[c] = << >> /\ \A d \in Conn : d # c => pipe'[d] = pipe[d]
    BY <1>3, <2>1, <2>2, <2>3 DEF TcpTypes
  <2>5. TcpTypes' /\ ReaderInv' /\ WriterInv'
    BY <1>1, <1>3, <2>1, <2>4 DEF TcpTypes, ReaderInv, WriterInv
  <2>6. \A d \in Conn : /\ Reading(d)' <=> Reading(d)
                        /\ Attended(d)' <=> Attended(d)
                        /\ ~Writing(d)'
    BY <1>1, <1>3, <2>2 DEF Reading, Attended, Source, Writing
  <2>7. BacklogInv'
    <3>1. ASSUME NEW d \in ToSet(backlog) PROVE Waits(d)'
      <4>1. d \in Conn /\ Waits(d)
        BY <2>1, Waiting DEF TcpTypes, BacklogInv
      <4> QED
        BY <1>1, <1>3, <2>2, <2>4, <2>6, <4>1 DEF Waits, InListens
    <3> QED
      BY <1>3, <2>1, <3>1 DEF BacklogInv
  <2>8. ASSUME NEW d \in Conn PROVE PipeInv(d)'
    <3>1. CASE d = c
      BY <2>4, <2>6, <3>1, PipeEmpty
    <3>2. CASE d # c
      BY <1>1, <2>4, <2>6, <3>2, OthersKept
    <3> QED
      BY <3>1, <3>2
  <2> QED
    BY <2>5, <2>7, <2>8 DEF TcpInv
<1> QED
  BY <1>2, <1>3 DEF TcpBreak

(***************************************************************************)
(* Shared memory.  A slot is where the writer puts one frame of the size   *)
(* its segment is made for.                                                *)
(***************************************************************************)
Slots == 0 .. NbSeg - 1
W == WordSet \cup {NONE}
Mems(n) == [0 .. n - 1 -> W]
SegSet == [size : {NbSeg * 2, NbSeg * 3}, mem : {<< >>} \cup Mems(NbSeg * 2) \cup Mems(NbSeg * 3)]
MsgSet == [session : Nat, size : Nat, offset : Nat, f : Frames, age : 0 .. NbSeg]

ShmTypes ==
  /\ segs \in Seq(SegSet) /\ live \in Nat /\ attached \in Nat /\ wr \in Slots /\ copied \in Nat
  /\ f \in Frames /\ session \in Nat /\ msgs \in Seq(MsgSet) /\ cur \in MsgSet

SegInv ==
  /\ live <= Len(segs) /\ attached <= Len(segs) /\ (live # 0 => live = Len(segs))
  /\ \A n \in {live, attached} : n # 0 => segs[n].mem \in Mems(segs[n].size)

\* The first n words of the slot the writer is at are of its frame.
Filled(n) == \A i \in 0 .. n - 1 : segs[live].mem[wr * Size(f) + i] = <<f, i>>
Begun == IF outAt \in {"copy", "notify"} THEN 0 ELSE 1

WriteInv ==
  /\ outAt \in {"copy", "notify"} => live # 0
  /\ outAt = "copy" /\ Slot = Size(f) => copied <= Size(f) /\ Filled(copied)
  /\ outAt = "notify" => Slot = Size(f) /\ Filled(Size(f))

\* How many frames the writer has put in the ring since it was at a slot.
Dist(k) == IF wr > k THEN wr - k ELSE wr - k + NbSeg

Valid(m) == \A i \in 0 .. Size(m.f) - 1 : segs[m.session].mem[m.offset + i] = <<m.f, i>>

\* A message tells a place in a segment that has its frame until the writer comes
\* round, which its age counts.
Sound(m) ==
  /\ m.session \in 1 .. Len(segs) /\ m.size = NbSeg * Size(m.f) /\ segs[m.session].size = m.size
  /\ m.age < NbSeg /\ m.session \in {live, attached} => Valid(m)
  /\ \E k \in Slots : /\ m.offset = k * Size(m.f)
                      /\ m.age < NbSeg /\ m.session = live => Dist(k) <= m.age + Begun

CopyInv ==
  at = "copy" /\ ~Excused =>
    /\ total = Size(cur.f) /\ words \in Seq(WordSet) /\ Len(words) <= total
    /\ \A i \in 1 .. Len(words) : words[i] = <<cur.f, i - 1>>

MsgsSound == \A i \in 1 .. Len(msgs) : Sound(msgs[i])

ReadInv ==
  /\ attached # 0 => session <= attached
  /\ at \in {"headers", "copy"} => attached # 0 /\ cur.session <= attached /\ Sound(cur)
  /\ CopyInv
  /\ at # "copy" => words = << >>
  /\ MsgsSound

ShmInv == ShmTypes /\ SegInv /\ WriteInv /\ ReadInv

LEMMA ShmFacts == ASSUME ShmInv PROVE ShmTypes /\ SegInv /\ WriteInv /\ ReadInv
BY DEF ShmInv

LEMMA Parts == ASSUME NEW n \in {2, 3}, NEW z, z = NbSeg * n PROVE z \in Nat /\ z \div NbSeg = n
<1>1. NbSeg \in Nat /\ NbSeg > 0
  BY ShmAssumption
<1>2. CASE n = 2
  BY <1>1, <1>2
<1>3. CASE n = 3
  BY <1>1, <1>3
<1> QED
  BY <1>2, <1>3

LEMMA Inside ==
  ASSUME NEW n \in {2, 3}, NEW k \in Slots, NEW i \in 0 .. n - 1
  PROVE  k * n + i \in 0 .. NbSeg * n - 1
<1>1. NbSeg \in Nat /\ NbSeg > 0 /\ k \in Nat /\ k < NbSeg /\ i \in Nat /\ i < n
  BY ShmAssumption DEF Slots
<1>2. CASE n = 2
  BY <1>1, <1>2
<1>3. CASE n = 3
  BY <1>1, <1>3
<1> QED
  BY <1>2, <1>3

LEMMA Apart ==
  ASSUME NEW n \in {2, 3}, NEW k \in Slots, NEW l \in Slots, k # l, NEW i \in 0 .. n - 1, NEW j \in 0 .. n - 1
  PROVE  k * n + i # l * n + j
<1>1. k \in Nat /\ l \in Nat /\ i \in Nat /\ i < n /\ j \in Nat /\ j < n
  BY DEF Slots
<1>2. CASE n = 2
  BY <1>1, <1>2
<1>3. CASE n = 3
  BY <1>1, <1>3
<1> QED
  BY <1>2, <1>3

LEMMA SegFacts ==
  ASSUME NEW g \in SegSet
  PROVE  g.size \in {NbSeg * 2, NbSeg * 3} /\ g.size \in Nat
<1>1. NbSeg \in Nat
  BY ShmAssumption
<1>2. g.size \in {NbSeg * 2, NbSeg * 3}
  BY DEF SegSet
<1> QED
  BY <1>1, <1>2

LEMMA KeptFacts ==
  ASSUME NEW s \in Seq(SegSet), NEW used
  PROVE  /\ Kept(s, used) \in Seq(SegSet) /\ Len(Kept(s, used)) = Len(s)
         /\ \A n \in 1 .. Len(s) : /\ Kept(s, used)[n].size = s[n].size
                                   /\ n \in used => Kept(s, used)[n] = s[n]
<1>1. PICK l \in Nat : l = Len(s) /\ DOMAIN s = 1 .. l
  OBVIOUS
<1>2. \A n \in 1 .. l : s[n] \in SegSet
  BY <1>1
<1>3. \A g \in SegSet : /\ [g EXCEPT !.mem = << >>] \in SegSet
                        /\ [g EXCEPT !.mem = << >>].size = g.size
  BY DEF SegSet
<1>4. PICK t : t = Kept(s, used)
  OBVIOUS
<1>5. t = [n \in 1 .. l |-> IF n \in used THEN s[n] ELSE [s[n] EXCEPT !.mem = << >>]]
  BY <1>1, <1>4 DEF Kept
<1>6. /\ t \in [1 .. l -> SegSet]
      /\ \A n \in 1 .. l : t[n].size = s[n].size /\ (n \in used => t[n] = s[n])
  BY <1>2, <1>3, <1>5
<1>7. t \in Seq(SegSet) /\ Len(t) = l
  BY <1>6
<1> QED
  BY <1>1, <1>4, <1>6, <1>7

WordPut(t, s, l, i, v) == t = [s EXCEPT ![l].mem[i] = v]

LEMMA Written ==
  ASSUME NEW s \in Seq(SegSet), NEW l \in 1 .. Len(s), s[l].mem \in Mems(s[l].size), s[l].size \in Nat,
         NEW i \in 0 .. s[l].size - 1, NEW v \in W, NEW t, WordPut(t, s, l, i, v)
  PROVE  /\ t \in Seq(SegSet) /\ Len(t) = Len(s)
         /\ \A n \in 1 .. Len(s) : t[n].size = s[n].size /\ (n # l => t[n] = s[n])
         /\ t[l].mem \in Mems(s[l].size) /\ t[l].mem[i] = v
         /\ \A j \in 0 .. s[l].size - 1 : j # i => t[l].mem[j] = s[l].mem[j]
<1>1. PICK g \in SegSet : g = s[l]
  OBVIOUS
<1>2. PICK h : h = [g.mem EXCEPT ![i] = v]
  OBVIOUS
<1>3. h \in Mems(g.size) /\ h[i] = v /\ \A j \in 0 .. g.size - 1 : j # i => h[j] = g.mem[j]
  BY <1>1, <1>2 DEF Mems
<1>4. PICK e : e = [g EXCEPT !.mem = h]
  OBVIOUS
<1>5. e \in SegSet /\ e.size = g.size /\ e.mem = h
  BY <1>3, <1>4 DEF SegSet
<1>6. t = [s EXCEPT ![l] = e]
  BY <1>1, <1>2, <1>4 DEF WordPut
<1>7. t \in Seq(SegSet) /\ Len(t) = Len(s) /\ t[l] = e /\ \A n \in 1 .. Len(s) : n # l => t[n] = s[n]
  BY <1>5, <1>6
<1> QED
  BY <1>1, <1>3, <1>5, <1>7

\* A message stays sound as long as its segment is not written and its frame ages
\* with every step of the writer.
LEMMA SoundKept ==
  ASSUME ShmTypes, NEW m \in MsgSet, NEW o \in MsgSet, Sound(m), segs' \in Seq(SegSet),
         o.session = m.session, o.size = m.size, o.offset = m.offset, o.f = m.f,
         Len(segs) <= Len(segs'), segs'[m.session].size = segs[m.session].size,
         o.age < NbSeg => m.age < NbSeg,
         m.session \in {live', attached'} =>
           m.session \in {live, attached} /\ segs'[m.session].mem = segs[m.session].mem,
         o.age < NbSeg /\ m.session = live' =>
           /\ m.session = live
           /\ \A k \in Slots : Dist(k) <= m.age + Begun => Dist(k)' <= o.age + Begun'
  PROVE  Sound(o)'
<1>1. o.session \in 1 .. Len(segs')
  BY DEF Sound
<1>2. o.size = NbSeg * Size(o.f) /\ segs'[o.session].size = o.size
  BY DEF Sound
<1>3. ASSUME o.age < NbSeg, o.session \in {live', attached'}
      PROVE \A i \in 0 .. Size(o.f) - 1 : segs'[o.session].mem[o.offset + i] = <<o.f, i>>
  <2>1. Valid(m)
    BY <1>3 DEF Sound
  <2> QED
    BY <1>3, <2>1 DEF Valid
<1>4. PICK k \in Slots : /\ m.offset = k * Size(m.f)
                         /\ m.age < NbSeg /\ m.session = live => Dist(k) <= m.age + Begun
  BY DEF Sound
<1>5. o.offset = k * Size(o.f) /\ (o.age < NbSeg /\ o.session = live' => Dist(k)' <= o.age + Begun')
  BY <1>4
<1> QED
  BY <1>1, <1>2, <1>3, <1>5 DEF Sound, Valid

\* Reading changes neither the writer nor what it wrote.
LEMMA SoundForReader ==
  ASSUME ShmTypes, NEW m \in MsgSet, Sound(m), segs' \in Seq(SegSet), Len(segs') = Len(segs),
         \A n \in 1 .. Len(segs) : /\ segs'[n].size = segs[n].size
                                   /\ n \in {live', attached'} => n \in {live, attached} /\ segs'[n].mem = segs[n].mem,
         live' \in {live, 0}, live' = live => wr' = wr, Begun <= Begun'
  PROVE  Sound(m)'
<1>1. m.session \in 1 .. Len(segs)
  BY DEF Sound
<1>2. ASSUME m.session = live', NEW k \in Slots, Dist(k) <= m.age + Begun PROVE Dist(k)' <= m.age + Begun'
  <2>1. live' = live /\ wr' = wr
    BY <1>1, <1>2
  <2>2. Dist(k)' = Dist(k)
    BY <2>1 DEF Dist
  <2>3. PICK d, a, b, c : d = Dist(k) /\ a = m.age /\ b = Begun /\ c = Begun'
    OBVIOUS
  <2>4. d \in Int /\ a \in Int /\ b \in Int /\ c \in Int /\ d <= a + b /\ b <= c
    BY <1>2, <2>3, ShmAssumption DEF ShmTypes, MsgSet, Begun, Dist, Slots
  <2>5. d <= a + c
    BY <2>4
  <2> QED
    BY <2>2, <2>3, <2>5
<1>3. m.session = live' => m.session = live
  BY <1>1
<1> QED
  BY <1>1, <1>2, <1>3, SoundKept

LEMMA ShmStart == ShmInit /\ at = "loop" /\ outAt = "idle" /\ f = 0 => ShmInv
<1> SUFFICES ASSUME ShmInit, at = "loop", outAt = "idle", f = 0 PROVE ShmInv
  OBVIOUS
<1>1. NbSeg \in Nat /\ NbSeg > 0
  BY ShmAssumption
<1>2. << >> \in Seq(SegSet) /\ << >> \in Seq(MsgSet) /\ Len(<< >>) = 0
  OBVIOUS
<1>3. 0 \in Slots /\ 0 \in 0 .. NbSeg /\ 0 \in Frames
  BY <1>1 DEF Slots, Frames, FrameMod
<1>4. NoMessage \in MsgSet
  BY <1>3 DEF NoMessage, MsgSet
<1>5. ShmTypes
  BY <1>2, <1>3, <1>4 DEF ShmInit, ShmTypes
<1>6. SegInv /\ WriteInv
  BY <1>2 DEF ShmInit, SegInv, WriteInv
<1>7. ReadInv
  BY <1>2 DEF ShmInit, ReadInv, MsgsSound, CopyInv
<1> QED
  BY <1>5, <1>6, <1>7 DEF ShmInv

(***************************************************************************)
(* Shared memory: the writer.                                              *)
(***************************************************************************)
LEMMA NewSegmentFacts ==
  ASSUME ShmTypes, SegInv, NEW n \in {2, 3}, NewSegment(n)
  PROVE  /\ live' = Len(segs) + 1 /\ wr' = 0 /\ segs' \in Seq(SegSet) /\ Len(segs') = Len(segs) + 1
         /\ \A i \in 1 .. Len(segs) : /\ segs'[i].size = segs[i].size
                                      /\ i = attached => segs'[i] = segs[i]
         /\ segs'[live'].size = NbSeg * n /\ segs'[live'].mem \in Mems(NbSeg * n)
<1>1. PICK l \in Nat : l = Len(segs)
  BY DEF ShmTypes
<1>2. PICK g : g = [size |-> NbSeg * n, mem |-> [i \in 0 .. NbSeg * n - 1 |-> NONE]]
  OBVIOUS
<1>3. g \in SegSet /\ g.size = NbSeg * n /\ g.mem \in Mems(NbSeg * n)
  BY <1>2 DEF SegSet, Mems, W
<1>4. PICK s : s = Append(segs, g)
  OBVIOUS
<1>5. s \in Seq(SegSet) /\ Len(s) = l + 1 /\ s[l + 1] = g /\ \A i \in 1 .. l : s[i] = segs[i]
  BY <1>1, <1>3, <1>4 DEF ShmTypes
<1>6. live' = l + 1 /\ wr' = 0
  BY <1>1 DEF NewSegment
<1>7. PICK used : used = {attached, l + 1}
  OBVIOUS
<1>8. segs' = Kept(s, used)
  BY <1>2, <1>4, <1>6, <1>7 DEF NewSegment
<1>9. /\ segs' \in Seq(SegSet) /\ Len(segs') = l + 1
      /\ \A i \in 1 .. l + 1 : segs'[i].size = s[i].size /\ (i \in used => segs'[i] = s[i])
  BY <1>5, <1>8, KeptFacts
<1>10. l + 1 \in 1 .. l + 1 /\ \A i \in 1 .. l : i \in 1 .. l + 1
  BY <1>1
<1> QED
  BY <1>1, <1>3, <1>5, <1>6, <1>7, <1>9, <1>10

LEMMA OlderFacts ==
  ASSUME NEW m \in MsgSet
  PROVE  /\ Older(m) \in MsgSet /\ Older(m).session = m.session /\ Older(m).size = m.size
         /\ Older(m).offset = m.offset /\ Older(m).f = m.f
         /\ Older(m).age < NbSeg => m.age < NbSeg /\ Older(m).age = m.age + 1
         /\ m.age <= Older(m).age
<1>1. NbSeg \in Nat /\ m.age \in 0 .. NbSeg
  BY ShmAssumption DEF MsgSet
<1>2. PICK a : a = (IF m.age < NbSeg THEN m.age + 1 ELSE m.age)
  OBVIOUS
<1>3. a \in 0 .. NbSeg /\ m.age <= a /\ (a < NbSeg => m.age < NbSeg /\ a = m.age + 1)
  BY <1>1, <1>2
<1>4. Older(m) = [m EXCEPT !.age = a]
  BY <1>2 DEF Older
<1> QED
  BY <1>3, <1>4 DEF MsgSet

\* The writer begins a frame: those in the ring are older.
LEMMA ShmBeginStep == ASSUME ShmInv, ShmSendBegin PROVE ShmInv'
<1>1. ShmTypes /\ SegInv /\ WriteInv /\ ReadInv
  BY ShmFacts
<1>2. /\ outAt = "idle" /\ outAt' = "copy" /\ copied' = 0
      /\ msgs' = [i \in DOMAIN msgs |-> Older(msgs[i])] /\ cur' = Older(cur)
      /\ UNCHANGED <<at, f, attached, session, total, words>>
  BY DEF ShmSendBegin
<1>3. Size(f) \in {2, 3}
  BY <1>1, Sizes DEF ShmTypes
<1>4. NbSeg \in Nat /\ NbSeg > 0 /\ 0 \in Slots
  BY ShmAssumption DEF Slots
<1>5. PICK l \in Nat : l = Len(segs)
  BY <1>1 DEF ShmTypes
<1>6. \/ UNCHANGED <<segs, live, wr>> /\ live # 0
      \/ NewSegment(Size(f))
  BY DEF ShmSendBegin
<1>7. /\ segs' \in Seq(SegSet) /\ l <= Len(segs') /\ live' \in 1 .. Len(segs') /\ live' = Len(segs') /\ wr' \in Slots
      /\ live' # live => live' = l + 1
      /\ live' = live => wr' = wr
      /\ segs'[live'].mem \in Mems(segs'[live'].size)
      /\ \A i \in 1 .. l : /\ segs'[i].size = segs[i].size
                           /\ i \in {live', attached} => i \in {live, attached} /\ segs'[i].mem = segs[i].mem
  <2>1. CASE UNCHANGED <<segs, live, wr>> /\ live # 0
    BY <1>1, <1>5, <2>1 DEF ShmTypes, SegInv
  <2>2. CASE NewSegment(Size(f))
    <3>1. /\ live' = l + 1 /\ wr' = 0 /\ segs' \in Seq(SegSet) /\ Len(segs') = l + 1
          /\ \A i \in 1 .. l : /\ segs'[i].size = segs[i].size
                               /\ i = attached => segs'[i] = segs[i]
          /\ segs'[live'].size = NbSeg * Size(f) /\ segs'[live'].mem \in Mems(NbSeg * Size(f))
      BY <1>1, <1>3, <1>5, <2>2, NewSegmentFacts
    <3>2. live # l + 1 /\ \A i \in 1 .. l : i # l + 1
      BY <1>1, <1>5 DEF SegInv, ShmTypes
    <3> QED
      BY <1>4, <1>5, <3>1, <3>2
  <2> QED
    BY <1>6, <2>1, <2>2
<1>8. ASSUME NEW m \in MsgSet, Sound(m) PROVE Older(m) \in MsgSet /\ Sound(Older(m))'
  <2>1. PICK o \in MsgSet : o = Older(m)
    BY OlderFacts
  <2>2. /\ o.session = m.session /\ o.size = m.size /\ o.offset = m.offset /\ o.f = m.f
        /\ o.age < NbSeg => m.age < NbSeg /\ o.age = m.age + 1
    BY <2>1, OlderFacts
  <2>3. m.session \in 1 .. l /\ m.age \in Int
    BY <1>5, <1>8 DEF Sound, MsgSet
  <2>4. m.session = live' => m.session = live
    BY <1>5, <1>7, <2>3
  <2>5. ASSUME o.age < NbSeg, m.session = live', NEW k \in Slots, Dist(k) <= m.age + Begun PROVE Dist(k)' <= o.age + Begun'
    <3>1. wr' = wr
      BY <1>7, <2>4, <2>5
    <3>2. Dist(k)' = Dist(k)
      BY <3>1 DEF Dist
    <3>3. Begun = 1 /\ Begun' = 0 /\ o.age = m.age + 1
      BY <1>2, <2>2, <2>5 DEF Begun
    <3>4. o.age + 0 = m.age + 1
      BY <2>3, <3>3
    <3> QED
      BY <2>5, <3>2, <3>3, <3>4
  <2>6. Sound(o)'
    BY <1>1, <1>2, <1>5, <1>7, <1>8, <2>2, <2>3, <2>4, <2>5, SoundKept
  <2> QED
    BY <2>1, <2>6
<1>9. msgs' \in Seq(MsgSet) /\ Len(msgs') = Len(msgs) /\ \A i \in 1 .. Len(msgs) : msgs'[i] = Older(msgs[i])
  <2>1. PICK q \in Nat : q = Len(msgs) /\ DOMAIN msgs = 1 .. q
    BY <1>1 DEF ShmTypes
  <2>2. \A i \in 1 .. q : Older(msgs[i]) \in MsgSet
    BY <1>1, <2>1, OlderFacts DEF ShmTypes
  <2>3. PICK t : t = msgs'
    OBVIOUS
  <2>4. t \in [1 .. q -> MsgSet] /\ \A i \in 1 .. q : t[i] = Older(msgs[i])
    BY <1>2, <2>1, <2>2, <2>3
  <2>5. t \in Seq(MsgSet) /\ Len(t) = q
    BY <2>4
  <2> QED
    BY <2>1, <2>3, <2>4, <2>5
<1>10. ShmTypes'
  BY <1>1, <1>2, <1>7, <1>9, OlderFacts DEF ShmTypes
<1>11. SegInv'
  <2>1. attached # 0 => attached \in 1 .. l
    BY <1>1, <1>5 DEF SegInv, ShmTypes
  <2>2. attached' <= Len(segs') /\ live' <= Len(segs') /\ live' = Len(segs')
    BY <1>1, <1>2, <1>5, <1>7 DEF SegInv, ShmTypes
  <2>3. attached # 0 => segs'[attached].mem \in Mems(segs'[attached].size)
    BY <1>1, <1>7, <2>1 DEF SegInv
  <2> QED
    BY <1>2, <1>7, <2>2, <2>3 DEF SegInv
<1>12. WriteInv'
  <2>1. live' # 0
    BY <1>7
  <2>2. copied' <= Size(f)
    BY <1>2, <1>3
  <2> QED
    BY <1>2, <2>1, <2>2 DEF WriteInv, Filled
<1>13. ReadInv'
  <2>1. \A i \in 1 .. Len(msgs') : Sound(msgs[i])'
    <3>1. ASSUME NEW i \in 1 .. Len(msgs) PROVE Sound(msgs[i])'
      <4>1. PICK m \in MsgSet : m = msgs[i] /\ Sound(m)
        BY <1>1 DEF ShmTypes, ReadInv, MsgsSound
      <4>2. PICK o \in MsgSet : o = Older(m) /\ Sound(o)'
        BY <1>8, <4>1
      <4>3. msgs'[i] = o
        BY <1>9, <4>1, <4>2
      <4> QED
        BY <4>2, <4>3
    <3> QED
      BY <1>9, <3>1
  <2>2. at \in {"headers", "copy"} => Sound(cur)'
    <3>1. SUFFICES ASSUME at \in {"headers", "copy"} PROVE Sound(cur)'
      OBVIOUS
    <3>2. PICK m \in MsgSet : m = cur /\ Sound(m)
      BY <1>1, <3>1 DEF ShmTypes, ReadInv
    <3>3. PICK o \in MsgSet : o = Older(m) /\ Sound(o)'
      BY <1>8, <3>2
    <3> QED
      BY <1>2, <3>2, <3>3
  <2>3. PICK a \in Int, b \in Int, n \in Int : a = cur.age /\ b = cur'.age /\ n = NbSeg /\ a <= b
    BY <1>1, <1>2, <1>4, OlderFacts DEF ShmTypes, MsgSet
  <2>4. cur'.session = cur.session /\ cur'.f = cur.f
    BY <1>1, <1>2, OlderFacts DEF ShmTypes
  <2>5. ~Excused' => ~Excused
    <3>1. a >= n => b >= n
      BY <2>3
    <3> QED
      BY <1>2, <2>3, <2>4, <3>1 DEF Excused
  <2>6. CopyInv'
    BY <1>1, <1>2, <2>4, <2>5 DEF ReadInv, CopyInv
  <2> QED
    BY <1>1, <1>2, <2>1, <2>2, <2>4, <2>6 DEF ReadInv, MsgsSound
<1> QED
  BY <1>10, <1>11, <1>12, <1>13 DEF ShmInv

\* What the reader has is as good as the messages.
LEMMA ReadKept ==
  ASSUME ReadInv, ShmTypes, UNCHANGED <<at, attached, session, cur, total, words>>, MsgsSound',
         \A m \in MsgSet : Sound(m) => Sound(m)'
  PROVE  ReadInv'
<1>1. at \in {"headers", "copy"} => Sound(cur)'
  <2>1. SUFFICES ASSUME at \in {"headers", "copy"} PROVE Sound(cur)'
    OBVIOUS
  <2>2. PICK m \in MsgSet : m = cur /\ Sound(m)
    BY <2>1 DEF ShmTypes, ReadInv
  <2> QED
    BY <2>2
<1>2. CopyInv'
  BY DEF ReadInv, CopyInv, Excused
<1> QED
  BY <1>1, <1>2 DEF ReadInv

LEMMA MsgsKept ==
  ASSUME ReadInv, ShmTypes, UNCHANGED msgs, \A m \in MsgSet : Sound(m) => Sound(m)'
  PROVE  MsgsSound'
<1>1. ASSUME NEW i \in 1 .. Len(msgs) PROVE Sound(msgs[i])'
  <2>1. PICK m \in MsgSet : m = msgs[i] /\ Sound(m)
    BY DEF ShmTypes, ReadInv, MsgsSound
  <2> QED
    BY <2>1
<1> QED
  BY <1>1 DEF MsgsSound

LEMMA SlotFacts ==
  ASSUME ShmTypes, SegInv, live # 0
  PROVE  /\ live \in 1 .. Len(segs) /\ Slot \in {2, 3} /\ segs[live].size = NbSeg * Slot /\ segs[live].size \in Nat
         /\ segs[live].mem \in Mems(segs[live].size)
<1>1. live \in 1 .. Len(segs) /\ segs[live].mem \in Mems(segs[live].size)
  BY DEF ShmTypes, SegInv
<1>2. PICK g \in SegSet : g = segs[live]
  BY <1>1 DEF ShmTypes
<1>3. PICK n \in {2, 3} : g.size = NbSeg * n /\ g.size \in Nat
  BY SegFacts
<1>4. PICK z : z = g.size
  OBVIOUS
<1>5. z \div NbSeg = n
  BY <1>3, <1>4, Parts
<1> QED
  BY <1>1, <1>2, <1>3, <1>4, <1>5 DEF Slot

\* A word goes to the slot the writer is at, where no frame is that a message tells of.
LEMMA ShmWordStep ==
  ASSUME ShmInv, outAt = "copy", Slot = Size(f), copied < Slot,
         segs' = [segs EXCEPT ![live].mem[wr * Size(f) + copied] = Words(f)[copied + 1]],
         copied' = copied + 1,
         UNCHANGED <<at, outAt, f, live, wr, msgs, attached, session, cur, total, words>>
  PROVE  ShmInv'
<1>1. ShmTypes /\ SegInv /\ WriteInv /\ ReadInv
  BY ShmFacts
<1>2. /\ live \in 1 .. Len(segs) /\ Slot \in {2, 3} /\ segs[live].size = NbSeg * Slot /\ segs[live].size \in Nat
      /\ segs[live].mem \in Mems(segs[live].size)
  BY <1>1, SlotFacts DEF WriteInv
<1>3. PICK n \in {2, 3} : n = Size(f) /\ n = Slot
  BY <1>2
<1>4. PICK k \in Slots, c \in Nat : k = wr /\ c = copied /\ c < n
  BY <1>1, <1>3 DEF ShmTypes
<1>5. c \in 0 .. n - 1
  BY <1>4
<1>6. PICK p : p = k * n + c
  OBVIOUS
<1>7. p \in 0 .. segs[live].size - 1
  BY <1>2, <1>3, <1>5, <1>6, Inside
<1>8. PICK v : v = <<f, c>>
  OBVIOUS
<1>9. v \in W /\ Words(f)[copied + 1] = v
  <2>1. c + 1 \in 1 .. n /\ c + 1 - 1 = c
    BY <1>5
  <2>2. Words(f)[c + 1] = <<f, c>>
    BY <1>3, <2>1 DEF Words
  <2>3. v \in WordSet
    BY <1>1, <1>3, <1>4, <1>8 DEF WordSet, ShmTypes
  <2> QED
    BY <1>4, <1>8, <2>2, <2>3 DEF W
<1>10. PICK t : t = segs'
  OBVIOUS
<1>11. t = [segs EXCEPT ![live].mem[p] = v]
  BY <1>3, <1>4, <1>6, <1>9, <1>10
<1>12. /\ t \in Seq(SegSet) /\ Len(t) = Len(segs)
       /\ \A i \in 1 .. Len(segs) : t[i].size = segs[i].size /\ (i # live => t[i] = segs[i])
       /\ t[live].mem \in Mems(segs[live].size) /\ t[live].mem[p] = v
       /\ \A j \in 0 .. segs[live].size - 1 : j # p => t[live].mem[j] = segs[live].mem[j]
  <2>1. PICK s \in Seq(SegSet), l \in 1 .. Len(segs) : s = segs /\ l = live
    BY <1>1, <1>2 DEF ShmTypes
  <2>2. l \in 1 .. Len(s) /\ s[l].mem \in Mems(s[l].size) /\ s[l].size \in Nat /\ p \in 0 .. s[l].size - 1
    BY <1>2, <1>7, <2>1
  <2>3. WordPut(t, s, l, p, v)
    BY <1>11, <2>1 DEF WordPut
  <2>4. /\ t \in Seq(SegSet) /\ Len(t) = Len(s)
        /\ \A i \in 1 .. Len(s) : t[i].size = s[i].size /\ (i # l => t[i] = s[i])
        /\ t[l].mem \in Mems(s[l].size) /\ t[l].mem[p] = v
        /\ \A j \in 0 .. s[l].size - 1 : j # p => t[l].mem[j] = s[l].mem[j]
    BY <1>9, <2>2, <2>3, Written
  <2> QED
    BY <2>1, <2>4
<1>13. ShmTypes'
  BY <1>1, <1>10, <1>12 DEF ShmTypes
<1>14. SegInv'
  <2>1. attached # 0 => attached \in 1 .. Len(segs)
    BY <1>1 DEF ShmTypes, SegInv
  <2> QED
    BY <1>1, <1>2, <1>10, <1>12, <2>1 DEF SegInv
<1>15. WriteInv'
  <2>1. Slot' = Slot
    BY <1>2, <1>10, <1>12 DEF Slot
  <2>2. ASSUME NEW i \in 0 .. (c + 1) - 1 PROVE t[live].mem[k * n + i] = <<f, i>>
    <3>1. CASE i = c
      BY <1>6, <1>8, <1>12, <3>1
    <3>2. CASE i # c
      <4>1. i \in 0 .. c - 1 /\ i \in 0 .. n - 1
        BY <1>4, <2>2, <3>2
      <4>2. segs[live].mem[k * n + i] = <<f, i>>
        BY <1>1, <1>3, <1>4, <4>1 DEF WriteInv, Filled
      <4>3. k * n + i \in 0 .. segs[live].size - 1
        BY <1>2, <1>3, <4>1, Inside
      <4>4. k * n + i # p
        <5>1. PICK z \in Int : z = k * n
          BY <1>4, ShmAssumption DEF Slots
        <5> QED
          BY <1>4, <1>6, <3>2, <4>1, <5>1
      <4> QED
        BY <1>12, <4>2, <4>3, <4>4
    <3> QED
      BY <3>1, <3>2
  <2>3. Filled(copied)'
    BY <1>3, <1>4, <1>10, <2>2 DEF Filled
  <2>4. copied' <= Size(f)
    BY <1>3, <1>4
  <2> QED
    BY <1>1, <2>1, <2>3, <2>4 DEF WriteInv
<1>16. ASSUME NEW m \in MsgSet, Sound(m) PROVE Sound(m)'
  <2>1. m.session \in 1 .. Len(segs) /\ m.size = NbSeg * Size(m.f) /\ segs[m.session].size = m.size
    BY <1>16 DEF Sound
  <2>2. PICK l \in Slots : /\ m.offset = l * Size(m.f)
                           /\ m.age < NbSeg /\ m.session = live => Dist(l) <= m.age + Begun
    BY <1>16 DEF Sound
  <2>3. Begun' = Begun /\ Dist(l)' = Dist(l)
    BY DEF Begun, Dist
  <2>4. CASE m.session # live
    <3>1. segs' \in Seq(SegSet) /\ segs'[m.session] = segs[m.session]
      BY <1>10, <1>12, <2>1, <2>4
    <3>2. Len(segs) <= Len(segs')
      BY <1>1, <1>10, <1>12 DEF ShmTypes
    <3> QED
      BY <1>1, <1>16, <2>4, <3>1, <3>2, SoundKept
  <2>5. CASE m.session = live
    <3>1. Size(m.f) = n
      <4>1. PICK q \in {2, 3} : q = Size(m.f)
        BY Sizes DEF MsgSet
      <4>2. NbSeg * q = NbSeg * n /\ NbSeg \in Nat /\ NbSeg > 0
        BY <1>2, <1>3, <2>1, <2>5, <4>1, ShmAssumption
      <4>3. NbSeg * 2 # NbSeg * 3
        BY <4>2
      <4> QED
        BY <4>1, <4>2, <4>3
    <3>2. ASSUME m.age < NbSeg PROVE l # k
      <4>1. Dist(l) <= m.age /\ m.age \in Int /\ NbSeg \in Int
        BY <2>2, <2>5, <3>2, ShmAssumption DEF Begun, MsgSet
      <4>2. SUFFICES ASSUME l = k PROVE FALSE
        OBVIOUS
      <4>3. Dist(l) = NbSeg
        BY <1>4, <4>1, <4>2 DEF Dist, Slots
      <4> QED
        BY <3>2, <4>1, <4>3
    <3>3. ASSUME m.age < NbSeg, NEW i \in 0 .. Size(m.f) - 1 PROVE t[live].mem[m.offset + i] = <<m.f, i>>
      <4>1. segs[live].mem[m.offset + i] = <<m.f, i>>
        BY <1>16, <2>5, <3>3 DEF Sound, Valid
      <4>2. l * n + i \in 0 .. segs[live].size - 1
        BY <1>2, <1>3, <3>1, <3>3, Inside
      <4>3. l * n + i # p
        BY <1>5, <1>6, <3>1, <3>2, <3>3, Apart
      <4>4. m.offset = l * n
        BY <2>2, <3>1
      <4> QED
        BY <1>12, <4>1, <4>2, <4>3, <4>4
    <3>4. m.age < NbSeg => Valid(m)'
      BY <1>10, <2>5, <3>3 DEF Valid
    <3>5. m.session \in 1 .. Len(segs') /\ segs'[m.session].size = m.size
      BY <1>10, <1>12, <2>1
    <3> QED
      BY <2>1, <2>2, <2>3, <3>4, <3>5 DEF Sound
  <2> QED
    BY <2>4, <2>5
<1>17. ReadInv'
  BY <1>1, <1>16, MsgsKept, ReadKept
<1> QED
  BY <1>13, <1>14, <1>15, <1>17 DEF ShmInv

LEMMA ShmCopyStep == ASSUME ShmInv, ShmSendCopy PROVE ShmInv'
<1>1. ShmTypes /\ SegInv /\ WriteInv /\ ReadInv
  BY ShmFacts
<1>2. outAt = "copy" /\ UNCHANGED <<at, msgs, attached, session, cur, total, words>>
  BY DEF ShmSendCopy, readerVars
<1>3. CASE /\ Slot = Size(f) /\ copied < Slot
           /\ segs' = [segs EXCEPT ![live].mem[wr * Size(f) + copied] = Words(f)[copied + 1]]
           /\ copied' = copied + 1
           /\ UNCHANGED <<outAt, f, live, wr>>
  BY <1>2, <1>3, ShmWordStep
<1>4. CASE /\ UNCHANGED writerVars /\ f' \in Frames
           /\ \/ outAt' = "idle"
              \/ outAt' = "notify" /\ f' = f /\ Slot = Size(f) /\ copied = Slot
  <2>1. UNCHANGED <<segs, live, wr, copied>>
    BY <1>4 DEF writerVars
  <2>2. ShmTypes' /\ SegInv'
    BY <1>1, <1>2, <1>4, <2>1 DEF ShmTypes, SegInv
  <2>3. WriteInv'
    BY <1>1, <1>2, <1>4, <2>1 DEF WriteInv, Filled, Slot
  <2>4. Begun <= Begun'
    BY <1>2, <1>4 DEF Begun
  <2>5. Len(segs') = Len(segs) /\ segs' \in Seq(SegSet)
    BY <1>1, <2>1 DEF ShmTypes
  <2>6. \A m \in MsgSet : Sound(m) => Sound(m)'
    BY <1>1, <1>2, <2>1, <2>4, <2>5, SoundForReader
  <2> QED
    BY <1>1, <1>2, <2>2, <2>3, <2>6, MsgsKept, ReadKept DEF ShmInv
<1>5. f' \in Frames \/ f' = f
  BY <1>1, NextIsFrame DEF ShmSendCopy, NextFrame, ShmTypes
<1>6. f \in Frames
  BY <1>1 DEF ShmTypes
<1> QED
  BY <1>3, <1>4, <1>5, <1>6 DEF ShmSendCopy, NextFrame, writerVars

LEMMA NextSlotFacts ==
  ASSUME NEW k \in Slots
  PROVE  NextSlot(k) \in Slots /\ (k + 1 < NbSeg => NextSlot(k) = k + 1) /\ (k + 1 = NbSeg => NextSlot(k) = 0)
<1>1. NbSeg \in Nat /\ NbSeg > 0 /\ k \in Nat /\ k + 1 <= NbSeg
  BY ShmAssumption DEF Slots
<1>2. k + 1 < NbSeg => (k + 1) % NbSeg = k + 1
  BY <1>1
<1>3. k + 1 = NbSeg => (k + 1) % NbSeg = 0
  BY <1>1
<1> QED
  BY <1>1, <1>2, <1>3 DEF NextSlot, Slots

\* The writer is at the next slot, and the reader is told of the one before.
LEMMA ShmNotifyStep == ASSUME ShmInv, ShmNotify PROVE ShmInv'
<1>1. ShmTypes /\ SegInv /\ WriteInv /\ ReadInv
  BY ShmFacts
<1>2. /\ outAt = "notify" /\ outAt' = "idle" /\ wr' = NextSlot(wr)
      /\ UNCHANGED <<at, segs, live, copied, attached, session, cur, total, words>>
  BY DEF ShmNotify, NextFrame, readerVars
<1>3. f' \in Frames
  BY <1>1, NextIsFrame DEF ShmNotify, NextFrame, ShmTypes
<1>4. PICK k \in Slots, n \in {2, 3} : k = wr /\ n = Size(f) /\ n = Slot /\ k * n \in Nat
  <2>1. PICK k \in Slots, n \in {2, 3} : k = wr /\ n = Size(f) /\ n = Slot
    BY <1>1, <1>2, SlotFacts DEF ShmTypes, WriteInv
  <2>2. k \in Nat
    BY DEF Slots
  <2>3. k * 2 \in Nat /\ k * 3 \in Nat
    BY <2>2
  <2> QED
    BY <2>1, <2>3
<1>5. /\ live \in 1 .. Len(segs) /\ segs[live].size = NbSeg * n /\ segs[live].size \in Nat
  BY <1>1, <1>2, <1>4, SlotFacts DEF WriteInv
<1>6. NbSeg \in Nat /\ NbSeg > 0 /\ 0 \in 0 .. NbSeg
  BY ShmAssumption
<1>7. PICK j \in Slots : j = wr' /\ (k + 1 < NbSeg => j = k + 1) /\ (k + 1 = NbSeg => j = 0)
  BY <1>2, <1>4, NextSlotFacts
<1>8. Begun = 0 /\ Begun' = 1
  BY <1>2 DEF Begun
<1>9. ASSUME NEW l \in Slots PROVE Dist(l)' = (IF l = k THEN 1 ELSE Dist(l) + 1)
  <2>1. PICK z \in Nat : z = NbSeg /\ z > 0 /\ k \in Nat /\ k < z /\ l \in Nat /\ l < z /\ j \in Nat
    BY <1>6 DEF Slots
  <2>2. (k + 1 < z => j = k + 1) /\ (k + 1 = z => j = 0)
    BY <1>7, <2>1
  <2>3. Dist(l) = IF k > l THEN k - l ELSE k - l + z
    BY <1>4, <2>1 DEF Dist
  <2>4. Dist(l)' = IF j > l THEN j - l ELSE j - l + z
    BY <1>7, <2>1 DEF Dist
  <2>5. CASE k + 1 < z
    BY <2>1, <2>2, <2>3, <2>4, <2>5
  <2>6. CASE k + 1 = z
    BY <2>1, <2>2, <2>3, <2>4, <2>6
  <2> QED
    BY <2>1, <2>5, <2>6
<1>10. ASSUME NEW m \in MsgSet, Sound(m) PROVE Sound(m)'
  <2>1. m.session \in 1 .. Len(segs) /\ m.age \in Int
    BY <1>10 DEF Sound, MsgSet
  <2>2. ASSUME m.age < NbSeg, NEW l \in Slots, Dist(l) <= m.age + Begun PROVE Dist(l)' <= m.age + Begun'
    <3>1. Dist(l) \in Int
      BY <1>4, <1>6 DEF Dist, Slots
    <3>2. PICK d \in Int : d = Dist(l) /\ d <= m.age /\ d < NbSeg
      BY <1>6, <1>8, <2>1, <2>2, <3>1
    <3>3. d + 1 <= m.age + 1 /\ 1 <= m.age + 1
      BY <1>10, <2>1, <3>2 DEF MsgSet
    <3>4. Dist(l)' <= m.age + 1
      BY <1>9, <3>2, <3>3
    <3> QED
      BY <1>8, <3>4
  <2>3. segs' \in Seq(SegSet) /\ Len(segs) <= Len(segs')
    BY <1>1, <1>2 DEF ShmTypes
  <2> QED
    BY <1>1, <1>2, <1>10, <2>2, <2>3, SoundKept
<1>11. PICK m \in MsgSet : m = [session |-> live, size |-> segs[live].size, offset |-> wr * Size(f), f |-> f, age |-> 0]
  BY <1>1, <1>4, <1>5, <1>6 DEF MsgSet, ShmTypes
<1>12. Sound(m)'
  <2>1. m.session = live /\ m.size = NbSeg * n /\ m.offset = k * n /\ m.f = f /\ m.age = 0
    BY <1>4, <1>5, <1>11
  <2>2. Valid(m)
    BY <1>1, <1>2, <1>4, <2>1 DEF Valid, WriteInv, Filled
  <2>3. Valid(m)'
    BY <1>2, <2>2 DEF Valid
  <2>4. Dist(k)' <= m.age + Begun'
    <3>1. Dist(k)' = 1
      BY <1>9
    <3> QED
      BY <1>8, <2>1, <3>1
  <2> QED
    BY <1>2, <1>4, <1>5, <2>1, <2>3, <2>4 DEF Sound
<1>13. MsgsSound' /\ msgs' \in Seq(MsgSet)
  <2>1. CASE msgs' = msgs
    BY <1>1, <1>10, <2>1, MsgsKept DEF ShmTypes
  <2>2. CASE msgs' = Append(msgs, m)
    <3>1. PICK q \in Nat : q = Len(msgs)
      BY <1>1 DEF ShmTypes
    <3>2. PICK t : t = Append(msgs, m)
      OBVIOUS
    <3>3. t \in Seq(MsgSet) /\ Len(t) = q + 1 /\ t[q + 1] = m /\ \A i \in 1 .. q : t[i] = msgs[i]
      BY <1>1, <3>1, <3>2 DEF ShmTypes
    <3>4. ASSUME NEW i \in 1 .. q + 1 PROVE Sound(msgs[i])'
      <4>1. CASE i = q + 1
        BY <1>12, <2>2, <3>2, <3>3, <4>1
      <4>2. CASE i # q + 1
        <5>1. i \in 1 .. q
          BY <4>2
        <5>2. PICK o \in MsgSet : o = msgs[i] /\ Sound(o)
          BY <1>1, <3>1, <5>1 DEF ReadInv, MsgsSound, ShmTypes
        <5> QED
          BY <1>10, <2>2, <3>2, <3>3, <5>1, <5>2
      <4> QED
        BY <4>1, <4>2
    <3> QED
      BY <2>2, <3>2, <3>3, <3>4 DEF MsgsSound
  <2> QED
    BY <1>11, <2>1, <2>2 DEF ShmNotify
<1>14. ShmTypes' /\ SegInv' /\ WriteInv'
  BY <1>1, <1>2, <1>3, <1>7, <1>13 DEF ShmTypes, SegInv, WriteInv
<1>15. ReadInv'
  BY <1>1, <1>2, <1>10, <1>13, ReadKept
<1> QED
  BY <1>14, <1>15 DEF ShmInv

LEMMA ShmBreakStep == ASSUME ShmInv, ShmBreak PROVE ShmInv'
<1>1. ShmTypes /\ SegInv /\ WriteInv /\ ReadInv
  BY ShmFacts
<1>2. /\ live' = 0 /\ wr' = 0 /\ copied' = 0 /\ outAt' = "idle" /\ f' = 0 /\ segs' = Kept(segs, {attached})
      /\ UNCHANGED <<at, msgs, attached, session, cur, total, words>>
  BY DEF ShmBreak, readerVars
<1>3. 0 \in Slots /\ 0 \in Frames
  BY ShmAssumption DEF Slots, Frames, FrameMod
<1>4. /\ segs' \in Seq(SegSet) /\ Len(segs') = Len(segs)
      /\ \A i \in 1 .. Len(segs) : segs'[i].size = segs[i].size /\ (i \in {attached} => segs'[i] = segs[i])
  BY <1>1, <1>2, KeptFacts DEF ShmTypes
<1>5. ShmTypes' /\ SegInv' /\ WriteInv'
  <2>1. attached # 0 => attached \in 1 .. Len(segs)
    BY <1>1 DEF ShmTypes, SegInv
  <2>2. 0 <= Len(segs)
    BY <1>1 DEF ShmTypes
  <2> QED
    BY <1>1, <1>2, <1>3, <1>4, <2>1, <2>2 DEF ShmTypes, SegInv, WriteInv
<1>6. \A i \in 1 .. Len(segs) : i \in {live', attached'} => i = attached
  BY <1>2
<1>7. ASSUME NEW m \in MsgSet, Sound(m) PROVE Sound(m)'
  <2>1. m.session \in 1 .. Len(segs) /\ Len(segs) <= Len(segs')
    BY <1>1, <1>4, <1>7 DEF Sound, ShmTypes
  <2>2. m.session # live'
    BY <1>2, <2>1
  <2> QED
    BY <1>1, <1>4, <1>6, <1>7, <2>1, <2>2, SoundKept
<1> QED
  BY <1>1, <1>2, <1>5, <1>7, MsgsKept, ReadKept DEF ShmInv

(***************************************************************************)
(* Shared memory: the reader.                                              *)
(***************************************************************************)
LEMMA WriterKept ==
  ASSUME ShmTypes, WriteInv, UNCHANGED <<segs, live, wr, copied, f, outAt>>
  PROVE  WriteInv' /\ Begun <= Begun' /\ Len(segs') = Len(segs) /\ segs' \in Seq(SegSet)
<1>1. WriteInv' /\ Len(segs') = Len(segs) /\ segs' \in Seq(SegSet)
  BY DEF WriteInv, Filled, Slot, ShmTypes
<1>2. Begun <= Begun'
  BY DEF Begun
<1> QED
  BY <1>1, <1>2

\* A step of the reader that takes no message.
LEMMA ReaderStep ==
  ASSUME ShmInv, UNCHANGED <<segs, live, wr, copied, f, outAt, attached, session>>,
         msgs' = msgs \/ msgs' = << >>, cur' \in MsgSet,
         at' \in {"headers", "copy"} => at \in {"headers", "copy"} /\ cur' = cur,
         CopyInv', at' # "copy" => words' = << >>
  PROVE  ShmInv'
<1>1. ShmTypes /\ SegInv /\ WriteInv /\ ReadInv
  BY ShmFacts
<1>2. WriteInv' /\ Begun <= Begun' /\ Len(segs') = Len(segs) /\ segs' \in Seq(SegSet)
  BY <1>1, WriterKept
<1>3. \A m \in MsgSet : Sound(m) => Sound(m)'
  BY <1>1, <1>2, SoundForReader
<1>4. << >> \in Seq(MsgSet) /\ Len(<< >>) = 0
  OBVIOUS
<1>5. MsgsSound'
  BY <1>1, <1>3, <1>4, MsgsKept DEF MsgsSound
<1>6. at' \in {"headers", "copy"} => Sound(cur)'
  <2>1. SUFFICES ASSUME at' \in {"headers", "copy"} PROVE Sound(cur)'
    OBVIOUS
  <2>2. PICK m \in MsgSet : m = cur /\ Sound(m)
    BY <1>1, <2>1 DEF ShmTypes, ReadInv
  <2> QED
    BY <1>3, <2>1, <2>2
<1>7. ShmTypes' /\ SegInv'
  BY <1>1, <1>4 DEF ShmTypes, SegInv
<1>8. ReadInv'
  BY <1>1, <1>5, <1>6 DEF ReadInv
<1> QED
  BY <1>2, <1>7, <1>8 DEF ShmInv

LEMMA ShmIdle ==
  ASSUME ShmInv, UNCHANGED <<segs, live, wr, copied, f, outAt, attached, session, cur, words>>,
         msgs' = msgs \/ msgs' = << >>, at # "copy", at' \notin {"headers", "copy"}
  PROVE  ShmInv'
<1>1. ShmTypes /\ words = << >>
  BY ShmFacts DEF ReadInv
<1> QED
  BY <1>1, ReaderStep DEF CopyInv, ShmTypes

LEMMA ShmStopStep == ASSUME ShmInv, UNCHANGED <<segs, live, wr, copied, f, outAt, at>>,
                            UNCHANGED readerVars, msgs' = msgs \/ msgs' = << >> PROVE ShmInv'
<1>1. UNCHANGED <<attached, session, cur, total, words>>
  BY DEF readerVars
<1>2. ShmTypes /\ ReadInv
  BY ShmFacts
<1>3. CopyInv'
  BY <1>1, <1>2 DEF ReadInv, CopyInv, Excused
<1> QED
  BY <1>1, <1>2, <1>3, ReaderStep DEF ShmTypes, ReadInv

\* The reader takes a message, and attaches to the segment that has the key if it must.
LEMMA ShmTakeStep == ASSUME ShmInv, ShmTake PROVE ShmInv' /\ (~broken => ~broken')
<1>1. ShmTypes /\ SegInv /\ WriteInv /\ ReadInv
  BY ShmFacts
<1>2. /\ at = "message" /\ msgs # << >> /\ msgs' = Tail(msgs)
      /\ UNCHANGED <<words, f, outAt, live, wr, copied>>
  BY DEF ShmTake, shmReads
<1>3. words' = << >>
  BY <1>1, <1>2 DEF ReadInv
<1>4. PICK q \in Nat : q = Len(msgs) /\ q > 0
  BY <1>1, <1>2 DEF ShmTypes
<1>5. 1 \in 1 .. q
  BY <1>4
<1>6. PICK m \in MsgSet : m = Head(msgs) /\ m = msgs[1] /\ Sound(m)
  BY <1>1, <1>2, <1>4, <1>5 DEF ShmTypes, ReadInv, MsgsSound
<1>7. PICK n : n = Found(m)
  OBVIOUS
<1>8. n \in {0, live} /\ n <= Len(segs) /\ n \in Nat
  BY <1>1, <1>7 DEF Found, SegInv, ShmTypes
<1>9. /\ \/ UNCHANGED <<attached, session>> /\ at' = "headers" /\ cur' = m /\ attached # 0 /\ m.session = session
         \/ attached' = n /\ n # 0 /\ session' = m.session /\ at' = "headers" /\ cur' = m
         \/ attached' = n /\ n = 0 /\ at' = "loop" /\ UNCHANGED <<session, cur>>
      /\ segs' = Kept(segs, {attached', live})
      /\ broken' = broken \/ (n = 0 /\ broken' = (broken \/ ~(m.session # live)))
  BY <1>6, <1>7 DEF ShmTake, SegmentChanged, GivesNoWords
<1>10. attached' \in {0, live, attached}
  BY <1>8, <1>9
<1>11. PICK used : used = {attached', live} /\ segs' = Kept(segs, used)
  BY <1>9
<1>12. /\ segs' \in Seq(SegSet) /\ Len(segs') = Len(segs)
       /\ \A i \in 1 .. Len(segs) : segs'[i].size = segs[i].size /\ (i \in used => segs'[i] = segs[i])
  BY <1>1, <1>11, KeptFacts DEF ShmTypes
<1>13. \A i \in 1 .. Len(segs) : i \in {live', attached'} => i \in {live, attached} /\ segs'[i].mem = segs[i].mem
  <2>1. \A i \in 1 .. Len(segs) : i # 0
    OBVIOUS
  <2> QED
    BY <1>2, <1>10, <1>11, <1>12, <2>1
<1>14. Begun <= Begun'
  BY <1>2 DEF Begun
<1>15. \A o \in MsgSet : Sound(o) => Sound(o)'
  BY <1>1, <1>2, <1>12, <1>13, <1>14, SoundForReader
<1>16. msgs' \in Seq(MsgSet) /\ MsgsSound'
  <2>1. PICK t : t = Tail(msgs)
    OBVIOUS
  <2>2. t \in Seq(MsgSet) /\ Len(t) = q - 1 /\ \A i \in 1 .. q - 1 : t[i] = msgs[i + 1]
    BY <1>1, <1>2, <1>4, <2>1 DEF ShmTypes
  <2>3. ASSUME NEW i \in 1 .. q - 1 PROVE Sound(msgs[i])'
    <3>1. i + 1 \in 1 .. q
      BY <1>4
    <3>2. PICK o \in MsgSet : o = msgs[i + 1] /\ Sound(o)
      BY <1>1, <1>4, <3>1 DEF ShmTypes, ReadInv, MsgsSound
    <3> QED
      BY <1>2, <1>15, <2>1, <2>2, <3>2
  <2> QED
    BY <1>2, <2>1, <2>2, <2>3 DEF MsgsSound
<1>17. ShmTypes'
  BY <1>1, <1>2, <1>6, <1>8, <1>9, <1>12, <1>16 DEF ShmTypes, MsgSet
<1>18. SegInv'
  <2>1. \A i \in {live', attached'} : i # 0 => i \in 1 .. Len(segs)
    BY <1>1, <1>2, <1>10 DEF SegInv, ShmTypes
  <2>2. \A i \in {live', attached'} : i # 0 => segs'[i].mem \in Mems(segs'[i].size)
    BY <1>1, <1>12, <1>13, <2>1 DEF SegInv
  <2>3. attached' <= Len(segs)
    BY <1>1, <1>8, <1>9 DEF SegInv
  <2> QED
    BY <1>1, <1>2, <1>12, <2>2, <2>3 DEF SegInv
<1>19. WriteInv'
  <2>1. live # 0 => live \in 1 .. Len(segs) /\ segs'[live] = segs[live]
    <3>1. live # 0 => live \in 1 .. Len(segs)
      BY <1>1 DEF SegInv, ShmTypes
    <3>2. live \in used
      BY <1>11
    <3> QED
      BY <1>12, <3>1, <3>2
  <2>2. live # 0 => Slot' = Slot
    BY <1>2, <2>1 DEF Slot
  <2>3. live # 0 /\ Filled(copied) => Filled(copied)'
    BY <1>2, <2>1 DEF Filled
  <2>4. live # 0 /\ Filled(Size(f)) => Filled(Size(f))'
    BY <1>2, <2>1 DEF Filled
  <2> QED
    BY <1>1, <1>2, <2>2, <2>3, <2>4 DEF WriteInv
<1>20. ReadInv'
  <2>1. at' = "headers" => attached' # 0 /\ cur'.session <= attached' /\ Sound(cur)'
    <3>1. SUFFICES ASSUME at' = "headers" PROVE attached' # 0 /\ cur'.session <= attached' /\ Sound(cur)'
      OBVIOUS
    <3>2. cur' = m /\ attached' # 0
      BY <1>9, <3>1
    <3>3. m.session <= attached'
      <4>1. m.session \in 1 .. Len(segs)
        BY <1>6 DEF Sound
      <4>2. n # 0 => n = Len(segs)
        BY <1>1, <1>8 DEF SegInv
      <4> QED
        BY <1>1, <1>9, <3>1, <4>1, <4>2 DEF ReadInv
    <3> QED
      BY <1>6, <1>15, <3>2, <3>3
  <2>2. attached' # 0 => session' <= attached'
    <3>1. m.session \in 1 .. Len(segs)
      BY <1>6 DEF Sound
    <3>2. n # 0 => n = Len(segs)
      BY <1>1, <1>8 DEF SegInv
    <3> QED
      BY <1>1, <1>9, <3>1, <3>2 DEF ReadInv
  <2>3. at' \in {"headers", "loop"}
    BY <1>9
  <2> QED
    BY <1>3, <1>16, <2>1, <2>2, <2>3 DEF ReadInv, CopyInv
<1>21. ~broken => ~broken'
  <2>1. m.session = live => live # 0 /\ m.size = segs[live].size /\ m.size \in Nat
    BY <1>6 DEF Sound, MsgSet
  <2>2. m.session = live => n # 0
    BY <1>7, <2>1 DEF Found
  <2> QED
    BY <1>9, <2>2
<1> QED
  BY <1>17, <1>18, <1>19, <1>20, <1>21 DEF ShmInv

\* The frame is whole as long as the reader needs no excuse.
LEMMA ReadsFrame ==
  ASSUME ShmInv, at \in {"headers", "copy"}, ~Excused, NEW i \in 0 .. Size(cur.f) - 1
  PROVE  Word(i) = <<cur.f, i>>
<1>1. ShmTypes /\ ReadInv
  BY ShmFacts
<1>2. PICK m \in MsgSet : m = cur /\ Sound(m) /\ m.session <= attached
  BY <1>1 DEF ReadInv, ShmTypes
<1>3. m.age \in Int /\ NbSeg \in Int /\ attached \in Int /\ m.session \in Int
  BY <1>1, ShmAssumption DEF MsgSet, ShmTypes
<1>4. m.age < NbSeg /\ m.session = attached
  BY <1>2, <1>3 DEF Excused
<1>5. Valid(m)
  BY <1>2, <1>4 DEF Sound
<1> QED
  BY <1>2, <1>4, <1>5 DEF Valid, Word

LEMMA ShmHeadersStep == ASSUME ShmInv, ShmHeaders PROVE ShmInv'
<1>1. ShmTypes /\ ReadInv
  BY ShmFacts
<1>2. /\ at = "headers" /\ UNCHANGED <<segs, live, wr, copied, f, outAt, attached, session, msgs, words>>
  BY DEF ShmHeaders, shmReads
<1>3. words = << >>
  BY <1>1, <1>2 DEF ReadInv
<1>4. CASE at' = "loop" /\ cur' = NoMessage
  <2>1. NoMessage \in MsgSet
    BY ShmAssumption DEF NoMessage, MsgSet, Frames, FrameMod
  <2> QED
    BY <1>2, <1>3, <1>4, <2>1, ReaderStep DEF CopyInv
<1>5. CASE at' = "copy" /\ total' = Size(Word(0)[1]) /\ UNCHANGED cur
  <2>1. CopyInv'
    <3>1. SUFFICES ASSUME ~Excused' PROVE /\ total' = Size(cur.f) /\ Len(<< >>) <= total'
                                          /\ << >> \in Seq(WordSet) /\ Len(<< >>) = 0
      BY <1>2, <1>3, <1>5 DEF CopyInv
    <3>2. ~Excused
      BY <1>2, <1>5, <3>1 DEF Excused
    <3>3. Size(cur.f) \in {2, 3}
      BY <1>1, Sizes DEF ShmTypes, MsgSet
    <3>4. 0 \in 0 .. Size(cur.f) - 1
      BY <3>3
    <3>5. Word(0) = <<cur.f, 0>>
      BY <1>2, <3>2, <3>4, ReadsFrame
    <3> QED
      BY <1>5, <3>3, <3>5
  <2> QED
    BY <1>1, <1>2, <1>5, <2>1, ReaderStep DEF ShmTypes
<1> QED
  BY <1>4, <1>5 DEF ShmHeaders

\* What the reader gives as a frame is one.
LEMMA ShmCopiesStep == ASSUME ShmInv, ShmCopy PROVE ShmInv' /\ (~broken => ~broken')
<1>1. ShmTypes /\ ReadInv
  BY ShmFacts
<1>2. /\ at = "copy" /\ UNCHANGED <<segs, live, wr, copied, f, outAt, attached, session, msgs>>
  BY DEF ShmCopy, shmReads
<1>3. PICK n \in {2, 3} : n = Size(cur.f) /\ cur.f \in Frames
  BY <1>1, Sizes DEF ShmTypes, MsgSet
<1>4. CASE /\ Len(words) < total /\ words' = Append(words, Word(Len(words)))
           /\ UNCHANGED <<at, turn, broken, cur, total>>
  <2>1. CopyInv'
    <3>1. SUFFICES ASSUME ~Excused'
                   PROVE  /\ total = Size(cur.f) /\ words' \in Seq(WordSet) /\ Len(words') <= total
                          /\ \A i \in 1 .. Len(words') : words'[i] = <<cur.f, i - 1>>
      BY <1>2, <1>4 DEF CopyInv
    <3>2. ~Excused
      BY <1>2, <1>4, <3>1 DEF Excused
    <3>3. total = n /\ words \in Seq(WordSet) /\ \A i \in 1 .. Len(words) : words[i] = <<cur.f, i - 1>>
      BY <1>1, <1>2, <1>3, <3>2 DEF ReadInv, CopyInv
    <3>4. PICK l \in Nat : l = Len(words) /\ l < n
      BY <1>4, <3>3
    <3>5. PICK w : w = Word(l)
      OBVIOUS
    <3>6. w = <<cur.f, l>>
      <4>1. l \in 0 .. n - 1
        BY <3>4
      <4> QED
        BY <1>2, <1>3, <3>2, <3>5, <4>1, ReadsFrame
    <3>7. w \in WordSet
      BY <1>3, <3>4, <3>6 DEF WordSet
    <3>8. PICK t : t = Append(words, w)
      OBVIOUS
    <3>9. t \in Seq(WordSet) /\ Len(t) = l + 1 /\ t[l + 1] = w /\ \A i \in 1 .. l : t[i] = words[i]
      BY <3>3, <3>4, <3>7, <3>8
    <3>10. \A i \in 1 .. l + 1 : t[i] = <<cur.f, i - 1>>
      <4>1. \A i \in 1 .. l + 1 : i \in 1 .. l \/ i = l + 1
        BY <3>4
      <4>2. l + 1 - 1 = l
        BY <3>4
      <4> QED
        BY <3>3, <3>4, <3>6, <3>9, <4>1, <4>2
    <3>11. l + 1 <= n
      BY <3>4
    <3> QED
      BY <1>3, <1>4, <3>3, <3>4, <3>5, <3>8, <3>9, <3>10, <3>11
  <2> QED
    BY <1>1, <1>2, <1>4, <2>1, ReaderStep DEF ShmTypes
<1>5. CASE /\ Len(words) = total /\ Gives(words, cur.f, Excused)
           /\ cur' = NoMessage /\ total' = 0 /\ words' = << >>
  <2>1. NoMessage \in MsgSet
    BY ShmAssumption DEF NoMessage, MsgSet, Frames, FrameMod
  <2>2. at' = "loop" /\ broken' = (broken \/ (words # Words(cur.f) /\ ~Excused))
    BY <1>5 DEF Gives
  <2>3. ~Excused => words = Words(cur.f)
    <3>1. SUFFICES ASSUME ~Excused PROVE words = Words(cur.f)
      OBVIOUS
    <3>2. total = n /\ words \in Seq(WordSet) /\ \A i \in 1 .. Len(words) : words[i] = <<cur.f, i - 1>>
      BY <1>1, <1>2, <1>3, <3>1 DEF ReadInv, CopyInv
    <3>3. PICK c \in Frames : c = cur.f /\ Size(c) = n
      BY <1>3
    <3>4. PICK v \in Seq(WordSet) : v = Words(c) /\ Len(v) = n /\ \A i \in 1 .. n : v[i] = <<c, i - 1>>
      BY <3>3, WordsOf
    <3>5. PICK u \in Seq(WordSet) : u = words /\ Len(u) = n /\ \A i \in 1 .. n : u[i] = <<c, i - 1>>
      BY <1>5, <3>2, <3>3
    <3>6. \A i \in 1 .. n : u[i] = v[i]
      BY <3>4, <3>5
    <3>7. u = v
      BY <3>4, <3>5, <3>6
    <3> QED
      BY <3>3, <3>4, <3>5, <3>7
  <2>4. ShmInv'
    BY <1>2, <1>5, <2>1, <2>2, ReaderStep DEF CopyInv
  <2> QED
    BY <2>2, <2>3, <2>4
<1> QED
  BY <1>4, <1>5 DEF ShmCopy

(***************************************************************************)
(* The two links.                                                          *)
(***************************************************************************)
TransportInv ==
  /\ link \in Links /\ ~broken
  /\ Tcp => TcpInv
  /\ Shm => ShmInv

LEMMA OneLink == TransportInv => (Tcp /\ ~Shm) \/ (Shm /\ ~Tcp)
BY LinkAssumption DEF TransportInv, Tcp, Shm

LEMMA TransportStart == Init => TransportInv
<1> SUFFICES ASSUME Init PROVE TransportInv
  OBVIOUS
<1>1. link \in Links /\ at = "loop" /\ outAt = "idle" /\ f = 0 /\ broken = FALSE /\ TcpInit /\ ShmInit
  BY DEF Init
<1> QED
  BY <1>1, TcpStart, ShmStart DEF TransportInv

LEMMA OnTcp == ASSUME TransportInv, link' = link, ~broken', Tcp, TcpInv' PROVE TransportInv'
BY OneLink DEF TransportInv, Tcp, Shm

LEMMA OnShm == ASSUME TransportInv, link' = link, ~broken', Shm, ShmInv' PROVE TransportInv'
BY OneLink DEF TransportInv, Tcp, Shm

\* Neither pin does anything.
LEMMA LinkKept ==
  ASSUME TransportInv, LinkKeeps, UNCHANGED <<link, outAt, f, broken>>,
         at' = at \/ (at = "loop" /\ at' \in {"read", "ended"})
  PROVE  TransportInv'
<1>1. UNCHANGED <<pipe, got, left, backlog, inC, outC, recvC, outOpen>>
  BY DEF LinkKeeps, tcpVars
<1>2. UNCHANGED <<segs, live, wr, copied, msgs, attached, session, size, cur, total, words>>
  BY DEF LinkKeeps, shmVars
<1>3. ~broken'
  BY DEF TransportInv
<1>4. CASE Tcp
  <2>1. TcpInv
    BY <1>4 DEF TransportInv
  <2>2. recvC' # 0 => at' \in {"head", "media"}
    BY <1>1, <2>1, TcpFacts DEF ReaderInv
  <2>3. TcpInv'
    BY <1>1, <2>1, <2>2, NothingRead
  <2> QED
    BY <1>3, <1>4, <2>3, OnTcp
<1>5. CASE Shm
  <2>1. ShmInv
    BY <1>5 DEF TransportInv
  <2>2. ShmInv'
    <3>1. CASE at' = at
      BY <1>2, <2>1, <3>1, ShmStopStep DEF readerVars
    <3>2. CASE at = "loop" /\ at' \in {"read", "ended"}
      BY <1>2, <2>1, <3>2, ShmIdle
    <3> QED
      BY <3>1, <3>2
  <2> QED
    BY <1>3, <1>5, <2>2, OnShm
<1> QED
  BY <1>4, <1>5, OneLink

LEMMA TcpKept ==
  ASSUME TransportInv, Tcp, TcpReads \/ TcpSends \/ TcpBreak \/ TcpStop
  PROVE  TransportInv'
<1>1. TcpInv /\ ~broken
  BY DEF TransportInv
<1>2. CASE TcpOpen
  <2>1. link' = link /\ broken' = broken
    BY <1>2 DEF TcpOpen, readerKeeps
  <2> QED
    BY <1>1, <1>2, <2>1, TcpOpenStep, OnTcp
<1>3. CASE TcpRecvs
  <2>1. link' = link /\ broken' = broken
    BY <1>3 DEF TcpRecvs, commonVars
  <2> QED
    BY <1>1, <1>3, <2>1, TcpRecvsStep, OnTcp
<1>4. CASE TcpRecv
  <2>1. link' = link
    BY <1>4 DEF TcpRecv, readerKeeps
  <2> QED
    BY <1>1, <1>4, <2>1, TcpRecvStep, OnTcp
<1>5. CASE TcpRecvFails
  <2>1. link' = link /\ broken' = broken
    BY <1>5 DEF TcpRecvFails, readerKeeps, GivesNone
  <2> QED
    BY <1>1, <1>5, <2>1, TcpRecvFailsStep, OnTcp
<1>6. CASE TcpSendOpen
  <2>1. link' = link /\ broken' = broken
    BY <1>6 DEF TcpSendOpen, writerKeeps
  <2> QED
    BY <1>1, <1>6, <2>1, TcpSendOpenStep, OnTcp
<1>7. CASE TcpSend
  <2>1. link' = link /\ broken' = broken
    BY <1>7 DEF TcpSend, writerKeeps
  <2> QED
    BY <1>1, <1>7, <2>1, TcpSendStep, OnTcp
<1>8. CASE TcpSendFails
  <2>1. link' = link /\ broken' = broken
    BY <1>8 DEF TcpSendFails, writerKeeps
  <2> QED
    BY <1>1, <1>8, <2>1, TcpSendFailsStep, OnTcp
<1>9. CASE TcpBreak
  <2>1. link' = link /\ broken' = broken
    BY <1>9 DEF TcpBreak, writerKeeps
  <2> QED
    BY <1>1, <1>9, <2>1, TcpBreakStep, OnTcp
<1>10. CASE TcpStop
  <2>1. link' = link /\ broken' = broken
    BY <1>10 DEF TcpStop, StopPinCalled
  <2> QED
    BY <1>1, <1>10, <2>1, TcpStopStep, OnTcp
<1> QED
  BY <1>2, <1>3, <1>4, <1>5, <1>6, <1>7, <1>8, <1>9, <1>10 DEF TcpReads, TcpSends

LEMMA ShmKept ==
  ASSUME TransportInv, Shm, ShmReads \/ ShmSends \/ ShmBreak \/ ShmStop
  PROVE  TransportInv'
<1>1. ShmInv /\ ~broken
  BY DEF TransportInv
<1>2. CASE ShmOpen \/ ShmWoken
  <2>1. /\ UNCHANGED <<link, broken, segs, live, wr, copied, f, outAt, attached, session, cur, words, msgs>>
        /\ at # "copy" /\ at' \in {"message", "loop"}
    BY <1>2 DEF ShmOpen, ShmWoken, shmReads, readerVars
  <2>2. ShmInv'
    BY <1>1, <2>1, ShmIdle
  <2> QED
    BY <1>1, <2>1, <2>2, OnShm
<1>3. CASE ShmTake
  <2>1. link' = link
    BY <1>3 DEF ShmTake, shmReads
  <2> QED
    BY <1>1, <1>3, <2>1, ShmTakeStep, OnShm
<1>4. CASE ShmHeaders
  <2>1. link' = link /\ broken' = broken
    BY <1>4 DEF ShmHeaders, shmReads
  <2> QED
    BY <1>1, <1>4, <2>1, ShmHeadersStep, OnShm
<1>5. CASE ShmCopy
  <2>1. link' = link
    BY <1>5 DEF ShmCopy, shmReads
  <2> QED
    BY <1>1, <1>5, <2>1, ShmCopiesStep, OnShm
<1>6. CASE ShmSendBegin
  <2>1. link' = link /\ broken' = broken
    BY <1>6 DEF ShmSendBegin
  <2> QED
    BY <1>1, <1>6, <2>1, ShmBeginStep, OnShm
<1>7. CASE ShmSendCopy
  <2>1. link' = link /\ broken' = broken
    BY <1>7 DEF ShmSendCopy
  <2> QED
    BY <1>1, <1>7, <2>1, ShmCopyStep, OnShm
<1>8. CASE ShmNotify
  <2>1. link' = link /\ broken' = broken
    BY <1>8 DEF ShmNotify
  <2> QED
    BY <1>1, <1>8, <2>1, ShmNotifyStep, OnShm
<1>9. CASE ShmBreak
  <2>1. link' = link /\ broken' = broken
    BY <1>9 DEF ShmBreak
  <2> QED
    BY <1>1, <1>9, <2>1, ShmBreakStep, OnShm
<1>10. CASE ShmStop
  <2>1. /\ UNCHANGED <<link, broken, at, outAt, f>> /\ UNCHANGED readerVars /\ msgs' = << >>
        /\ UNCHANGED <<segs, live, wr, copied>>
    BY <1>10 DEF ShmStop, StopPinCalled, writerVars
  <2> QED
    BY <1>1, <2>1, ShmStopStep, OnShm
<1> QED
  BY <1>2, <1>3, <1>4, <1>5, <1>6, <1>7, <1>8, <1>9, <1>10 DEF ShmReads, ShmSends

LEMMA TransportStep == TransportInv /\ [Next]_vars => TransportInv'
<1> SUFFICES ASSUME TransportInv, [Next]_vars PROVE TransportInv'
  OBVIOUS
<1>1. CASE UNCHANGED vars
  BY <1>1, LinkKept DEF vars, LinkKeeps, commonVars
<1>2. CASE (Loop \/ StopFlag \/ StopJoin) /\ LinkKeeps
  <2>1. UNCHANGED <<link, outAt, f, broken>> /\ (at' = at \/ (at = "loop" /\ at' \in {"read", "ended"}))
    BY <1>2 DEF Loop, StopFlag, StopJoin
  <2> QED
    BY <1>2, <2>1, LinkKept
<1>3. CASE Tcp /\ (TcpReads \/ TcpSends \/ TcpBreak \/ TcpStop)
  BY <1>3, TcpKept
<1>4. CASE Shm /\ (ShmReads \/ ShmSends \/ ShmBreak \/ ShmStop)
  BY <1>4, ShmKept
<1> QED
  BY <1>1, <1>2, <1>3, <1>4 DEF Next, Reads, Sends, Breaks, Stops

(***************************************************************************)
(* CInTCP::read and CInMem::read give a frame as the other module sent it, *)
(* whatever connection breaks and whenever the other side starts again:    *)
(* see GivenFramesAreWhole.                                                *)
(***************************************************************************)
THEOREM FramesAreGivenWhole == Spec => []GivenFramesAreWhole
<1>1. Init => TransportInv
  BY TransportStart
<1>2. TransportInv /\ [Next]_vars => TransportInv'
  BY TransportStep
<1>3. TransportInv => GivenFramesAreWhole
  BY DEF TransportInv, GivenFramesAreWhole
<1> QED
  BY <1>1, <1>2, <1>3, PTL DEF Spec

=============================================================================
