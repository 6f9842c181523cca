---------------------------- MODULE Clients_proofs ----------------------------
(***************************************************************************)
(* For any programs, inputs, outputs, kinds of frames, delay and list of   *)
(* frames: every reference has one owner, the synchronizer keeps the       *)
(* frames of its two inputs apart, no image of the X11 player is mixed,    *)
(* and an output sends the video of an input in its order.  Each part ends *)
(* with its theorems.                                                      *)
(***************************************************************************)
EXTENDS Clients, TLAPS, FiniteSetTheorems, WellFoundedInduction

(***************************************************************************)
(* Where a thread is says which frames it has.  The retarder and the probe *)
(* have places of the same names; the retarder has queued its frame there. *)
(***************************************************************************)
Holding == {"tick", "create", "new", "tail", "crash", "first", "second", "init", "route",
            "free", "alloc", "lock", "copy", "shown", "queue"}
Making == {"new", "send"}
Places == Holding \cup Making \cup {"read", "joined", "size", "pop"}

HasFrame(i) == inAt[i] \in Holding \/ (program = "probe" /\ inAt[i] \in {"size", "pop"})

PlacesInv == \A i \in Inputs : /\ hFrame[i] # 0 <=> HasFrame(i)
                               /\ newH[i] # 0 <=> inAt[i] \in Making

ClientTypes ==
  /\ inputs \in {1, 2} /\ inAt \in [Inputs -> Places]
  /\ refs \in [Frames -> Int]
  /\ hFrame \in [Inputs -> Frames \cup {0}] /\ newH \in [Inputs -> Frames \cup {0}]
  /\ queues \in [Outputs -> Seq(Frames)] /\ g_q \in Seq(Frames)

OwnersInv == ClientTypes /\ PlacesInv /\ FramesAreOwned

(***************************************************************************)
(* The synchronizer.  Once an input takes the place of the second one, or  *)
(* the inputs are known, no thread can change which is the first.          *)
(***************************************************************************)
Settled == g_init \/ \E i \in Inputs : inAt[i] \in {"second", "init"}

Identified ==
  /\ g_firstInput \in Inputs \cup {-1}
  /\ Settled => g_firstInput \in Inputs /\ \A i \in Inputs : inAt[i] = "first" => g_firstInput = i
  /\ \A i \in Inputs : inAt[i] \in {"second", "init"} => g_firstInput # i
  /\ \A i \in Inputs : inAt[i] = "route" => g_init

Routed ==
  /\ media = [k \in Frames |-> media[k]] /\ last = [i \in Inputs |-> last[i]]
  /\ \A i \in Inputs : hFrame[i] # 0 => media[hFrame[i]].in = i
  /\ \A o \in Outputs : \A n \in DOMAIN queues[o] :
       g_init /\ media[queues[o][n]].in \in Inputs /\ OutputOf(media[queues[o][n]].in) = o
  /\ \A i \in Inputs : last[i] # -1 => g_init /\ OutputOf(i) = watched

ClientInv ==
  OwnersInv /\ (program = "synchronizer" => Identified /\ Routed /\ "mixed" \notin faults)

(***************************************************************************)
(* Counting.                                                               *)
(***************************************************************************)
Is(x, y) == IF x = y THEN 1 ELSE 0
Within(x, S) == IF x \in S THEN 1 ELSE 0

\* How often k is in a function on I.
CountOf(f, I, k) == Cardinality({j \in I : f[j] = k})

\* Functions on I that differ at i only.
SameBut(f, g, I, i) == \A j \in I : j # i => g[j] = f[j]

LEMMA CountOne ==
  ASSUME NEW I, IsFiniteSet(I), NEW f, NEW g, NEW i \in I, NEW k, SameBut(f, g, I, i)
  PROVE  /\ CountOf(g, I, k) = CountOf(f, I, k) - Is(f[i], k) + Is(g[i], k)
         /\ CountOf(f, I, k) \in Nat
<1> DEFINE R == {j \in I : j # i /\ f[j] = k}
           F == {j \in I : f[j] = k}
           G == {j \in I : g[j] = k}
<1>1. IsFiniteSet(R) /\ i \notin R /\ Cardinality(R) \in Nat /\ Cardinality(R \cup {i}) = Cardinality(R) + 1
  <2>1. IsFiniteSet(R)
    BY FS_Subset
  <2> QED
    BY <2>1, FS_AddElement, FS_CardinalityType
<1>2. F = (IF f[i] = k THEN R \cup {i} ELSE R) /\ G = (IF g[i] = k THEN R \cup {i} ELSE R)
  BY DEF SameBut
<1> HIDE DEF R, F, G
<1>3. Cardinality(F) = Cardinality(R) + Is(f[i], k) /\ Cardinality(F) \in Nat
  BY <1>1, <1>2 DEF Is, Within
<1>4. Cardinality(G) = Cardinality(R) + Is(g[i], k)
  BY <1>1, <1>2 DEF Is, Within
<1>5. Is(f[i], k) \in Nat /\ Is(g[i], k) \in Nat
  BY DEF Is, Within
<1>6. Cardinality(G) = Cardinality(F) - Is(f[i], k) + Is(g[i], k) /\ Cardinality(F) \in Nat
  BY <1>1, <1>3, <1>4, <1>5
<1> QED
  BY <1>6 DEF F, G, CountOf

\* How often k is in a sequence.
InSeq(s, k) == Cardinality({n \in DOMAIN s : s[n] = k})

LEMMA InSeqIsNat ==
  ASSUME NEW S, NEW s \in Seq(S), NEW k
  PROVE  /\ InSeq(s, k) \in Nat /\ IsFiniteSet({n \in DOMAIN s : s[n] = k})
         /\ \A n \in DOMAIN s : s[n] = k => InSeq(s, k) > 0
<1>1. IsFiniteSet(1 .. Len(s)) /\ DOMAIN s = 1 .. Len(s)
  BY FS_Interval
<1>2. IsFiniteSet({n \in DOMAIN s : s[n] = k})
  BY <1>1, FS_Subset
<1>3. InSeq(s, k) \in Nat
  BY <1>2, FS_CardinalityType DEF InSeq
<1>4. \A n \in DOMAIN s : s[n] = k => InSeq(s, k) > 0
  BY <1>2, <1>3, FS_EmptySet DEF InSeq
<1> QED
  BY <1>2, <1>3, <1>4

LEMMA CountAppend ==
  ASSUME NEW S, NEW s \in Seq(S), NEW v \in S, NEW k
  PROVE  InSeq(Append(s, v), k) = InSeq(s, k) + Is(v, k)
<1> DEFINE t == Append(s, v)
           A == {n \in DOMAIN s : s[n] = k}
           B == {n \in DOMAIN t : t[n] = k}
<1>1. /\ DOMAIN s = 1 .. Len(s) /\ DOMAIN t = 1 .. Len(s) + 1 /\ Len(s) \in Nat
      /\ t[Len(s) + 1] = v /\ \A n \in 1 .. Len(s) : t[n] = s[n]
  OBVIOUS
<1> HIDE DEF t
<1>2. B = IF v = k THEN A \cup {Len(s) + 1} ELSE A
  <2>1. \A n \in 1 .. Len(s) + 1 : n \in 1 .. Len(s) \/ n = Len(s) + 1
    BY <1>1
  <2>2. Len(s) + 1 \in 1 .. Len(s) + 1 /\ 1 .. Len(s) \subseteq 1 .. Len(s) + 1 /\ Len(s) + 1 \notin 1 .. Len(s)
    BY <1>1
  <2> QED
    BY <1>1, <2>1, <2>2
<1>3. IsFiniteSet(A) /\ Len(s) + 1 \notin A
  <2>1. IsFiniteSet(A)
    BY InSeqIsNat
  <2>2. Len(s) + 1 \notin 1 .. Len(s)
    BY <1>1
  <2> QED
    BY <1>1, <2>1, <2>2
<1>4. Cardinality(A \cup {Len(s) + 1}) = Cardinality(A) + 1 /\ Cardinality(A) \in Nat
  BY <1>3, FS_AddElement, FS_CardinalityType
<1>5. InSeq(t, k) = Cardinality(B) /\ InSeq(s, k) = Cardinality(A)
  BY DEF InSeq
<1> HIDE DEF A, B
<1>6. Cardinality(B) = Cardinality(A) + Is(v, k)
  BY <1>2, <1>4 DEF Is, Within
<1> QED
  BY <1>5, <1>6 DEF t

LEMMA CountTail ==
  ASSUME NEW S, NEW s \in Seq(S), s # << >>, NEW k
  PROVE  InSeq(s, k) = InSeq(Tail(s), k) + Is(Head(s), k)
<1> DEFINE t == Tail(s)
           A == {n \in 2 .. Len(s) : s[n] = k}
           B == {n \in DOMAIN t : t[n] = k}
           C == {n \in DOMAIN s : s[n] = k}
<1>1. /\ Len(s) \in Nat /\ Len(s) >= 1 /\ DOMAIN s = 1 .. Len(s) /\ DOMAIN t = 1 .. Len(s) - 1
      /\ Head(s) = s[1] /\ \A n \in 1 .. Len(s) - 1 : t[n] = s[n + 1]
  OBVIOUS
<1> HIDE DEF t
<1>2. C = IF s[1] = k THEN A \cup {1} ELSE A
  <2>1. \A n \in 1 .. Len(s) : n \in 2 .. Len(s) \/ n = 1
    BY <1>1
  <2>2. 1 \in 1 .. Len(s) /\ 2 .. Len(s) \subseteq 1 .. Len(s)
    BY <1>1
  <2> QED
    BY <1>1, <2>1, <2>2
<1>3. IsFiniteSet(A) /\ 1 \notin A
  <2>1. IsFiniteSet(2 .. Len(s)) /\ 1 \notin 2 .. Len(s)
    BY FS_Interval
  <2> QED
    BY <2>1, FS_Subset
<1>4. Cardinality(A \cup {1}) = Cardinality(A) + 1 /\ Cardinality(A) \in Nat
  BY <1>3, FS_AddElement, FS_CardinalityType
<1>5. Cardinality(A) = Cardinality(B)
  <2> DEFINE f == [n \in A |-> n - 1]
  <2>1. \A n \in A : n \in 2 .. Len(s) /\ n - 1 \in 1 .. Len(s) - 1 /\ t[n - 1] = s[n]
    <3> SUFFICES ASSUME NEW n \in 2 .. Len(s) PROVE n - 1 \in 1 .. Len(s) - 1 /\ t[n - 1] = s[n]
      OBVIOUS
    <3>1. n - 1 \in 1 .. Len(s) - 1 /\ (n - 1) + 1 = n
      BY <1>1
    <3> QED
      BY <1>1, <3>1
  <2>2. f \in Injection(A, B)
    <3>1. f \in [A -> B]
      BY <1>1, <2>1
    <3>2. \A m, n \in A : f[m] = f[n] => m = n
      BY <2>1
    <3> QED
      BY <3>1, <3>2 DEF Injection, IsInjective
  <2>3. \A m \in B : m + 1 \in A /\ f[m + 1] = m
    <3> SUFFICES ASSUME NEW m \in B PROVE m + 1 \in A /\ f[m + 1] = m
      OBVIOUS
    <3>1. m \in 1 .. Len(s) - 1 /\ m + 1 \in 2 .. Len(s) /\ t[m] = s[m + 1] /\ t[m] = k
      BY <1>1
    <3>2. s[m + 1] = k /\ (m + 1) - 1 = m
      BY <3>1
    <3>3. m + 1 \in A
      BY <3>1, <3>2
    <3> QED
      BY <3>2, <3>3
  <2>4. f \in Surjection(A, B)
    <3>1. \A m \in B : \E n \in A : f[n] = m
      BY <2>3
    <3>2. f \in [A -> B]
      BY <1>1, <2>1
    <3> QED
      BY <3>1, <3>2 DEF Surjection
  <2>5. f \in Bijection(A, B)
    BY <2>2, <2>4 DEF Bijection
  <2> QED
    BY <1>3, <2>5, FS_Bijection DEF ExistsBijection
<1>6. InSeq(s, k) = Cardinality(C) /\ InSeq(t, k) = Cardinality(B)
  BY DEF InSeq
<1> HIDE DEF A, B, C
<1>7. Cardinality(C) = Cardinality(A) + Is(s[1], k)
  BY <1>2, <1>4 DEF Is, Within
<1> QED
  BY <1>1, <1>5, <1>6, <1>7 DEF t

(***************************************************************************)
(* The owners of a frame, place by place.                                  *)
(***************************************************************************)
HCount(k) == CountOf(hFrame, Inputs, k)
NCount(k) == CountOf(newH, Inputs, k)
GCount(k) == InSeq(g_q, k)
QCount(k) == InSeq(queues[1], k) + InSeq(queues[2], k)

OwnersAre ==
  ClientTypes => \A k \in Frames :
    /\ Owners(k) = HCount(k) + NCount(k) + GCount(k) + QCount(k)
    /\ HCount(k) \in Nat /\ NCount(k) \in Nat /\ GCount(k) \in Nat /\ QCount(k) \in Nat

LEMMA OwnersNow == OwnersAre /\ OwnersAre'
<1>1. OwnersAre
  <2> SUFFICES ASSUME ClientTypes, NEW k \in Frames
               PROVE  /\ Owners(k) = HCount(k) + NCount(k) + GCount(k) + QCount(k)
                      /\ HCount(k) \in Nat /\ NCount(k) \in Nat /\ GCount(k) \in Nat /\ QCount(k) \in Nat
    BY DEF OwnersAre
  <2>1. inputs \in {1, 2} /\ queues[1] \in Seq(Frames) /\ queues[2] \in Seq(Frames) /\ g_q \in Seq(Frames)
    BY DEF ClientTypes, Outputs
  <2>2. IsFiniteSet(Inputs)
    BY <2>1, FS_Interval DEF Inputs
  <2>3. HCount(k) \in Nat /\ NCount(k) \in Nat
    <3>1. IsFiniteSet({i \in Inputs : hFrame[i] = k}) /\ IsFiniteSet({i \in Inputs : newH[i] = k})
      BY <2>2, FS_Subset
    <3> QED
      BY <3>1, FS_CardinalityType DEF HCount, NCount, CountOf
  <2>4. GCount(k) \in Nat /\ InSeq(queues[1], k) \in Nat /\ InSeq(queues[2], k) \in Nat
    BY <2>1, InSeqIsNat DEF GCount
  <2>5. QCount(k) \in Nat
    BY <2>4 DEF QCount
  <2>6. Owners(k) = HCount(k) + NCount(k) + GCount(k) + InSeq(queues[1], k) + InSeq(queues[2], k)
    BY DEF Owners, HCount, NCount, GCount, InSeq, CountOf
  <2>7. Owners(k) = HCount(k) + NCount(k) + GCount(k) + QCount(k)
    BY <2>3, <2>4, <2>6 DEF QCount
  <2> QED
    BY <2>3, <2>4, <2>5, <2>7
<1> QED
  BY <1>1, PTL

\* A frame somebody owns is counted.
OwnedCount ==
  OwnersInv =>
    /\ \A i \in Inputs : hFrame[i] \in Frames => refs[hFrame[i]] > 0
    /\ \A i \in Inputs : newH[i] \in Frames => refs[newH[i]] > 0
    /\ \A o \in Outputs : \A n \in DOMAIN queues[o] : queues[o][n] \in Frames /\ refs[queues[o][n]] > 0
    /\ \A n \in DOMAIN g_q : g_q[n] \in Frames /\ refs[g_q[n]] > 0

LEMMA OwnedNow == OwnedCount /\ OwnedCount'
<1>1. OwnedCount
  <2> SUFFICES ASSUME OwnersInv
               PROVE  /\ \A i \in Inputs : hFrame[i] \in Frames => refs[hFrame[i]] > 0
                      /\ \A i \in Inputs : newH[i] \in Frames => refs[newH[i]] > 0
                      /\ \A o \in Outputs : \A n \in DOMAIN queues[o] :
                           queues[o][n] \in Frames /\ refs[queues[o][n]] > 0
                      /\ \A n \in DOMAIN g_q : g_q[n] \in Frames /\ refs[g_q[n]] > 0
    BY DEF OwnedCount
  <2>1. \A k \in Frames : /\ refs[k] = HCount(k) + NCount(k) + GCount(k) + QCount(k)
                          /\ HCount(k) \in Nat /\ NCount(k) \in Nat /\ GCount(k) \in Nat /\ QCount(k) \in Nat
    BY OwnersNow DEF OwnersAre, OwnersInv, FramesAreOwned
  <2>2. inputs \in {1, 2} /\ \A o \in Outputs : queues[o] \in Seq(Frames)
    BY DEF OwnersInv, ClientTypes
  <2>3. ASSUME NEW i \in Inputs, hFrame[i] \in Frames PROVE refs[hFrame[i]] > 0
    <3> DEFINE k == hFrame[i]
               H == {j \in Inputs : hFrame[j] = k}
    <3>1. IsFiniteSet(Inputs)
      BY <2>2, FS_Interval DEF Inputs
    <3>2. IsFiniteSet(H) /\ i \in H
      BY <3>1, FS_Subset
    <3>3. Cardinality(H) \in Nat /\ Cardinality(H) # 0
      BY <3>2, FS_CardinalityType, FS_EmptySet
    <3>4. HCount(k) = Cardinality(H)
      BY DEF HCount, CountOf
    <3>5. k \in Frames
      BY <2>3
    <3> HIDE DEF k, H
    <3>6. refs[k] > 0
      BY <2>1, <3>3, <3>4, <3>5
    <3> QED
      BY <3>6 DEF k
  <2>4. ASSUME NEW o \in Outputs, NEW n \in DOMAIN queues[o]
        PROVE  queues[o][n] \in Frames /\ refs[queues[o][n]] > 0
    <3> DEFINE k == queues[o][n]
    <3>1. k \in Frames
      BY <2>2
    <3>2. InSeq(queues[o], k) > 0
      BY <2>2, InSeqIsNat
    <3>3. InSeq(queues[1], k) \in Nat /\ InSeq(queues[2], k) \in Nat /\ (o = 1 \/ o = 2)
      BY <2>2, InSeqIsNat DEF Outputs
    <3> HIDE DEF k
    <3>4. QCount(k) > 0
      BY <3>2, <3>3 DEF QCount
    <3>5. refs[k] > 0
      BY <2>1, <3>1, <3>4
    <3> QED
      BY <3>1, <3>5 DEF k
  <2>5. ASSUME NEW i \in Inputs, newH[i] \in Frames PROVE refs[newH[i]] > 0
    <3> DEFINE k == newH[i]
               H == {j \in Inputs : newH[j] = k}
    <3>1. IsFiniteSet(Inputs)
      BY <2>2, FS_Interval DEF Inputs
    <3>2. IsFiniteSet(H) /\ i \in H
      BY <3>1, FS_Subset
    <3>3. Cardinality(H) \in Nat /\ Cardinality(H) # 0
      BY <3>2, FS_CardinalityType, FS_EmptySet
    <3>4. NCount(k) = Cardinality(H)
      BY DEF NCount, CountOf
    <3>5. k \in Frames
      BY <2>5
    <3> HIDE DEF k, H
    <3>6. refs[k] > 0
      BY <2>1, <3>3, <3>4, <3>5
    <3> QED
      BY <3>6 DEF k
  <2>6. ASSUME NEW n \in DOMAIN g_q PROVE g_q[n] \in Frames /\ refs[g_q[n]] > 0
    <3> DEFINE k == g_q[n]
    <3>1. g_q \in Seq(Frames)
      BY DEF OwnersInv, ClientTypes
    <3>2. k \in Frames
      BY <3>1
    <3>3. InSeq(g_q, k) > 0
      BY <3>1, InSeqIsNat
    <3> HIDE DEF k
    <3>4. refs[k] > 0
      BY <2>1, <3>2, <3>3 DEF GCount
    <3> QED
      BY <3>2, <3>4 DEF k
  <2> QED
    BY <2>3, <2>4, <2>5, <2>6
<1> QED
  BY <1>1, PTL

(***************************************************************************)
(* A thread goes on, with other frames in its hands.                       *)
(***************************************************************************)
Thread(i, to, h, n) ==
  /\ program' = program /\ inputs' = inputs
  /\ inAt' = [inAt EXCEPT ![i] = to]
  /\ hFrame' = [hFrame EXCEPT ![i] = h] /\ newH' = [newH EXCEPT ![i] = n]

\* What a thread at a place must have.
HasThere(to) == to \in Holding \/ (program = "probe" /\ to \in {"size", "pop"})

LEMMA ThreadMoves ==
  ASSUME ClientTypes, PlacesInv, NEW i \in Inputs, NEW to \in Places,
         NEW h \in Frames \cup {0}, NEW n \in Frames \cup {0}, Thread(i, to, h, n),
         h # 0 <=> HasThere(to), n # 0 <=> to \in Making
  PROVE  /\ Inputs' = Inputs /\ Frames' = Frames /\ inputs' \in {1, 2}
         /\ inAt' \in [Inputs -> Places] /\ hFrame' \in [Inputs -> Frames \cup {0}]
         /\ newH' \in [Inputs -> Frames \cup {0}]
         /\ PlacesInv'
         /\ \A k \in Frames :
              /\ HCount(k)' = HCount(k) - Is(hFrame[i], k) + Is(h, k)
              /\ NCount(k)' = NCount(k) - Is(newH[i], k) + Is(n, k)
<1>1. Inputs' = Inputs /\ Frames' = Frames /\ inputs' \in {1, 2} /\ inputs \in {1, 2}
  BY DEF Thread, ClientTypes, Inputs, Frames, Limit
<1>2. inAt \in [Inputs -> Places] /\ hFrame \in [Inputs -> Frames \cup {0}] /\ newH \in [Inputs -> Frames \cup {0}]
  BY DEF ClientTypes
<1>3. /\ inAt' = [inAt EXCEPT ![i] = to] /\ program' = program
      /\ hFrame' = [hFrame EXCEPT ![i] = h] /\ newH' = [newH EXCEPT ![i] = n]
  BY DEF Thread
<1>4. /\ inAt' \in [Inputs -> Places] /\ hFrame' \in [Inputs -> Frames \cup {0}]
      /\ newH' \in [Inputs -> Frames \cup {0}]
  BY <1>2, <1>3
<1>5. /\ hFrame'[i] = h /\ newH'[i] = n /\ inAt'[i] = to
      /\ \A j \in Inputs : j # i => hFrame'[j] = hFrame[j] /\ newH'[j] = newH[j] /\ inAt'[j] = inAt[j]
  BY <1>2, <1>3
<1>6. PlacesInv'
  <2> SUFFICES ASSUME NEW j \in Inputs
               PROVE  (hFrame'[j] # 0 <=> HasFrame(j)') /\ (newH'[j] # 0 <=> inAt'[j] \in Making)
    BY <1>1 DEF PlacesInv
  <2>1. CASE j = i
    BY <1>3, <1>5, <2>1 DEF HasFrame, HasThere
  <2>2. CASE j # i
    BY <1>3, <1>5, <2>2 DEF HasFrame, PlacesInv
  <2> QED
    BY <2>1, <2>2
<1>7. IsFiniteSet(Inputs)
  BY <1>1, FS_Interval DEF Inputs
<1>8. ASSUME NEW k \in Frames
      PROVE  /\ HCount(k)' = HCount(k) - Is(hFrame[i], k) + Is(h, k)
             /\ NCount(k)' = NCount(k) - Is(newH[i], k) + Is(n, k)
  <2>1. /\ HCount(k) = CountOf(hFrame, Inputs, k) /\ HCount(k)' = CountOf(hFrame', Inputs, k)
        /\ NCount(k) = CountOf(newH, Inputs, k) /\ NCount(k)' = CountOf(newH', Inputs, k)
    BY <1>1 DEF HCount, NCount
  <2>2. CountOf(hFrame', Inputs, k) = CountOf(hFrame, Inputs, k) - Is(hFrame[i], k) + Is(hFrame'[i], k)
    <3>1. SameBut(hFrame, hFrame', Inputs, i)
      BY <1>5 DEF SameBut
    <3> QED
      BY <1>7, <3>1, CountOne
  <2>3. CountOf(newH', Inputs, k) = CountOf(newH, Inputs, k) - Is(newH[i], k) + Is(newH'[i], k)
    <3>1. SameBut(newH, newH', Inputs, i)
      BY <1>5 DEF SameBut
    <3> QED
      BY <1>7, <3>1, CountOne
  <2> QED
    BY <1>5, <2>1, <2>2, <2>3
<1> QED
  BY <1>1, <1>4, <1>6, <1>8

\* What the step takes from and gives to the other owners.
Balanced(i, h, n) ==
  \A k \in Frames :
    refs'[k] = refs[k] - Is(hFrame[i], k) + Is(h, k) - Is(newH[i], k) + Is(n, k)
               + (GCount(k)' - GCount(k)) + (QCount(k)' - QCount(k))

\* What becomes of the references is what becomes of the owners.
LEMMA ThreadOwners ==
  ASSUME OwnersInv, NEW i \in Inputs, NEW to \in Places,
         NEW h \in Frames \cup {0}, NEW n \in Frames \cup {0}, Thread(i, to, h, n),
         h # 0 <=> HasThere(to), n # 0 <=> to \in Making,
         refs' \in [Frames -> Int], queues' \in [Outputs -> Seq(Frames)], g_q' \in Seq(Frames),
         Balanced(i, h, n)
  PROVE  OwnersInv'
<1>1. /\ Inputs' = Inputs /\ Frames' = Frames /\ inputs' \in {1, 2}
      /\ inAt' \in [Inputs -> Places] /\ hFrame' \in [Inputs -> Frames \cup {0}]
      /\ newH' \in [Inputs -> Frames \cup {0}]
      /\ PlacesInv'
  BY ThreadMoves DEF OwnersInv
<1>2. \A k \in Frames :
        /\ HCount(k)' = HCount(k) - Is(hFrame[i], k) + Is(h, k)
        /\ NCount(k)' = NCount(k) - Is(newH[i], k) + Is(n, k)
  <2>1. ClientTypes /\ PlacesInv
    BY DEF OwnersInv
  <2> QED
    BY <2>1, ThreadMoves, ZenonT(40)
<1>3. ClientTypes'
  BY <1>1 DEF ClientTypes
<1>4. \A k \in Frames :
        /\ refs[k] = HCount(k) + NCount(k) + GCount(k) + QCount(k)
        /\ HCount(k) \in Nat /\ NCount(k) \in Nat /\ GCount(k) \in Nat /\ QCount(k) \in Nat
  BY OwnersNow DEF OwnersAre, OwnersInv, FramesAreOwned
<1>5. \A k \in Frames :
        /\ Owners(k)' = HCount(k)' + NCount(k)' + GCount(k)' + QCount(k)'
        /\ GCount(k)' \in Nat /\ QCount(k)' \in Nat
  BY <1>1, <1>3, OwnersNow DEF OwnersAre
<1>6. ASSUME NEW k \in Frames PROVE refs'[k] = Owners(k)'
  <2> DEFINE a == Is(hFrame[i], k)
             b == Is(h, k)
             c == Is(newH[i], k)
             d == Is(n, k)
             H == HCount(k)
             H2 == HCount(k)'
             N == NCount(k)
             N2 == NCount(k)'
             G == GCount(k)
             G2 == GCount(k)'
             Q == QCount(k)
             Q2 == QCount(k)'
             r == refs[k]
             r2 == refs'[k]
  <2>1. a \in Int /\ b \in Int /\ c \in Int /\ d \in Int
    BY DEF Is
  <2>2. r2 = r - a + b - c + d + (G2 - G) + (Q2 - Q)
    BY DEF Balanced
  <2>3. H2 = H - a + b /\ N2 = N - c + d
    BY <1>2
  <2>4. r = H + N + G + Q /\ H \in Nat /\ N \in Nat /\ G \in Nat /\ Q \in Nat
    BY <1>4
  <2>5. Owners(k)' = H2 + N2 + G2 + Q2 /\ G2 \in Nat /\ Q2 \in Nat
    BY <1>5
  <2>6. r2 = H2 + N2 + G2 + Q2
    <3> HIDE DEF a, b, c, d, H, H2, N, N2, G, G2, Q, Q2, r, r2
    <3> QED
      BY <2>1, <2>2, <2>3, <2>4, <2>5
  <2> QED
    BY <2>5, <2>6
<1>7. FramesAreOwned'
  BY <1>1, <1>6 DEF FramesAreOwned
<1> QED
  BY <1>1, <1>3, <1>7 DEF OwnersInv

(***************************************************************************)
(* What the calls of the library do to the references.                     *)
(***************************************************************************)
\* libvMI_send, or no call of it, and the release.
LEMMA SendsCount ==
  ASSUME ClientTypes, NEW f \in Frames, NEW outputs \in SUBSET Outputs,
         queues' = [o \in Outputs |-> IF o \in outputs THEN Append(queues[o], f) ELSE queues[o]],
         refs' = [refs EXCEPT ![f] = refs[f] + Cardinality(outputs) - 1]
  PROVE  /\ refs' \in [Frames -> Int] /\ queues' \in [Outputs -> Seq(Frames)]
         /\ \A k \in Frames : /\ refs'[k] = refs[k] - Is(f, k) + (QCount(k)' - QCount(k))
                              /\ QCount(k) \in Nat /\ QCount(k)' \in Nat
<1>1. queues \in [Outputs -> Seq(Frames)] /\ refs \in [Frames -> Int]
  BY DEF ClientTypes
<1>2. Cardinality(outputs) = Within(1, outputs) + Within(2, outputs)
  <2>1. outputs = {} \/ outputs = {1} \/ outputs = {2} \/ outputs = {1, 2}
    BY DEF Outputs
  <2>2. Cardinality({}) = 0 /\ Cardinality({1}) = 1 /\ Cardinality({2}) = 1
    BY FS_EmptySet, FS_Singleton
  <2>3. Cardinality({1, 2}) = 2
    <3>1. IsFiniteSet({1}) /\ Cardinality({1}) = 1
      BY FS_Singleton
    <3>2. 2 \notin {1}
      OBVIOUS
    <3>3. Cardinality({1} \cup {2}) = Cardinality({1}) + 1
      BY <3>1, <3>2, FS_AddElement, Zenon
    <3>4. Cardinality({1} \cup {2}) = 2
      <4>1. Cardinality({1} \cup {2}) = 1 + 1
        BY <3>1, <3>3, Zenon
      <4> QED
        BY <4>1
    <3>5. {1} \cup {2} = {1, 2}
      OBVIOUS
    <3> QED
      BY <3>4, <3>5, Zenon
  <2>4. CASE outputs = {}
    BY <2>2, <2>4 DEF Is, Within
  <2>5. CASE outputs = {1}
    BY <2>2, <2>5 DEF Is, Within
  <2>6. CASE outputs = {2}
    BY <2>2, <2>6 DEF Is, Within
  <2>7. CASE outputs = {1, 2}
    BY <2>3, <2>7 DEF Is, Within
  <2> QED
    BY <2>1, <2>4, <2>5, <2>6, <2>7
<1>3. queues' \in [Outputs -> Seq(Frames)]
  BY <1>1
<1>4. Within(1, outputs) \in Nat /\ Within(2, outputs) \in Nat
  BY DEF Is, Within
<1>5. refs' \in [Frames -> Int]
  BY <1>1, <1>2, <1>4
<1>6. ASSUME NEW k \in Frames
      PROVE  /\ refs'[k] = refs[k] - Is(f, k) + (QCount(k)' - QCount(k))
             /\ QCount(k) \in Nat /\ QCount(k)' \in Nat
  <2>1. 1 \in Outputs /\ 2 \in Outputs /\ queues[1] \in Seq(Frames) /\ queues[2] \in Seq(Frames)
    BY <1>1 DEF Outputs
  <2>2. /\ queues'[1] = IF 1 \in outputs THEN Append(queues[1], f) ELSE queues[1]
        /\ queues'[2] = IF 2 \in outputs THEN Append(queues[2], f) ELSE queues[2]
    BY <2>1
  <2>3. InSeq(queues[1], k) \in Nat /\ InSeq(queues[2], k) \in Nat
    BY <2>1, InSeqIsNat
  <2>4. InSeq(queues'[1], k) = InSeq(queues[1], k) + (IF f = k THEN Within(1, outputs) ELSE 0)
    <3>1. CASE 1 \in outputs
      BY <2>1, <2>2, <3>1, CountAppend DEF Is, Within
    <3>2. CASE 1 \notin outputs
      BY <2>1, <2>2, <2>3, <3>2 DEF Is, Within
    <3> QED
      BY <3>1, <3>2
  <2>5. InSeq(queues'[2], k) = InSeq(queues[2], k) + (IF f = k THEN Within(2, outputs) ELSE 0)
    <3>1. CASE 2 \in outputs
      BY <2>1, <2>2, <3>1, CountAppend DEF Is, Within
    <3>2. CASE 2 \notin outputs
      BY <2>1, <2>2, <2>3, <3>2 DEF Is, Within
    <3> QED
      BY <3>1, <3>2
  <2>6. QCount(k) \in Nat /\ QCount(k)' \in Nat
    BY <1>4, <2>3, <2>4, <2>5 DEF QCount
  <2>7. QCount(k)' = QCount(k) + (IF f = k THEN Cardinality(outputs) ELSE 0)
    BY <1>2, <1>4, <2>3, <2>4, <2>5 DEF QCount
  <2>8. refs'[k] = (IF f = k THEN refs[k] + Cardinality(outputs) - 1 ELSE refs[k]) /\ refs[k] \in Int
    BY <1>1
  <2> QED
    BY <1>2, <1>4, <2>6, <2>7, <2>8 DEF Is, Within
<1> QED
  BY <1>3, <1>5, <1>6

LEMMA FramesAreNumbers ==
  /\ Frames \subseteq Nat /\ 0 \notin Frames
  /\ Free # {} => FirstFree \in Frames /\ refs[FirstFree] = 0
<1>1. Frames \subseteq Nat /\ 0 \notin Frames
  BY DEF Frames
<1>2. Free \subseteq Nat
  BY <1>1 DEF Free
<1>3. ASSUME Free # {} PROVE FirstFree \in Free
  <2>1. PICK k \in Free : \A j \in Free : <<j, k>> \notin OpToRel(<, Nat)
    BY <1>2, <1>3, WFMin, NatLessThanWellFounded
  <2>2. \A j \in Free : ~(j < k)
    BY <1>2, <2>1 DEF OpToRel
  <2>3. \A j \in Free : k <= j
    BY <1>2, <2>2
  <2> QED
    BY <2>3 DEF FirstFree
<1> QED
  BY <1>1, <1>3 DEF Free

LEMMA IsFacts ==
  ASSUME NEW k \in Frames
  PROVE  Is(0, k) = 0 /\ \A x : Is(x, k) \in {0, 1}
BY FramesAreNumbers DEF Is

LEMMA QueuesKeep ==
  ASSUME queues' = queues, NEW k
  PROVE  QCount(k)' = QCount(k)
BY DEF QCount

LEMMA DelayedKeep ==
  ASSUME g_q' = g_q, NEW k
  PROVE  GCount(k)' = GCount(k)
BY DEF GCount

\* The counts are numbers, before and after.
LEMMA CountsAre ==
  ASSUME ClientTypes, program' = program, queues' \in [Outputs -> Seq(Frames)], g_q' \in Seq(Frames), NEW k \in Frames
  PROVE  /\ GCount(k) \in Nat /\ QCount(k) \in Nat /\ refs[k] \in Int
         /\ GCount(k)' \in Nat /\ QCount(k)' \in Nat
<1>1. g_q \in Seq(Frames) /\ queues[1] \in Seq(Frames) /\ queues[2] \in Seq(Frames) /\ refs[k] \in Int
  BY DEF ClientTypes, Outputs
<1>2. queues'[1] \in Seq(Frames) /\ queues'[2] \in Seq(Frames)
  BY DEF Outputs
<1>3. InSeq(g_q, k) \in Nat /\ InSeq(queues[1], k) \in Nat /\ InSeq(queues[2], k) \in Nat
  BY <1>1, InSeqIsNat
<1>4. InSeq(g_q', k) \in Nat /\ InSeq(queues'[1], k) \in Nat /\ InSeq(queues'[2], k) \in Nat
  BY <1>2, InSeqIsNat
<1> QED
  BY <1>1, <1>3, <1>4 DEF GCount, QCount

(***************************************************************************)
(* The steps, by what they do with the frames of a thread.                 *)
(***************************************************************************)
\* The thread keeps what it has, and nothing else changes hands.
LEMMA Walks ==
  ASSUME OwnersInv, NEW i \in Inputs, NEW to \in Places,
         UNCHANGED <<program, inputs, refs, hFrame, newH, queues, g_q>>, inAt' = [inAt EXCEPT ![i] = to],
         HasThere(to) <=> HasThere(inAt[i]), to \in Making <=> inAt[i] \in Making
  PROVE  OwnersInv'
<1>1. ClientTypes /\ PlacesInv
  BY DEF OwnersInv
<1>2. hFrame[i] \in Frames \cup {0} /\ newH[i] \in Frames \cup {0}
  BY <1>1 DEF ClientTypes
<1>3. Thread(i, to, hFrame[i], newH[i])
  <2>1. hFrame \in [Inputs -> Frames \cup {0}] /\ newH \in [Inputs -> Frames \cup {0}]
    BY <1>1 DEF ClientTypes
  <2> QED
    BY <2>1 DEF Thread
<1>4. (hFrame[i] # 0 <=> HasThere(to)) /\ (newH[i] # 0 <=> to \in Making)
  BY <1>1 DEF PlacesInv, HasFrame, HasThere
<1>5. refs' \in [Frames -> Int] /\ queues' \in [Outputs -> Seq(Frames)] /\ g_q' \in Seq(Frames)
  BY <1>1 DEF ClientTypes
<1>6. Balanced(i, hFrame[i], newH[i])
  <2> SUFFICES ASSUME NEW k \in Frames
               PROVE  refs'[k] = refs[k] - Is(hFrame[i], k) + Is(hFrame[i], k) - Is(newH[i], k) + Is(newH[i], k)
                                 + (GCount(k)' - GCount(k)) + (QCount(k)' - QCount(k))
    BY DEF Balanced
  <2> DEFINE a == Is(hFrame[i], k)
             c == Is(newH[i], k)
             G == GCount(k)
             G2 == GCount(k)'
             Q == QCount(k)
             Q2 == QCount(k)'
             r == refs[k]
             r2 == refs'[k]
  <2>1. a \in Int /\ c \in Int
    BY IsFacts
  <2>2. G2 = G /\ Q2 = Q
    BY QueuesKeep, DelayedKeep
  <2>3. G \in Int /\ Q \in Int /\ r \in Int /\ r2 = r
    BY <1>1, <1>5, CountsAre
  <2>4. r2 = r - a + a - c + c + (G2 - G) + (Q2 - Q)
    <3> HIDE DEF a, c, G, G2, Q, Q2, r, r2
    <3> QED
      BY <2>1, <2>2, <2>3
  <2> QED
    BY <2>4
<1> QED
  BY <1>2, <1>3, <1>4, <1>5, <1>6, ThreadOwners

\* The thread gives its frame to outputs, or to nobody, and returns.
LEMMA Passes ==
  ASSUME OwnersInv, NEW i \in Inputs, NEW outputs \in SUBSET Outputs,
         HasThere(inAt[i]), inAt[i] \notin Making,
         UNCHANGED <<program, inputs, newH, g_q>>, Returns(i, inAt[i]),
         queues' = [o \in Outputs |-> IF o \in outputs THEN Append(queues[o], hFrame[i]) ELSE queues[o]],
         refs' = [refs EXCEPT ![hFrame[i]] = refs[hFrame[i]] + Cardinality(outputs) - 1]
  PROVE  OwnersInv'
<1>1. ClientTypes /\ PlacesInv
  BY DEF OwnersInv
<1>2. hFrame[i] \in Frames /\ newH[i] = 0
  BY <1>1 DEF ClientTypes, PlacesInv, HasFrame, HasThere
<1>3. Thread(i, "read", 0, 0) /\ "read" \in Places
  <2>1. newH \in [Inputs -> Frames \cup {0}]
    BY <1>1 DEF ClientTypes
  <2> QED
    BY <1>2, <2>1 DEF Thread, Returns, Goes, Places
<1>4. ~HasThere("read") /\ "read" \notin Making
  BY DEF HasThere, Holding, Making
<1>5. /\ refs' \in [Frames -> Int] /\ queues' \in [Outputs -> Seq(Frames)]
      /\ \A k \in Frames : /\ refs'[k] = refs[k] - Is(hFrame[i], k) + (QCount(k)' - QCount(k))
                           /\ QCount(k) \in Nat /\ QCount(k)' \in Nat
  BY <1>1, <1>2, SendsCount
<1>6. g_q' \in Seq(Frames)
  BY <1>1 DEF ClientTypes
<1>7. Balanced(i, 0, 0)
  <2> SUFFICES ASSUME NEW k \in Frames
               PROVE  refs'[k] = refs[k] - Is(hFrame[i], k) + Is(0, k) - Is(newH[i], k) + Is(0, k)
                                 + (GCount(k)' - GCount(k)) + (QCount(k)' - QCount(k))
    BY DEF Balanced
  <2> DEFINE a == Is(hFrame[i], k)
             G == GCount(k)
             G2 == GCount(k)'
             Q == QCount(k)
             Q2 == QCount(k)'
             r == refs[k]
             r2 == refs'[k]
  <2>1. a \in Int /\ Is(newH[i], k) = 0 /\ Is(0, k) = 0
    BY <1>2, IsFacts
  <2>2. G2 = G /\ G \in Int /\ r \in Int
    BY <1>1, <1>5, <1>6, CountsAre, DelayedKeep
  <2>3. r2 = r - a + (Q2 - Q) /\ Q \in Int /\ Q2 \in Int
    BY <1>5
  <2>4. r2 = r - a + Is(0, k) - Is(newH[i], k) + Is(0, k) + (G2 - G) + (Q2 - Q)
    <3> HIDE DEF a, G, G2, Q, Q2, r, r2
    <3> QED
      BY <2>1, <2>2, <2>3
  <2> QED
    BY <2>4
<1> QED
  BY <1>3, <1>4, <1>5, <1>6, <1>7, ThreadOwners

\* The thread sends the frame it made.
LEMMA SendsMade ==
  ASSUME OwnersInv, NEW i \in Inputs, NEW to \in Places, NEW outputs \in SUBSET Outputs,
         inAt[i] \in Making, to \notin Making, HasThere(to) <=> HasThere(inAt[i]),
         UNCHANGED <<program, inputs, hFrame, g_q>>, inAt' = [inAt EXCEPT ![i] = to],
         newH' = [newH EXCEPT ![i] = 0],
         queues' = [o \in Outputs |-> IF o \in outputs THEN Append(queues[o], newH[i]) ELSE queues[o]],
         refs' = [refs EXCEPT ![newH[i]] = refs[newH[i]] + Cardinality(outputs) - 1]
  PROVE  OwnersInv'
<1>1. ClientTypes /\ PlacesInv
  BY DEF OwnersInv
<1>2. newH[i] \in Frames /\ hFrame[i] \in Frames \cup {0} /\ (hFrame[i] # 0 <=> HasThere(to))
  BY <1>1 DEF ClientTypes, PlacesInv, HasFrame, HasThere
<1>3. Thread(i, to, hFrame[i], 0)
  <2>1. hFrame \in [Inputs -> Frames \cup {0}]
    BY <1>1 DEF ClientTypes
  <2> QED
    BY <2>1 DEF Thread
<1>4. /\ refs' \in [Frames -> Int] /\ queues' \in [Outputs -> Seq(Frames)]
      /\ \A k \in Frames : /\ refs'[k] = refs[k] - Is(newH[i], k) + (QCount(k)' - QCount(k))
                           /\ QCount(k) \in Nat /\ QCount(k)' \in Nat
  BY <1>1, <1>2, SendsCount
<1>5. g_q' \in Seq(Frames)
  BY <1>1 DEF ClientTypes
<1>6. Balanced(i, hFrame[i], 0)
  <2> SUFFICES ASSUME NEW k \in Frames
               PROVE  refs'[k] = refs[k] - Is(hFrame[i], k) + Is(hFrame[i], k) - Is(newH[i], k) + Is(0, k)
                                 + (GCount(k)' - GCount(k)) + (QCount(k)' - QCount(k))
    BY DEF Balanced
  <2> DEFINE a == Is(hFrame[i], k)
             c == Is(newH[i], k)
             G == GCount(k)
             G2 == GCount(k)'
             Q == QCount(k)
             Q2 == QCount(k)'
             r == refs[k]
             r2 == refs'[k]
  <2>1. a \in Int /\ c \in Int /\ Is(0, k) = 0
    BY IsFacts
  <2>2. G2 = G /\ G \in Int /\ r \in Int
    BY <1>1, <1>4, <1>5, CountsAre, DelayedKeep
  <2>3. r2 = r - c + (Q2 - Q) /\ Q \in Int /\ Q2 \in Int
    BY <1>4
  <2>4. r2 = r - a + a - c + Is(0, k) + (G2 - G) + (Q2 - Q)
    <3> HIDE DEF a, c, G, G2, Q, Q2, r, r2
    <3> QED
      BY <2>1, <2>2, <2>3
  <2> QED
    BY <2>4
<1> QED
  BY <1>2, <1>3, <1>4, <1>5, <1>6, ThreadOwners

\* The thread takes a frame of the list, for itself or for the callback.
LEMMA Takes ==
  ASSUME OwnersInv, NEW i \in Inputs, NEW to \in Places, NEW h, NEW n, Free # {},
         UNCHANGED <<program, inputs, queues, g_q>>, Thread(i, to, h, n),
         refs' = [refs EXCEPT ![FirstFree] = 1],
         h # 0 <=> HasThere(to), n # 0 <=> to \in Making,
         \/ hFrame[i] = 0 /\ h = FirstFree /\ n = newH[i]
         \/ newH[i] = 0 /\ n = FirstFree /\ h = hFrame[i]
  PROVE  OwnersInv'
<1>1. ClientTypes /\ PlacesInv
  BY DEF OwnersInv
<1>2. FirstFree \in Frames /\ refs[FirstFree] = 0
  BY FramesAreNumbers
<1>3. h \in Frames \cup {0} /\ n \in Frames \cup {0}
  BY <1>1, <1>2 DEF ClientTypes
<1>4. refs' \in [Frames -> Int] /\ queues' \in [Outputs -> Seq(Frames)] /\ g_q' \in Seq(Frames)
  <2>1. refs \in [Frames -> Int] /\ queues \in [Outputs -> Seq(Frames)] /\ g_q \in Seq(Frames)
    BY <1>1 DEF ClientTypes
  <2>2. 1 \in Int
    OBVIOUS
  <2>3. refs' \in [Frames -> Int]
    BY <1>2, <2>1, <2>2, Zenon
  <2> QED
    BY <2>1, <2>3
<1>5. Balanced(i, h, n)
  <2> SUFFICES ASSUME NEW k \in Frames
               PROVE  refs'[k] = refs[k] - Is(hFrame[i], k) + Is(h, k) - Is(newH[i], k) + Is(n, k)
                                 + (GCount(k)' - GCount(k)) + (QCount(k)' - QCount(k))
    BY DEF Balanced
  <2> DEFINE a == Is(hFrame[i], k)
             b == Is(h, k)
             c == Is(newH[i], k)
             d == Is(n, k)
             f == Is(FirstFree, k)
             G == GCount(k)
             G2 == GCount(k)'
             Q == QCount(k)
             Q2 == QCount(k)'
             r == refs[k]
             r2 == refs'[k]
  <2>1. a \in Int /\ b \in Int /\ c \in Int /\ d \in Int /\ f \in Int
    BY IsFacts
  <2>2. G2 = G /\ Q2 = Q
    BY QueuesKeep, DelayedKeep
  <2>3. G \in Int /\ Q \in Int /\ r \in Int
    BY <1>1, <1>4, CountsAre
  <2>4. r2 = r + f
    BY <1>1, <1>2 DEF ClientTypes, Is
  <2>5. \/ a = 0 /\ b = f /\ d = c
        \/ c = 0 /\ d = f /\ b = a
    BY IsFacts
  <2>6. r2 = r - a + b - c + d + (G2 - G) + (Q2 - Q)
    <3> HIDE DEF a, b, c, d, f, G, G2, Q, Q2, r, r2
    <3> QED
      BY <2>1, <2>2, <2>3, <2>4, <2>5
  <2> QED
    BY <2>6
<1> QED
  BY <1>3, <1>4, <1>5, ThreadOwners

\* The retarder queues the frame of its callback, and takes the oldest one.
LEMMA Pushes ==
  ASSUME OwnersInv, program = "retarder", NEW i \in Inputs, RetarderPush(i), program' = program, inputs' = inputs
  PROVE  OwnersInv'
<1>1. ClientTypes /\ PlacesInv
  BY DEF OwnersInv
<1>2. /\ inAt[i] = "tick" /\ inAt' = [inAt EXCEPT ![i] = "size"] /\ g_q' = Append(g_q, hFrame[i])
      /\ hFrame' = [hFrame EXCEPT ![i] = 0] /\ newH' = newH /\ refs' = refs /\ queues' = queues
  BY DEF RetarderPush, Goes, keepsMedia, keepsFrames
<1>3. HasThere(inAt[i]) /\ inAt[i] \notin Making /\ ~HasThere("size") /\ "size" \notin Making /\ "size" \in Places
  BY <1>2 DEF HasThere, Holding, Making, Places
<1>4. hFrame[i] \in Frames /\ newH[i] = 0
  BY <1>1, <1>3 DEF ClientTypes, PlacesInv, HasFrame, HasThere
<1>5. Thread(i, "size", 0, 0)
  <2>1. newH \in [Inputs -> Frames \cup {0}]
    BY <1>1 DEF ClientTypes
  <2> QED
    BY <1>2, <1>4, <2>1 DEF Thread
<1>6. refs' \in [Frames -> Int] /\ queues' \in [Outputs -> Seq(Frames)] /\ g_q' \in Seq(Frames) /\ g_q \in Seq(Frames)
  <2>1. refs \in [Frames -> Int] /\ queues \in [Outputs -> Seq(Frames)] /\ g_q \in Seq(Frames)
    BY <1>1 DEF ClientTypes
  <2>2. Append(g_q, hFrame[i]) \in Seq(Frames)
    BY <1>4, <2>1
  <2> QED
    BY <1>2, <2>1, <2>2
<1>7. Balanced(i, 0, 0)
  <2> SUFFICES ASSUME NEW k \in Frames
               PROVE  refs'[k] = refs[k] - Is(hFrame[i], k) + Is(0, k) - Is(newH[i], k) + Is(0, k)
                                 + (GCount(k)' - GCount(k)) + (QCount(k)' - QCount(k))
    BY DEF Balanced
  <2> DEFINE a == Is(hFrame[i], k)
             z == Is(0, k)
             c == Is(newH[i], k)
             G == GCount(k)
             G2 == GCount(k)'
             Q == QCount(k)
             Q2 == QCount(k)'
             r == refs[k]
             r2 == refs'[k]
  <2>1. a \in Int /\ z = 0 /\ c = 0
    BY <1>4, IsFacts
  <2>2. Q2 = Q /\ r2 = r
    BY <1>2, QueuesKeep
  <2>3. G \in Int /\ Q \in Int /\ r \in Int
    BY <1>1, <1>6, CountsAre
  <2>4. G2 = G + a
    <3>1. InSeq(Append(g_q, hFrame[i]), k) = InSeq(g_q, k) + Is(hFrame[i], k)
      BY <1>4, <1>6, CountAppend
    <3> QED
      BY <1>2, <3>1 DEF GCount
  <2>5. r2 = r - a + z - c + z + (G2 - G) + (Q2 - Q)
    <3> HIDE DEF a, z, c, G, G2, Q, Q2, r, r2
    <3> QED
      BY <2>1, <2>2, <2>3, <2>4
  <2> QED
    BY <2>5
<1> QED
  BY <1>3, <1>5, <1>6, <1>7, ThreadOwners

LEMMA Pops ==
  ASSUME OwnersInv, program = "retarder", NEW i \in Inputs, program' = program, inputs' = inputs,
         g_q # << >>, Goes(i, "pop", "send"),
         newH' = [newH EXCEPT ![i] = Head(g_q)], g_q' = Tail(g_q), UNCHANGED <<refs, hFrame, queues>>
  PROVE  OwnersInv'
<1>1. ClientTypes /\ PlacesInv
  BY DEF OwnersInv
<1>2. inAt[i] = "pop" /\ inAt' = [inAt EXCEPT ![i] = "send"]
  BY DEF Goes
<1>3. ~HasThere(inAt[i]) /\ inAt[i] \notin Making /\ ~HasThere("send") /\ "send" \in Making /\ "send" \in Places
  BY <1>2 DEF HasThere, Holding, Making, Places
<1>4. hFrame[i] = 0 /\ newH[i] = 0
  BY <1>1, <1>3 DEF ClientTypes, PlacesInv, HasFrame, HasThere
<1>5. g_q \in Seq(Frames) /\ Head(g_q) \in Frames /\ Head(g_q) # 0
  <2>1. g_q \in Seq(Frames)
    BY <1>1 DEF ClientTypes
  <2>2. Head(g_q) \in Frames
    BY <2>1
  <2> QED
    BY <2>1, <2>2, FramesAreNumbers
<1>6. Thread(i, "send", 0, Head(g_q))
  <2>1. hFrame \in [Inputs -> Frames \cup {0}]
    BY <1>1 DEF ClientTypes
  <2> QED
    BY <1>2, <1>4, <2>1 DEF Thread
<1>7. refs' \in [Frames -> Int] /\ queues' \in [Outputs -> Seq(Frames)] /\ g_q' \in Seq(Frames)
  <2>1. refs \in [Frames -> Int] /\ queues \in [Outputs -> Seq(Frames)]
    BY <1>1 DEF ClientTypes
  <2>2. Tail(g_q) \in Seq(Frames)
    BY <1>5
  <2> QED
    BY <2>1, <2>2
<1>8. Balanced(i, 0, Head(g_q))
  <2> SUFFICES ASSUME NEW k \in Frames
               PROVE  refs'[k] = refs[k] - Is(hFrame[i], k) + Is(0, k) - Is(newH[i], k) + Is(Head(g_q), k)
                                 + (GCount(k)' - GCount(k)) + (QCount(k)' - QCount(k))
    BY DEF Balanced
  <2> DEFINE a == Is(hFrame[i], k)
             z == Is(0, k)
             c == Is(newH[i], k)
             d == Is(Head(g_q), k)
             G == GCount(k)
             G2 == GCount(k)'
             Q == QCount(k)
             Q2 == QCount(k)'
             r == refs[k]
             r2 == refs'[k]
  <2>1. a = 0 /\ z = 0 /\ c = 0 /\ d \in Int
    BY <1>4, IsFacts
  <2>2. Q2 = Q /\ r2 = r
    BY QueuesKeep
  <2>3. G \in Int /\ G2 \in Int /\ Q \in Int /\ r \in Int
    BY <1>1, <1>7, CountsAre
  <2>4. G = G2 + d
    <3>1. InSeq(g_q, k) = InSeq(Tail(g_q), k) + Is(Head(g_q), k)
      BY <1>5, CountTail
    <3> QED
      BY <3>1 DEF GCount
  <2>5. r2 = r - a + z - c + d + (G2 - G) + (Q2 - Q)
    <3> HIDE DEF a, z, c, d, G, G2, Q, Q2, r, r2
    <3> QED
      BY <2>1, <2>2, <2>3, <2>4
  <2> QED
    BY <2>5
<1> QED
  BY <1>3, <1>5, <1>6, <1>7, <1>8, ThreadOwners

\* An output sends its next frame.
LEMMA OutputOwners ==
  ASSUME OwnersInv, NEW o \in Outputs, OutSends(o), UNCHANGED <<program, inputs, g_q>>
  PROVE  OwnersInv'
<1>1. ClientTypes /\ PlacesInv
  BY DEF OwnersInv
<1> DEFINE f == Head(queues[o])
<1>2. /\ queues[o] # << >> /\ queues' = [queues EXCEPT ![o] = Tail(queues[o])]
      /\ refs' = [refs EXCEPT ![f] = refs[f] - 1]
      /\ UNCHANGED <<inAt, hFrame, newH>>
  BY DEF OutSends, Left
<1>3. queues[o] \in Seq(Frames) /\ f \in Frames /\ Tail(queues[o]) \in Seq(Frames)
  <2>1. queues[o] \in Seq(Frames)
    BY <1>1 DEF ClientTypes
  <2> QED
    BY <1>2, <2>1
<1>4. refs' \in [Frames -> Int] /\ queues' \in [Outputs -> Seq(Frames)] /\ g_q' \in Seq(Frames)
  <2>1. refs \in [Frames -> Int] /\ queues \in [Outputs -> Seq(Frames)] /\ g_q \in Seq(Frames)
    BY <1>1 DEF ClientTypes
  <2>2. refs' \in [Frames -> Int]
    BY <1>2, <1>3, <2>1
  <2>3. queues' \in [Outputs -> Seq(Frames)]
    BY <1>2, <1>3, <2>1
  <2> QED
    BY <2>1, <2>2, <2>3
<1>5. 1 \in Inputs
  BY <1>1 DEF ClientTypes, Inputs
<1>6. /\ Thread(1, inAt[1], hFrame[1], newH[1]) /\ inAt[1] \in Places
      /\ hFrame[1] \in Frames \cup {0} /\ newH[1] \in Frames \cup {0}
  <2>1. /\ inAt \in [Inputs -> Places] /\ hFrame \in [Inputs -> Frames \cup {0}]
        /\ newH \in [Inputs -> Frames \cup {0}]
    BY <1>1 DEF ClientTypes
  <2> QED
    BY <1>2, <1>5, <2>1 DEF Thread
<1>7. (hFrame[1] # 0 <=> HasThere(inAt[1])) /\ (newH[1] # 0 <=> inAt[1] \in Making)
  BY <1>1, <1>5 DEF PlacesInv, HasFrame, HasThere
<1>8. Balanced(1, hFrame[1], newH[1])
  <2> SUFFICES ASSUME NEW k \in Frames
               PROVE  refs'[k] = refs[k] - Is(hFrame[1], k) + Is(hFrame[1], k) - Is(newH[1], k) + Is(newH[1], k)
                                 + (GCount(k)' - GCount(k)) + (QCount(k)' - QCount(k))
    BY DEF Balanced
  <2> DEFINE a == Is(hFrame[1], k)
             c == Is(newH[1], k)
             d == Is(f, k)
             G == GCount(k)
             G2 == GCount(k)'
             Q == QCount(k)
             Q2 == QCount(k)'
             r == refs[k]
             r2 == refs'[k]
  <2>1. a \in Int /\ c \in Int /\ d \in Int
    BY IsFacts
  <2>2. G2 = G
    BY DelayedKeep
  <2>3. G \in Int /\ Q2 \in Int /\ Q \in Int /\ r \in Int
    BY <1>1, <1>4, CountsAre
  <2>4. r2 = r - d
    BY <1>1, <1>2, <1>3 DEF ClientTypes, Is
  <2>5. Q = Q2 + d
    <3>1. InSeq(queues[o], k) = InSeq(Tail(queues[o]), k) + Is(f, k)
      BY <1>2, <1>3, CountTail
    <3>2. InSeq(Tail(queues[o]), k) \in Nat
      BY <1>3, InSeqIsNat
    <3>3. queues \in [Outputs -> Seq(Frames)]
      BY <1>1 DEF ClientTypes
    <3>4. InSeq(queues[1], k) \in Nat /\ InSeq(queues[2], k) \in Nat
      <4>1. queues[1] \in Seq(Frames) /\ queues[2] \in Seq(Frames)
        BY <3>3 DEF Outputs
      <4> QED
        BY <4>1, InSeqIsNat
    <3>5. CASE o = 1
      <4>1. queues'[1] = Tail(queues[1]) /\ queues'[2] = queues[2]
        BY <1>2, <3>3, <3>5 DEF Outputs
      <4> QED
        BY <2>1, <3>1, <3>2, <3>4, <3>5, <4>1 DEF QCount
    <3>6. CASE o = 2
      <4>1. queues'[2] = Tail(queues[2]) /\ queues'[1] = queues[1]
        BY <1>2, <3>3, <3>6 DEF Outputs
      <4> QED
        BY <2>1, <3>1, <3>2, <3>4, <3>6, <4>1 DEF QCount
    <3> QED
      BY <3>5, <3>6 DEF Outputs
  <2>6. r2 = r - a + a - c + c + (G2 - G) + (Q2 - Q)
    <3> HIDE DEF a, c, d, G, G2, Q, Q2, r, r2
    <3> QED
      BY <2>1, <2>2, <2>3, <2>4, <2>5
  <2> QED
    BY <2>6
<1> QED
  BY <1>4, <1>5, <1>6, <1>7, <1>8, ThreadOwners

\* A frame is only given back.
LEMMA GivesBack ==
  ASSUME OwnersInv, NEW i \in Inputs, HasThere(inAt[i]), inAt[i] \notin Making,
         UNCHANGED <<program, inputs, newH, g_q>>, Returns(i, inAt[i]), Releases(hFrame[i])
  PROVE  OwnersInv'
<1>1. ClientTypes /\ PlacesInv
  BY DEF OwnersInv
<1>2. queues \in [Outputs -> Seq(Frames)] /\ refs \in [Frames -> Int] /\ hFrame[i] \in Frames
  BY <1>1 DEF ClientTypes, PlacesInv, HasFrame, HasThere
<1> PICK none \in SUBSET Outputs : none = {}
  OBVIOUS
<1>3. queues' = [o \in Outputs |-> IF o \in none THEN Append(queues[o], hFrame[i]) ELSE queues[o]]
  BY <1>2 DEF Releases
<1>4. refs' = [refs EXCEPT ![hFrame[i]] = refs[hFrame[i]] + Cardinality(none) - 1]
  <2>1. Cardinality(none) = 0 /\ refs[hFrame[i]] \in Int
    BY <1>2, FS_EmptySet
  <2>2. refs[hFrame[i]] + Cardinality(none) - 1 = refs[hFrame[i]] - 1
    BY <2>1
  <2> QED
    BY <2>2 DEF Releases, Left
<1> QED
  BY <1>3, <1>4, Passes

LEMMA ForwardsOwners ==
  ASSUME OwnersInv, NEW i \in Inputs, NEW outputs \in SUBSET Outputs, Forwards(i, outputs),
         program' = program, inputs' = inputs
  PROVE  OwnersInv'
<1>1. inAt[i] = "tick"
  BY DEF Forwards, Returns, Goes
<1>2. HasThere(inAt[i]) /\ inAt[i] \notin Making
  BY <1>1 DEF HasThere, Holding, Making
<1>3. Returns(i, inAt[i]) /\ UNCHANGED <<newH, g_q>>
  BY <1>1 DEF Forwards, keepsFrames, callbackVars
<1>4. /\ queues' = [o \in Outputs |-> IF o \in outputs THEN Append(queues[o], hFrame[i]) ELSE queues[o]]
      /\ refs' = [refs EXCEPT ![hFrame[i]] = refs[hFrame[i]] + Cardinality(outputs) - 1]
  BY DEF Forwards, Sends, Left
<1> QED
  BY <1>2, <1>3, <1>4, Passes

LEMMA WiredOutputs == Wired \in SUBSET Outputs
  BY DEF Wired, Outputs

LEMMA ConverterOwners ==
  ASSUME OwnersInv, NEW i \in Inputs, Converter(i), program' = program, inputs' = inputs
  PROVE  OwnersInv'
<1>1. ClientTypes /\ PlacesInv /\ program = "converter"
  BY DEF OwnersInv, Converter
<1>2. /\ HasThere("tick") /\ HasThere("create") /\ HasThere("new") /\ HasThere("tail") /\ HasThere("crash")
      /\ {"tick", "create", "tail", "crash"} \cap Making = {} /\ "new" \in Making
      /\ {"tick", "create", "new", "tail", "crash"} \subseteq Places
  BY DEF HasThere, Holding, Making, Places
<1>3. hFrame \in [Inputs -> Frames \cup {0}] /\ newH \in [Inputs -> Frames \cup {0}]
  BY <1>1 DEF ClientTypes
<1>4. CASE inAt[i] = "tick" /\ ConverterTick(i)
  <2>1. CASE Forwards(i, {})
    BY <2>1, ForwardsOwners
  <2>2. CASE /\ Returns(i, "tick") /\ keepsFrames /\ UNCHANGED callbackVars
             /\ queues' = [o \in Outputs |-> IF o \in Wired THEN Append(queues[o], hFrame[i]) ELSE queues[o]]
             /\ refs' = [refs EXCEPT ![hFrame[i]] = @ + Cardinality(Wired) - 1]
    <3>1. queues' = [o \in Outputs |-> IF o \in Wired THEN Append(queues[o], hFrame[i]) ELSE queues[o]]
      BY <2>2
    <3>2. refs' = [refs EXCEPT ![hFrame[i]] = refs[hFrame[i]] + Cardinality(Wired) - 1]
      BY <2>2
    <3>3. Returns(i, inAt[i]) /\ UNCHANGED <<newH, g_q>>
      BY <1>4, <2>2 DEF keepsFrames, callbackVars
    <3>4. HasThere(inAt[i]) /\ inAt[i] \notin Making
      BY <1>2, <1>4
    <3> QED
      BY <3>1, <3>2, <3>3, <3>4, WiredOutputs, Passes
  <2>3. CASE Goes(i, "tick", "create") /\ keepsMedia /\ UNCHANGED <<hFrame, queues, callbackVars>>
    BY <1>2, <2>3, Walks DEF Goes, keepsMedia, keepsFrames, callbackVars
  <2> QED
    BY <1>4, <2>1, <2>2, <2>3 DEF ConverterTick
<1>5. CASE ConverterCreate(i)
  <2>1. inAt[i] = "create" /\ UNCHANGED <<hFrame, queues, g_q>>
    BY <1>5 DEF ConverterCreate, Goes, callbackVars
  <2>2. CASE Free = {}
    <3>1. inAt' = [inAt EXCEPT ![i] = "crash"] /\ UNCHANGED <<refs, newH>>
      BY <1>5, <2>2 DEF ConverterCreate, Goes
    <3> QED
      BY <1>2, <2>1, <3>1, Walks
  <2>3. CASE Free # {}
    <3>1. /\ inAt' = [inAt EXCEPT ![i] = "new"] /\ newH' = [newH EXCEPT ![i] = FirstFree]
          /\ refs' = [refs EXCEPT ![FirstFree] = 1]
      BY <1>5, <2>3 DEF ConverterCreate, Goes
    <3>2. newH[i] = 0 /\ hFrame[i] # 0
      BY <1>1, <1>2, <2>1 DEF PlacesInv, HasFrame, HasThere
    <3>3. Thread(i, "new", hFrame[i], FirstFree)
      BY <1>3, <2>1, <3>1 DEF Thread
    <3>4. FirstFree # 0
      BY <2>3, FramesAreNumbers
    <3> QED
      BY <1>2, <2>1, <2>3, <3>1, <3>2, <3>3, <3>4, Takes
  <2> QED
    BY <2>2, <2>3
<1>6. CASE ConverterSend(i)
  <2>1. /\ inAt[i] = "new" /\ inAt' = [inAt EXCEPT ![i] = "tail"] /\ newH' = [newH EXCEPT ![i] = 0]
        /\ UNCHANGED <<hFrame, g_q>>
        /\ queues' = [o \in Outputs |-> IF o \in Wired THEN Append(queues[o], newH[i]) ELSE queues[o]]
        /\ refs' = [refs EXCEPT ![newH[i]] = refs[newH[i]] + Cardinality(Wired) - 1]
    BY <1>6 DEF ConverterSend, Goes, Sends, Left, callbackVars
  <2>2. "tail" \notin Making /\ inAt[i] \in Making /\ (HasThere("tail") <=> HasThere(inAt[i])) /\ "tail" \in Places
    BY <1>2, <2>1
  <2> QED
    BY <2>1, <2>2, WiredOutputs, SendsMade
<1>7. CASE ConverterRelease(i)
  <2>1. inAt[i] = "tail" /\ Returns(i, inAt[i]) /\ Releases(hFrame[i]) /\ UNCHANGED <<newH, g_q>>
    BY <1>7 DEF ConverterRelease, Returns, Goes, keepsFrames, callbackVars
  <2> QED
    BY <1>2, <2>1, GivesBack
<1> QED
  BY <1>4, <1>5, <1>6, <1>7 DEF Converter

LEMMA RetarderOwners ==
  ASSUME OwnersInv, NEW i \in Inputs, Retarder(i), program' = program, inputs' = inputs
  PROVE  OwnersInv'
<1>1. program = "retarder"
  BY DEF Retarder
<1>2. /\ {"size", "pop", "read"} \cap Making = {} /\ "send" \in Making
      /\ ~HasThere("size") /\ ~HasThere("pop") /\ ~HasThere("read") /\ ~HasThere("send")
      /\ {"size", "pop", "read", "send"} \subseteq Places
  BY <1>1 DEF HasThere, Holding, Making, Places
<1>3. CASE RetarderPush(i)
  BY <1>1, <1>3, Pushes
<1>4. CASE RetarderPop(i)
  <2>1. UNCHANGED <<refs, hFrame, queues>>
    BY <1>4 DEF RetarderPop
  <2>2. CASE Goes(i, "size", "read") /\ UNCHANGED <<newH, g_q>>
    BY <1>2, <2>1, <2>2, Walks DEF Goes
  <2>3. CASE Goes(i, "size", "pop") /\ UNCHANGED <<newH, g_q>>
    BY <1>2, <2>1, <2>3, Walks DEF Goes
  <2>4. CASE /\ g_q # << >> /\ Goes(i, "pop", "send")
             /\ newH' = [newH EXCEPT ![i] = Delayed.frame] /\ g_q' = Delayed.rest
    <3>1. Delayed.frame = Head(g_q) /\ Delayed.rest = Tail(g_q)
      BY DEF Delayed
    <3> QED
      BY <1>1, <2>1, <2>4, <3>1, Pops
  <2> QED
    BY <1>4, <2>2, <2>3, <2>4 DEF RetarderPop
<1>5. CASE RetarderSend(i)
  <2>1. /\ inAt[i] = "send" /\ inAt' = [inAt EXCEPT ![i] = "read"] /\ newH' = [newH EXCEPT ![i] = 0]
        /\ UNCHANGED <<hFrame, g_q>>
        /\ queues' = [o \in Outputs |-> IF o \in Wired THEN Append(queues[o], newH[i]) ELSE queues[o]]
        /\ refs' = [refs EXCEPT ![newH[i]] = refs[newH[i]] + Cardinality(Wired) - 1]
    BY <1>5 DEF RetarderSend, Goes, Sends, Left, callbackVars
  <2>2. "read" \notin Making /\ inAt[i] \in Making /\ (HasThere("read") <=> HasThere(inAt[i])) /\ "read" \in Places
    BY <1>2, <2>1
  <2> QED
    BY <2>1, <2>2, WiredOutputs, SendsMade
<1> QED
  BY <1>3, <1>4, <1>5 DEF Retarder

LEMMA SynchronizerOwners ==
  ASSUME OwnersInv, NEW i \in Inputs, Synchronizer(i), program' = program, inputs' = inputs
  PROVE  OwnersInv'
<1>1. ClientTypes /\ PlacesInv
  BY DEF OwnersInv
<1> DEFINE Sync == {"tick", "route", "first", "second", "init", "tail"}
<1>2. Sync \subseteq Places /\ Sync \cap Making = {} /\ \A p \in Sync : HasThere(p)
  BY DEF HasThere, Holding, Making, Places
<1>3. ASSUME NEW from \in Sync, NEW to \in Sync, Goes(i, from, to), keepsMedia, UNCHANGED <<hFrame, queues, g_q>>
      PROVE  OwnersInv'
  <2>1. inAt[i] = from /\ inAt' = [inAt EXCEPT ![i] = to] /\ UNCHANGED <<refs, newH>>
    BY <1>3 DEF Goes, keepsMedia, keepsFrames
  <2>2. to \in Places /\ (HasThere(to) <=> HasThere(inAt[i])) /\ (to \in Making <=> inAt[i] \in Making)
    BY <1>2, <2>1
  <2> QED
    BY <1>3, <2>1, <2>2, Walks
<1>4. CASE SyncTick(i)
  BY <1>3, <1>4 DEF SyncTick, callbackVars
<1>5. CASE SyncFirst(i)
  BY <1>3, <1>5 DEF SyncFirst
<1>6. CASE SyncSecond(i)
  BY <1>3, <1>6 DEF SyncSecond
<1>7. CASE SyncRoute(i)
  <2>1. UNCHANGED <<newH, g_q>>
    BY <1>7 DEF SyncRoute, keepsFrames, callbackVars
  <2>2. CASE Returns(i, "route") /\ Sends(hFrame[i], {OutputOf(i)})
    <3>1. inAt[i] = "route" /\ Returns(i, inAt[i]) /\ {OutputOf(i)} \in SUBSET Outputs
      BY <2>2 DEF Returns, Goes, OutputOf, Outputs
    <3>2. HasThere(inAt[i]) /\ inAt[i] \notin Making
      BY <1>2, <3>1
    <3>3. /\ queues' = [o \in Outputs |-> IF o \in {OutputOf(i)} THEN Append(queues[o], hFrame[i]) ELSE queues[o]]
          /\ refs' = [refs EXCEPT ![hFrame[i]] = refs[hFrame[i]] + Cardinality({OutputOf(i)}) - 1]
      BY <2>2 DEF Sends, Left
    <3> QED
      BY <2>1, <3>1, <3>2, <3>3, Passes
  <2>3. CASE Returns(i, "tail") /\ Releases(hFrame[i])
    <3>1. inAt[i] = "tail" /\ Returns(i, inAt[i])
      BY <2>3 DEF Returns, Goes
    <3> QED
      BY <1>2, <2>1, <2>3, <3>1, GivesBack
  <2> QED
    BY <1>7, <2>2, <2>3 DEF SyncRoute
<1> QED
  BY <1>4, <1>5, <1>6, <1>7 DEF Synchronizer

LEMMA ProbeOwners ==
  ASSUME OwnersInv, NEW i \in Inputs, Probe(i), program' = program, inputs' = inputs
  PROVE  OwnersInv'
<1>1. program = "probe"
  BY DEF Probe
<1>2. /\ {"tick", "size", "pop"} \cap Making = {} /\ {"tick", "size", "pop"} \subseteq Places
      /\ HasThere("tick") /\ HasThere("size") /\ HasThere("pop")
  BY <1>1 DEF HasThere, Holding, Making, Places
<1>3. CASE ProbeTakes(i)
  <2>1. UNCHANGED <<refs, newH, hFrame, queues, g_q>>
    BY <1>3 DEF ProbeTakes, keepsMedia, keepsFrames
  <2>2. \/ inAt[i] \in {"tick", "size"} /\ inAt' = [inAt EXCEPT ![i] = "pop"]
        \/ inAt[i] = "pop" /\ inAt' = [inAt EXCEPT ![i] = "size"]
    BY <1>3 DEF ProbeTakes, Goes
  <2>3. CASE inAt[i] \in {"tick", "size"} /\ inAt' = [inAt EXCEPT ![i] = "pop"]
    BY <1>2, <2>1, <2>3, Walks
  <2>4. CASE inAt[i] = "pop" /\ inAt' = [inAt EXCEPT ![i] = "size"]
    BY <1>2, <2>1, <2>4, Walks
  <2> QED
    BY <2>2, <2>3, <2>4
<1>4. CASE ProbeReleases(i)
  <2>1. inAt[i] \in {"tick", "size"} /\ Returns(i, inAt[i]) /\ Releases(hFrame[i]) /\ UNCHANGED <<newH, g_q>>
    BY <1>4 DEF ProbeReleases, Returns, Goes, keepsFrames, callbackVars
  <2> QED
    BY <1>2, <2>1, GivesBack
<1> QED
  BY <1>3, <1>4 DEF Probe

LEMMA PlayersOwners ==
  ASSUME OwnersInv, NEW i \in Inputs, Shows(i), program' = program, inputs' = inputs, UNCHANGED callbackVars
  PROVE  OwnersInv'
<1> DEFINE Play == {"tick", "free", "alloc", "lock", "copy", "shown", "queue", "init", "crash"}
<1>1. Play \subseteq Places /\ Play \cap Making = {} /\ \A p \in Play : HasThere(p)
  BY DEF HasThere, Holding, Making, Places
<1>2. g_q' = g_q
  BY DEF callbackVars
<1>3. ASSUME NEW from \in Play, NEW to \in Play, Goes(i, from, to), UNCHANGED <<refs, hFrame, newH, queues>>
      PROVE  OwnersInv'
  <2>1. inAt[i] = from /\ inAt' = [inAt EXCEPT ![i] = to]
    BY <1>3 DEF Goes
  <2>2. to \in Places /\ (HasThere(to) <=> HasThere(inAt[i])) /\ (to \in Making <=> inAt[i] \in Making)
    BY <1>1, <2>1
  <2> QED
    BY <1>2, <1>3, <2>1, <2>2, Walks
<1>4. ASSUME Returns(i, "shown"), Releases(hFrame[i]), newH' = newH
      PROVE  OwnersInv'
  <2>1. inAt[i] = "shown" /\ Returns(i, inAt[i])
    BY <1>4 DEF Returns, Goes
  <2> QED
    BY <1>1, <1>2, <1>4, <2>1, GivesBack
<1>5. CASE VideoPlayer(i)
  <2>1. CASE PlayerTick(i)
    <3>1. PICK to \in Play : Goes(i, "tick", to)
      BY <2>1 DEF PlayerTick, CopiesOf
    <3> QED
      BY <1>3, <2>1, <3>1 DEF PlayerTick, keepsLibrary
  <2>2. CASE PlayerResizes(i)
    <3>1. PICK from \in Play, to \in Play : Goes(i, from, to)
      BY <2>2 DEF PlayerResizes, CopiesOf
    <3> QED
      BY <1>3, <2>2, <3>1 DEF PlayerResizes, keepsLibrary
  <2>3. CASE PlayerCopies(i)
    BY <1>3, <2>3 DEF PlayerCopies, keepsLibrary
  <2>4. CASE PlayerReleases(i)
    BY <1>4, <2>4 DEF PlayerReleases
  <2> QED
    BY <1>5, <2>1, <2>2, <2>3, <2>4 DEF VideoPlayer
<1>6. CASE WinPlayer(i)
  <2>0. CASE WinTick(i)
    BY <1>3, <2>0 DEF WinTick, keepsLibrary
  <2>1. CASE WinInit(i)
    BY <1>3, <2>1 DEF WinInit, keepsLibrary
  <2>2. CASE WinQueue(i)
    BY <1>3, <2>2 DEF WinQueue, keepsLibrary
  <2>3. CASE WinReleases(i)
    BY <1>4, <2>3 DEF WinReleases
  <2> QED
    BY <1>6, <2>0, <2>1, <2>2, <2>3 DEF WinPlayer
<1> QED
  BY <1>5, <1>6 DEF Shows

LEMMA CallbackOwners ==
  ASSUME OwnersInv, NEW i \in Inputs, CallsBack(i)
  PROVE  OwnersInv'
<1>1. program' = program /\ inputs' = inputs
  BY DEF CallsBack, Survives
<1>2. {} \in SUBSET Outputs /\ Wired \in SUBSET Outputs /\ {1} \in SUBSET Outputs /\ {2} \in SUBSET Outputs
  BY DEF Outputs, Wired
<1>3. {i} \in SUBSET Outputs
  BY DEF OwnersInv, ClientTypes, Inputs, Outputs
<1>4. ASSUME NEW outputs \in SUBSET Outputs, Forwards(i, VideoTo(i, outputs))
      PROVE  OwnersInv'
  <2>1. VideoTo(i, outputs) \in SUBSET Outputs
    BY DEF VideoTo
  <2> QED
    BY <1>1, <1>4, <2>1, ForwardsOwners
<1>5. CASE Adapter(i)
  BY <1>2, <1>4, <1>5 DEF Adapter
<1>6. CASE Analyzer(i)
  BY <1>2, <1>4, <1>6 DEF Analyzer
<1>7. CASE MultInstances(i)
  BY <1>3, <1>4, <1>7 DEF MultInstances
<1>8. CASE Demuxer(i)
  <2>1. {IF IsVideo(Kind(i)) THEN 1 ELSE 2} \in SUBSET Outputs
    BY <1>2
  <2> QED
    BY <1>1, <1>8, <2>1, ForwardsOwners DEF Demuxer
<1>9. CASE Converter(i)
  BY <1>1, <1>9, ConverterOwners
<1>10. CASE Retarder(i)
  BY <1>1, <1>10, RetarderOwners
<1>11. CASE Synchronizer(i)
  BY <1>1, <1>11, SynchronizerOwners
<1>12. CASE Probe(i)
  BY <1>1, <1>12, ProbeOwners
<1>13. CASE Shows(i) /\ UNCHANGED callbackVars
  BY <1>1, <1>13, PlayersOwners
<1> QED
  BY <1>5, <1>6, <1>7, <1>8, <1>9, <1>10, <1>11, <1>12, <1>13 DEF CallsBack, Callback

\* A frame arrives on an input.
LEMMA TickOwners ==
  ASSUME OwnersInv, NEW i \in Inputs, Reads(i)
  PROVE  OwnersInv'
<1>1. ClientTypes /\ PlacesInv
  BY DEF OwnersInv
<1>2. /\ Free # {} /\ inAt[i] = "read" /\ inAt' = [inAt EXCEPT ![i] = "tick"]
      /\ hFrame' = [hFrame EXCEPT ![i] = FirstFree] /\ refs' = [refs EXCEPT ![FirstFree] = 1]
      /\ UNCHANGED <<program, inputs, newH, queues, g_q>>
  BY DEF Reads, Tick, callbackVars
<1>3. HasThere("tick") /\ ~HasThere("read") /\ "tick" \notin Making /\ "read" \notin Making /\ "tick" \in Places
  BY DEF HasThere, Holding, Making, Places
<1>4. hFrame[i] = 0 /\ newH[i] = 0
  BY <1>1, <1>2, <1>3 DEF PlacesInv, HasFrame, HasThere
<1>5. Thread(i, "tick", FirstFree, 0)
  <2>1. newH \in [Inputs -> Frames \cup {0}]
    BY <1>1 DEF ClientTypes
  <2> QED
    BY <1>2, <1>4, <2>1 DEF Thread
<1>6. FirstFree # 0
  BY <1>2, FramesAreNumbers
<1> QED
  BY <1>2, <1>3, <1>4, <1>5, <1>6, Takes

\* What main, its signal handler and the window leave alone.
Rests ==
  /\ UNCHANGED <<program, inputs, refs, inAt, hFrame, newH, queues, g_q>>
  /\ UNCHANGED <<media, number, watched, last, g_firstInput, g_secondInput, g_init, overlapped>>
  /\ faults' \subseteq faults \cup {"torn"}

LEMMA RestsOwners ==
  ASSUME OwnersInv, Rests
  PROVE  OwnersInv'
<1>1. UNCHANGED <<program, inputs, refs, inAt, hFrame, newH, queues, g_q>>
  BY DEF Rests
<1>2. Inputs' = Inputs /\ Frames' = Frames /\ (\A k : Owners(k)' = Owners(k)) /\ (\A i : HasFrame(i)' = HasFrame(i))
  BY <1>1 DEF Inputs, Frames, Limit, Owners, HasFrame
<1>3. ClientTypes'
  BY <1>1, <1>2 DEF OwnersInv, ClientTypes
<1>4. PlacesInv'
  BY <1>1, <1>2 DEF OwnersInv, PlacesInv
<1>5. FramesAreOwned'
  BY <1>1, <1>2 DEF OwnersInv, FramesAreOwned
<1> QED
  BY <1>3, <1>4, <1>5 DEF OwnersInv

\* An input thread ends between two callbacks.
Joins(i) ==
  /\ Goes(i, "read", "joined")
  /\ UNCHANGED <<program, inputs, refs, media, hFrame, newH, number, queues, watched, last, faults, callbackVars>>

LEMMA JoinsOwners ==
  ASSUME OwnersInv, NEW i \in Inputs, Joins(i)
  PROVE  OwnersInv'
<1>1. /\ ~HasThere("joined") /\ ~HasThere("read") /\ "joined" \notin Making /\ "read" \notin Making
      /\ "joined" \in Places
  BY DEF HasThere, Holding, Making, Places
<1> QED
  BY <1>1, Walks DEF Joins, Goes, callbackVars

LEMMA MainRests ==
  ASSUME Main \/ Signal \/ WinSignal \/ Draw \/ Report \/ UNCHANGED vars
  PROVE  Rests \/ \E i \in Inputs : Joins(i)
<1>1. mainOnly => Rests
  BY DEF mainOnly, Rests, frameVars, callbackVars
<1>2. ASSUME NEW i, MainStopsInput(i) PROVE Joins(i)
  BY <1>2 DEF MainStopsInput, Joins
<1>3. StopsAndCloses => Rests \/ \E i \in Inputs : Joins(i)
  BY <1>1, <1>2 DEF StopsAndCloses, MainCloses
<1>4. MainOptions \/ MainCreates \/ MainStarts \/ MainWaits \/ MainUnlocks \/ MainSleeps \/ MainKey \/ Signal => Rests
  BY <1>1 DEF MainOptions, MainCreates, MainStarts, MainWaits, MainUnlocks, MainSleeps, MainKey, Signal
<1>5. MainLoops \/ WinSignal => Rests
  BY DEF MainLoops, WinSignal, Rests, frameVars, callbackVars
<1>6. Main => Rests \/ \E i \in Inputs : Joins(i)
  <2>1. OnSignal => Rests \/ \E i \in Inputs : Joins(i)
    BY <1>3, <1>4 DEF OnSignal
  <2> QED
    BY <1>3, <1>4, <1>5, <2>1 DEF Main, AdapterMain, AnalyzerMain, ConverterMain, DemuxerMain, RetarderMain,
       SynchronizerMain, ProbeMain, MultInstancesMain, VideoPlayerMain, WinPlayerMain
<1>7. Draw => Rests
  <2>1. ASSUME Draw, NextEvent \/ Expose PROVE Rests
    <3>1. UNCHANGED <<program, inputs, frameVars, callbackVars>>
      BY <2>1 DEF Draw, Survives, NextEvent, Expose
    <3>2. faults' \subseteq faults \cup {"torn"}
      BY <2>1 DEF NextEvent, Expose, Draws, DrawsFirst, DrawsSecond
    <3> QED
      BY <3>1, <3>2 DEF Rests, frameVars, callbackVars
  <2>2. ASSUME Draw, WinShows PROVE Rests
    <3>1. UNCHANGED <<program, inputs, frameVars, callbackVars>>
      BY <2>2 DEF Draw, Survives, WinShows
    <3>2. faults' \subseteq faults \cup {"torn"}
      BY <2>2 DEF WinShows
    <3> QED
      BY <3>1, <3>2 DEF Rests, frameVars, callbackVars
  <2> QED
    BY <2>1, <2>2 DEF Draw, Window
<1>8. Report => Rests
  BY DEF Report, ProbeReport, Rests, frameVars
<1>9. UNCHANGED vars => Rests
  BY DEF vars, Rests, frameVars, callbackVars
<1> QED
  BY <1>4, <1>5, <1>6, <1>7, <1>8, <1>9

LEMMA OwnersStep == OwnersInv /\ [Next]_vars => OwnersInv'
<1> SUFFICES ASSUME OwnersInv, [Next]_vars PROVE OwnersInv'
  OBVIOUS
<1>1. CASE Main \/ Signal \/ WinSignal \/ Draw \/ Report \/ UNCHANGED vars
  BY <1>1, MainRests, RestsOwners, JoinsOwners
<1>2. ASSUME NEW i \in Inputs, Reads(i) \/ CallsBack(i) PROVE OwnersInv'
  BY <1>2, TickOwners, CallbackOwners
<1>3. ASSUME NEW o \in Outputs, Send(o) PROVE OwnersInv'
  BY <1>3, OutputOwners DEF Send, callbackVars
<1> QED
  BY <1>1, <1>2, <1>3 DEF Next

LEMMA OwnersInit == Init => OwnersInv
<1> SUFFICES ASSUME Init PROVE OwnersInv
  OBVIOUS
<1>1. /\ inputs \in {1, 2} /\ refs = [k \in Frames |-> 0] /\ inAt = [i \in Inputs |-> "read"]
      /\ hFrame = [i \in Inputs |-> 0] /\ newH = [i \in Inputs |-> 0]
      /\ queues = [o \in Outputs |-> << >>] /\ g_q = << >>
  BY DEF Init, FramesInit, CallbacksInit
<1>2. ClientTypes
  <2>1. "read" \in Places
    BY DEF Places
  <2> QED
    BY <1>1, <2>1 DEF ClientTypes
<1>3. PlacesInv
  BY <1>1 DEF PlacesInv, HasFrame, Holding, Making
<1>4. FramesAreOwned
  <2> SUFFICES ASSUME NEW k \in Frames PROVE refs[k] = Owners(k)
    BY DEF FramesAreOwned
  <2>1. k # 0 /\ refs[k] = 0
    BY <1>1, FramesAreNumbers
  <2>2. /\ {i \in Inputs : hFrame[i] = k} = {} /\ {i \in Inputs : newH[i] = k} = {}
        /\ {n \in DOMAIN g_q : g_q[n] = k} = {}
        /\ {n \in DOMAIN queues[1] : queues[1][n] = k} = {} /\ {n \in DOMAIN queues[2] : queues[2][n] = k} = {}
    BY <1>1, <2>1 DEF Outputs
  <2>3. Owners(k) = 0 + 0 + 0 + 0 + 0
    BY <2>2, FS_EmptySet, Zenon DEF Owners
  <2> QED
    BY <2>1, <2>3
<1> QED
  BY <1>2, <1>3, <1>4 DEF OwnersInv

(***************************************************************************)
(* The synchronizer.                                                       *)
(***************************************************************************)
SyncInv == Identified /\ Routed /\ "mixed" \notin faults

LEMMA RestsSync ==
  ASSUME SyncInv, Rests, program = "synchronizer"
  PROVE  SyncInv'
<1>1. /\ UNCHANGED <<program, inputs, inAt, hFrame, queues>>
      /\ UNCHANGED <<media, watched, last, g_firstInput, g_init>> /\ ("mixed" \notin faults => "mixed" \notin faults')
  BY DEF Rests
<1>2. Inputs' = Inputs /\ Frames' = Frames /\ Settled' = Settled /\ \A i : OutputOf(i)' = OutputOf(i)
  BY <1>1 DEF Inputs, Frames, Limit, Settled, OutputOf
<1>3. Identified'
  BY <1>1, <1>2 DEF SyncInv, Identified
<1>4. Routed'
  BY <1>1, <1>2 DEF SyncInv, Routed
<1> QED
  BY <1>1, <1>3, <1>4 DEF SyncInv

\* What is settled is not changed by a thread that goes elsewhere.
Elsewhere == Places \ {"first", "second", "init", "route"}

LEMMA IdentifiedKeeps ==
  ASSUME ClientTypes, Identified, NEW i \in Inputs, NEW to \in Elsewhere,
         UNCHANGED <<inputs, g_firstInput, g_init>>, inAt' = [inAt EXCEPT ![i] = to]
  PROVE  Identified'
<1>1. inAt \in [Inputs -> Places] /\ Inputs' = Inputs
  BY DEF ClientTypes, Inputs
<1>2. to \notin {"first", "second", "init", "route"}
  BY DEF Elsewhere
<1>3. /\ inAt'[i] = to /\ \A j \in Inputs : j # i => inAt'[j] = inAt[j]
  BY <1>1
<1>4. \A p \in {"first", "second", "init", "route"} : \A j \in Inputs : inAt'[j] = p => inAt[j] = p
  BY <1>2, <1>3
<1>5. Settled' => Settled
  <2>1. \A j \in Inputs : inAt'[j] \in {"second", "init"} => inAt[j] \in {"second", "init"}
    BY <1>4
  <2> QED
    BY <1>1, <2>1 DEF Settled
<1>6. g_firstInput' \in Inputs' \cup {-1}
  BY <1>1 DEF Identified
<1>7. Settled' => g_firstInput' \in Inputs' /\ \A j \in Inputs' : inAt'[j] = "first" => g_firstInput' = j
  BY <1>1, <1>4, <1>5 DEF Identified
<1>8. \A j \in Inputs' : inAt'[j] \in {"second", "init"} => g_firstInput' # j
  <2>1. \A j \in Inputs : inAt'[j] \in {"second", "init"} => inAt[j] \in {"second", "init"}
    BY <1>4
  <2> QED
    BY <1>1, <2>1 DEF Identified
<1>9. \A j \in Inputs' : inAt'[j] = "route" => g_init'
  BY <1>1, <1>4 DEF Identified
<1> QED
  BY <1>6, <1>7, <1>8, <1>9 DEF Identified

\* Of two inputs one is the first.
LEMMA TwoOutputs ==
  ASSUME inputs \in {1, 2}, g_firstInput \in Inputs, NEW i \in Inputs, NEW j \in Inputs, OutputOf(i) = OutputOf(j)
  PROVE  i = j
<1>1. \A a, b, c \in Inputs : a # c /\ b # c => a = b
  BY DEF Inputs
<1> QED
  BY <1>1 DEF OutputOf

\* A frame that is still counted carries what it carried.
LEMMA LeftCarries ==
  ASSUME program = "synchronizer", program' = program, refs \in [Frames -> Int], Routed,
         NEW f \in Frames, NEW n \in Int, Left(f, n)
  PROVE  /\ media' = [k \in Frames |-> media'[k]] /\ Frames' = Frames
         /\ \A k \in Frames : refs'[k] # 0 => media'[k] = media[k]
<1>1. media = [k \in Frames |-> media[k]] /\ Frames' = Frames
  BY DEF Routed, Frames, Limit
<1>2. refs' = [refs EXCEPT ![f] = n] /\ media' = IF n = 0 THEN [media EXCEPT ![f] = None] ELSE media
  BY DEF Left
<1>3. CASE n = 0
  <2>1. media' = [media EXCEPT ![f] = None]
    BY <1>2, <1>3
  <2>2. media' = [k \in Frames |-> IF k = f THEN None ELSE media[k]]
    BY <1>1, <2>1
  <2>3. refs'[f] = 0
    BY <1>2, <1>3
  <2>4. \A k \in Frames : k # f => media'[k] = media[k]
    BY <2>2
  <2>5. media' = [k \in Frames |-> media'[k]]
    BY <2>2
  <2> QED
    BY <1>1, <2>3, <2>4, <2>5
<1>4. CASE n # 0
  BY <1>1, <1>2, <1>4
<1> QED
  BY <1>3, <1>4

\* The frames stay with their inputs and outputs as long as what is counted carries
\* what it carried, and what is queued goes to the output of its input.
LEMMA RoutedKeeps ==
  ASSUME OwnersInv, OwnersInv', Identified, Routed, UNCHANGED <<program, inputs, g_firstInput, watched, last>>,
         g_init => g_init',
         media' = [k \in Frames |-> media'[k]],
         \A i \in Inputs : hFrame'[i] # 0 => media'[hFrame'[i]].in = i,
         \A k \in Frames : refs[k] # 0 /\ refs'[k] # 0 => media'[k] = media[k],
         \A o \in Outputs : \A n \in DOMAIN queues'[o] :
           \/ \E m \in DOMAIN queues[o] : queues'[o][n] = queues[o][m]
           \/ g_init /\ media'[queues'[o][n]].in \in Inputs /\ OutputOf(media'[queues'[o][n]].in) = o
  PROVE  Routed'
<1>1. Inputs' = Inputs /\ Frames' = Frames /\ \A i : OutputOf(i)' = OutputOf(i)
  BY DEF Inputs, Frames, Limit, OutputOf
<1>2. ASSUME NEW o \in Outputs, NEW n \in DOMAIN queues'[o]
      PROVE  g_init' /\ media'[queues'[o][n]].in \in Inputs /\ OutputOf(media'[queues'[o][n]].in) = o
  <2>1. queues'[o][n] \in Frames /\ refs'[queues'[o][n]] > 0
    BY <1>1, OwnedNow DEF OwnedCount
  <2>2. CASE \E m \in DOMAIN queues[o] : queues'[o][n] = queues[o][m]
    <3> PICK m \in DOMAIN queues[o] : queues'[o][n] = queues[o][m]
      BY <2>2
    <3>1. queues[o][m] \in Frames /\ refs[queues[o][m]] > 0
      BY OwnedNow DEF OwnedCount
    <3>2. g_init /\ media[queues[o][m]].in \in Inputs /\ OutputOf(media[queues[o][m]].in) = o
      BY DEF Routed
    <3>3. \A k \in Frames : refs[k] > 0 => refs[k] # 0
      OBVIOUS
    <3>4. refs[queues[o][m]] # 0 /\ refs'[queues[o][m]] # 0
      BY <2>1, <3>1
    <3>5. media'[queues[o][m]] = media[queues[o][m]]
      BY <3>1, <3>4
    <3> QED
      BY <3>2, <3>5
  <2>3. CASE g_init /\ media'[queues'[o][n]].in \in Inputs /\ OutputOf(media'[queues'[o][n]].in) = o
    BY <2>3
  <2> QED
    BY <2>2, <2>3
<1>3. last' = [i \in Inputs |-> last'[i]] /\ \A i \in Inputs : last'[i] # -1 => g_init' /\ OutputOf(i) = watched'
  BY DEF Routed
<1>4. \A o \in Outputs : \A n \in DOMAIN queues'[o] :
        /\ g_init' /\ media'[queues'[o][n]].in \in Inputs'
        /\ (IF g_firstInput' = media'[queues'[o][n]].in THEN 1 ELSE 2) = o
  BY <1>1, <1>2 DEF OutputOf
<1>5. \A i \in Inputs : last'[i] # -1 => g_init' /\ (IF g_firstInput' = i THEN 1 ELSE 2) = watched'
  BY <1>3 DEF OutputOf
<1> QED
  BY <1>1, <1>3, <1>4, <1>5 DEF Routed, OutputOf

\* A thread moves on without touching frames.
LEMMA MovesSync ==
  ASSUME OwnersInv, OwnersInv', Routed, Identified, "mixed" \notin faults, Identified',
         UNCHANGED <<program, inputs, g_firstInput, watched, last, faults, hFrame, refs, media, queues>>,
         g_init => g_init'
  PROVE  SyncInv'
<1>1. media' = [k \in Frames |-> media'[k]]
  BY DEF Routed
<1>2. \A i \in Inputs : hFrame'[i] # 0 => media'[hFrame'[i]].in = i
  BY DEF Routed
<1>3. Routed'
  BY <1>1, <1>2, RoutedKeeps
<1> QED
  BY <1>3 DEF SyncInv

LEMMA JoinsSync ==
  ASSUME OwnersInv, OwnersInv', SyncInv, NEW i \in Inputs, Joins(i)
  PROVE  SyncInv'
<1>1. "joined" \in Elsewhere
  BY DEF Elsewhere, Places, Holding, Making
<1>2. /\ UNCHANGED <<program, inputs, g_firstInput, g_init, watched, last, faults, hFrame, refs, media, queues>>
      /\ inAt' = [inAt EXCEPT ![i] = "joined"]
  BY DEF Joins, Goes, callbackVars
<1>3. Identified'
  BY <1>1, <1>2, IdentifiedKeeps DEF SyncInv, OwnersInv
<1> QED
  BY <1>2, <1>3, MovesSync DEF SyncInv

LEMMA TickSync ==
  ASSUME OwnersInv, OwnersInv', SyncInv, NEW i \in Inputs, Reads(i)
  PROVE  SyncInv'
<1>1. /\ Free # {} /\ inAt' = [inAt EXCEPT ![i] = "tick"] /\ hFrame' = [hFrame EXCEPT ![i] = FirstFree]
      /\ UNCHANGED <<program, inputs, g_firstInput, g_init, queues, watched, last, faults>>
  BY DEF Reads, Tick, callbackVars
<1>2. FirstFree \in Frames /\ refs[FirstFree] = 0
  BY <1>1, FramesAreNumbers
<1>3. PICK m : m.in = i /\ media' = [media EXCEPT ![FirstFree] = m]
  <2>1. PICK kind \in Given :
          media' = [media EXCEPT ![FirstFree] = [in |-> i, kind |-> kind, n |-> IF Numbered(kind) THEN number[i] ELSE 0]]
    BY DEF Reads, Tick
  <2>2. [in |-> i, kind |-> kind, n |-> IF Numbered(kind) THEN number[i] ELSE 0].in = i
    OBVIOUS
  <2> QED
    BY <2>1, <2>2
<1>4. media = [k \in Frames |-> media[k]] /\ hFrame \in [Inputs -> Frames \cup {0}]
  BY DEF SyncInv, Routed, OwnersInv, ClientTypes
<1>5. media' = [k \in Frames |-> IF k = FirstFree THEN m ELSE media[k]]
  BY <1>3, <1>4
<1>6. media' = [k \in Frames |-> media'[k]] /\ media'[FirstFree] = m
  BY <1>2, <1>5
<1>7. \A k \in Frames : refs[k] # 0 => media'[k] = media[k]
  BY <1>2, <1>5
<1>8. ASSUME NEW j \in Inputs, hFrame'[j] # 0 PROVE media'[hFrame'[j]].in = j
  <2>1. CASE j = i
    BY <1>1, <1>3, <1>4, <1>6, <2>1
  <2>2. CASE j # i
    <3>1. hFrame'[j] = hFrame[j] /\ hFrame[j] \in Frames
      BY <1>1, <1>4, <1>8, <2>2
    <3>2. refs[hFrame[j]] > 0
      BY <3>1, OwnedNow DEF OwnedCount
    <3>3. media'[hFrame[j]] = media[hFrame[j]]
      BY <1>7, <3>1, <3>2
    <3>4. media[hFrame[j]].in = j
      BY <1>8, <3>1 DEF SyncInv, Routed
    <3> QED
      BY <3>1, <3>3, <3>4
  <2> QED
    BY <2>1, <2>2
<1>9. "tick" \in Elsewhere
  BY DEF Elsewhere, Places, Holding, Making
<1>10. Identified'
  BY <1>1, <1>9, IdentifiedKeeps DEF SyncInv, OwnersInv
<1>11. Routed'
  BY <1>1, <1>6, <1>7, <1>8, RoutedKeeps DEF SyncInv
<1> QED
  BY <1>1, <1>10, <1>11 DEF SyncInv

\* Who comes first, who comes second.
LEMMA IdentifiesSync ==
  ASSUME OwnersInv, OwnersInv', SyncInv, NEW i \in Inputs, SyncTick(i) \/ SyncFirst(i) \/ SyncSecond(i),
         program' = program, inputs' = inputs
  PROVE  SyncInv'
<1>1. inAt \in [Inputs -> Places] /\ Inputs' = Inputs /\ inputs \in {1, 2}
  BY DEF OwnersInv, ClientTypes, Inputs
<1>2. UNCHANGED <<watched, last, faults, hFrame, refs, media, queues>>
  BY DEF SyncTick, SyncFirst, SyncSecond, keepsMedia, keepsFrames
<1>3. /\ g_firstInput \in Inputs \cup {-1}
      /\ Settled => g_firstInput \in Inputs /\ \A j \in Inputs : inAt[j] = "first" => g_firstInput = j
      /\ \A j \in Inputs : inAt[j] \in {"second", "init"} => g_firstInput # j
      /\ \A j \in Inputs : inAt[j] = "route" => g_init
      /\ Routed /\ Identified /\ "mixed" \notin faults
  BY DEF SyncInv, Identified
<1>4. \A a, b, c \in Inputs : a # c /\ b # c => a = b
  BY <1>1 DEF Inputs
<1>5. -1 \notin Inputs
  BY DEF Inputs
<1>6. CASE SyncTick(i)
  <2>1. UNCHANGED <<g_firstInput, g_init>>
    BY <1>6 DEF SyncTick, callbackVars
  <2>2. inAt[i] = "tick" /\ inAt' = [inAt EXCEPT ![i] = IF g_init THEN "route" ELSE IF IdentifiesFirst(i) THEN "first"
                                                        ELSE IF g_secondInput = -1 THEN "second" ELSE "tail"]
    BY <1>6 DEF SyncTick, Goes
  <2>3. \A j \in Inputs : j # i => inAt'[j] = inAt[j]
    BY <1>1, <2>2
  <2>4. CASE g_init
    <3>1. inAt'[i] = "route" /\ Settled
      BY <1>1, <2>2, <2>4 DEF Settled
    <3> QED
      BY <1>1, <1>2, <1>3, <2>1, <2>3, <2>4, <3>1, MovesSync DEF Identified, Settled
  <2>5. CASE ~g_init /\ IdentifiesFirst(i)
    <3>1. inAt'[i] = "first" /\ g_firstInput \in {-1, i}
      BY <1>1, <2>2, <2>5 DEF IdentifiesFirst
    <3>2. Settled' => Settled
      BY <1>1, <2>1, <2>3, <3>1 DEF Settled
    <3>3. Identified'
      BY <1>1, <1>3, <1>5, <2>1, <2>3, <3>1, <3>2 DEF Identified
    <3> QED
      BY <1>2, <1>3, <2>1, <3>3, MovesSync
  <2>6. CASE ~g_init /\ ~IdentifiesFirst(i) /\ g_secondInput = -1
    <3>1. inAt'[i] = "second" /\ g_firstInput \in Inputs /\ g_firstInput # i
      BY <1>1, <1>3, <2>2, <2>6 DEF IdentifiesFirst
    <3>2. \A j \in Inputs : inAt'[j] = "first" => g_firstInput = j
      BY <1>4, <2>3, <3>1
    <3>3. Identified'
      BY <1>1, <1>3, <2>1, <2>3, <3>1, <3>2 DEF Identified
    <3> QED
      BY <1>2, <1>3, <2>1, <3>3, MovesSync
  <2>7. CASE ~g_init /\ ~IdentifiesFirst(i) /\ g_secondInput # -1
    <3>1. inAt' = [inAt EXCEPT ![i] = "tail"] /\ "tail" \in Elsewhere
      BY <2>2, <2>7 DEF Elsewhere, Places, Holding, Making
    <3>2. Identified'
      BY <1>3, <2>1, <3>1, IdentifiedKeeps DEF OwnersInv
    <3> QED
      BY <1>2, <1>3, <2>1, <3>2, MovesSync
  <2> QED
    BY <2>4, <2>5, <2>6, <2>7
<1>7. CASE SyncFirst(i)
  <2>1. inAt[i] = "first" /\ inAt' = [inAt EXCEPT ![i] = "tail"] /\ g_firstInput' = i /\ g_init' = g_init
    BY <1>7 DEF SyncFirst, Goes
  <2>2. inAt'[i] = "tail" /\ \A j \in Inputs : j # i => inAt'[j] = inAt[j]
    BY <1>1, <2>1
  <2>3. CASE Settled
    <3>1. g_firstInput' = g_firstInput
      BY <1>3, <2>1, <2>3
    <3>2. "tail" \in Elsewhere
      BY DEF Elsewhere, Places, Holding, Making
    <3>3. Identified'
      BY <1>3, <2>1, <3>1, <3>2, IdentifiedKeeps DEF OwnersInv
    <3> QED
      BY <1>2, <1>3, <2>1, <3>1, <3>3, MovesSync
  <2>4. CASE ~Settled
    <3>1. ~g_init /\ \A j \in Inputs : inAt[j] \notin {"second", "init"}
      BY <2>4 DEF Settled
    <3>2. ~Settled' /\ \A j \in Inputs : inAt'[j] \notin {"second", "init"}
      BY <1>1, <2>1, <2>2, <3>1 DEF Settled
    <3>3. Identified'
      BY <1>1, <1>3, <2>1, <2>2, <3>1, <3>2 DEF Identified
    <3>4. /\ \A o \in Outputs : \A n \in DOMAIN queues[o] : FALSE
          /\ \A j \in Inputs : last[j] = -1
      BY <1>3, <3>1 DEF Routed
    <3>5. Routed'
      <4>1. Frames' = Frames
        BY DEF Frames, Limit
      <4> QED
        BY <1>1, <1>2, <1>3, <3>4, <4>1 DEF Routed
    <3> QED
      BY <1>2, <1>3, <3>3, <3>5 DEF SyncInv
  <2> QED
    BY <2>3, <2>4
<1>8. CASE SyncSecond(i)
  <2>1. g_firstInput' = g_firstInput /\ (g_init => g_init')
    BY <1>8 DEF SyncSecond
  <2>2. \/ inAt[i] = "second" /\ inAt' = [inAt EXCEPT ![i] = "init"] /\ g_init' = g_init
        \/ inAt[i] = "init" /\ inAt' = [inAt EXCEPT ![i] = "tail"] /\ g_init' = TRUE
    BY <1>8 DEF SyncSecond, Goes
  <2>3. /\ inAt[i] \in {"second", "init"} /\ inAt'[i] \in {"init", "tail"} /\ Settled
        /\ \A j \in Inputs : j # i => inAt'[j] = inAt[j]
    BY <1>1, <2>2 DEF Settled
  <2>4. Identified'
    BY <1>1, <1>3, <2>1, <2>3 DEF Identified
  <2> QED
    BY <1>2, <1>3, <2>1, <2>4, MovesSync
<1> QED
  BY <1>6, <1>7, <1>8

LEMMA AppendHas ==
  ASSUME NEW S, NEW s \in Seq(S), NEW v, NEW n \in DOMAIN Append(s, v)
  PROVE  (n \in DOMAIN s /\ Append(s, v)[n] = s[n]) \/ Append(s, v)[n] = v
<1>1. n \in 1 .. Len(s) + 1 /\ Len(s) \in Nat /\ DOMAIN s = 1 .. Len(s)
  OBVIOUS
<1>2. n \in 1 .. Len(s) \/ n = Len(s) + 1
  BY <1>1
<1> QED
  BY <1>1, <1>2

LEMMA TailHas ==
  ASSUME NEW S, NEW s \in Seq(S), s # << >>, NEW n \in DOMAIN Tail(s)
  PROVE  n + 1 \in DOMAIN s /\ Tail(s)[n] = s[n + 1]
OBVIOUS

\* A frame is sent to the output of its input, or dropped.
LEMMA RoutesSync ==
  ASSUME OwnersInv, OwnersInv', SyncInv, NEW i \in Inputs, SyncRoute(i), program = "synchronizer",
         program' = program, inputs' = inputs
  PROVE  SyncInv'
<1>1. UNCHANGED <<watched, last, faults, g_firstInput, g_init>> /\ Routed /\ Identified /\ "mixed" \notin faults
  BY DEF SyncRoute, keepsFrames, callbackVars, SyncInv
<1>2. /\ inAt[i] \in {"route", "tail"} /\ inAt' = [inAt EXCEPT ![i] = "read"] /\ hFrame' = [hFrame EXCEPT ![i] = 0]
  BY DEF SyncRoute, Returns, Goes
<1>3. /\ hFrame \in [Inputs -> Frames \cup {0}] /\ refs \in [Frames -> Int]
      /\ queues \in [Outputs -> Seq(Frames)] /\ Inputs' = Inputs /\ Frames' = Frames
  BY DEF OwnersInv, ClientTypes, Inputs, Frames, Limit
<1>4. hFrame[i] \in Frames /\ media[hFrame[i]].in = i
  <2>1. hFrame[i] # 0
    BY <1>2 DEF OwnersInv, PlacesInv, HasFrame, Holding
  <2> QED
    BY <1>1, <1>3, <2>1 DEF Routed
<1>5. PICK n \in Int : Left(hFrame[i], n)
  <2>1. refs[hFrame[i]] \in Int
    BY <1>3, <1>4
  <2>2. Cardinality({OutputOf(i)}) = 1
    BY FS_Singleton
  <2>3. CASE Sends(hFrame[i], {OutputOf(i)})
    <3>1. Left(hFrame[i], refs[hFrame[i]] + Cardinality({OutputOf(i)}) - 1)
      BY <2>3 DEF Sends
    <3>2. refs[hFrame[i]] + Cardinality({OutputOf(i)}) - 1 \in Int
      BY <2>1, <2>2
    <3> QED
      BY <3>1, <3>2
  <2>4. CASE Releases(hFrame[i])
    <3>1. Left(hFrame[i], refs[hFrame[i]] - 1) /\ refs[hFrame[i]] - 1 \in Int
      BY <2>1, <2>4 DEF Releases
    <3> QED
      BY <3>1
  <2> QED
    BY <2>3, <2>4 DEF SyncRoute
<1>6. /\ media' = [k \in Frames |-> media'[k]]
      /\ \A k \in Frames : refs'[k] # 0 => media'[k] = media[k]
  BY <1>1, <1>3, <1>4, <1>5, LeftCarries
<1>7. ASSUME NEW j \in Inputs, hFrame'[j] # 0 PROVE media'[hFrame'[j]].in = j
  <2>1. hFrame'[j] = hFrame[j] /\ hFrame[j] \in Frames
    BY <1>2, <1>3, <1>7
  <2>2. refs'[hFrame'[j]] > 0
    BY <1>3, <2>1, OwnedNow DEF OwnedCount
  <2>3. media'[hFrame[j]] = media[hFrame[j]]
    BY <1>6, <2>1, <2>2
  <2>4. media[hFrame[j]].in = j
    BY <1>1, <1>7, <2>1 DEF Routed
  <2> QED
    BY <2>1, <2>3, <2>4
<1>8. ASSUME NEW o \in Outputs, NEW n2 \in DOMAIN queues'[o]
      PROVE  \/ \E m \in DOMAIN queues[o] : queues'[o][n2] = queues[o][m]
             \/ g_init /\ media'[queues'[o][n2]].in \in Inputs /\ OutputOf(media'[queues'[o][n2]].in) = o
  <2>1. CASE queues'[o] = queues[o]
    BY <2>1
  <2>2. CASE queues'[o] # queues[o]
    <3>1. Returns(i, "route") /\ Sends(hFrame[i], {OutputOf(i)})
      BY <2>2 DEF SyncRoute, Releases
    <3>2. o = OutputOf(i) /\ queues'[o] = Append(queues[o], hFrame[i]) /\ queues[o] \in Seq(Frames)
      BY <1>3, <2>2, <3>1 DEF Sends
    <3>3. g_init
      BY <1>1, <3>1 DEF Returns, Goes, Identified
    <3>4. CASE n2 \in DOMAIN queues[o] /\ queues'[o][n2] = queues[o][n2]
      BY <3>4
    <3>5. CASE queues'[o][n2] = hFrame[i]
      <4>1. refs'[hFrame[i]] > 0
        BY <1>3, <3>5, OwnedNow DEF OwnedCount
      <4>2. media'[hFrame[i]] = media[hFrame[i]]
        BY <1>4, <1>6, <4>1
      <4> QED
        BY <1>4, <3>2, <3>3, <3>5, <4>2
    <3> QED
      BY <3>2, <3>4, <3>5, AppendHas
  <2> QED
    BY <2>1, <2>2
<1>9. Identified'
  <2>1. "read" \in Elsewhere
    BY DEF Elsewhere, Places, Holding, Making
  <2> QED
    BY <1>1, <1>2, <2>1, IdentifiedKeeps DEF OwnersInv
<1>10. Routed'
  BY <1>1, <1>6, <1>7, <1>8, RoutedKeeps
<1> QED
  BY <1>1, <1>9, <1>10 DEF SyncInv

\* What an output sends came from its own input.
LEMMA OutputSync ==
  ASSUME OwnersInv, OwnersInv', SyncInv, NEW o \in Outputs, Send(o), program = "synchronizer"
  PROVE  SyncInv'
<1> DEFINE f == Head(queues[o])
           m == media[f]
<1>1. /\ UNCHANGED <<program, inputs, inAt, hFrame, watched, g_firstInput, g_init>>
      /\ queues[o] # << >> /\ queues' = [queues EXCEPT ![o] = Tail(queues[o])]
      /\ Left(f, refs[f] - 1)
  BY DEF Send, OutSends, callbackVars
<1>2. /\ hFrame \in [Inputs -> Frames \cup {0}] /\ refs \in [Frames -> Int] /\ inputs \in {1, 2}
      /\ queues \in [Outputs -> Seq(Frames)] /\ Inputs' = Inputs /\ Frames' = Frames
  BY <1>1 DEF OwnersInv, ClientTypes, Inputs, Frames, Limit
<1>3. Routed /\ Identified /\ "mixed" \notin faults
  BY DEF SyncInv
<1>4. f \in Frames /\ \E n \in DOMAIN queues[o] : f = queues[o][n]
  <2>1. queues[o] \in Seq(Frames)
    BY <1>2
  <2>2. 1 \in DOMAIN queues[o] /\ f = queues[o][1]
    BY <1>1, <2>1
  <2>3. f \in Frames
    BY <2>1, <2>2
  <2> QED
    BY <2>2, <2>3
<1>5. g_init /\ m.in \in Inputs /\ OutputOf(m.in) = o /\ g_firstInput \in Inputs
  BY <1>3, <1>4 DEF Routed, Identified, Settled
<1>6. /\ media' = [k \in Frames |-> media'[k]]
      /\ \A k \in Frames : refs'[k] # 0 => media'[k] = media[k]
  <2>1. refs[f] - 1 \in Int
    BY <1>2, <1>4
  <2> QED
    BY <1>1, <1>2, <1>3, <1>4, <2>1, LeftCarries
<1>7. /\ last' = [i \in Inputs |-> last'[i]] /\ "mixed" \notin faults'
      /\ \A i \in Inputs : last'[i] # -1 => OutputOf(i) = watched
  <2>1. last = [i \in Inputs |-> last[i]] /\ \A i \in Inputs : last[i] # -1 => OutputOf(i) = watched
    BY <1>3 DEF Routed
  <2>2. CASE o = watched /\ IsVideo(m.kind) /\ "order" \notin faults
    <3>1. /\ last' = IF m.n = NextOf(m) THEN [last EXCEPT ![m.in] = m.n] ELSE [i \in Inputs |-> -1]
          /\ faults' = faults \cup (IF m.n # NextOf(m) THEN {"order"} ELSE {})
                        \cup (IF program = "synchronizer" /\ \E i \in Inputs \ {m.in} : last[i] # -1
                              THEN {"mixed"} ELSE {})
      BY <2>2 DEF Send, OutSends
    <3>2. \A i \in Inputs \ {m.in} : last[i] = -1
      <4> SUFFICES ASSUME NEW i \in Inputs, i # m.in, last[i] # -1 PROVE FALSE
        OBVIOUS
      <4>1. OutputOf(i) = OutputOf(m.in)
        BY <1>5, <2>1, <2>2
      <4> QED
        BY <1>2, <1>5, <4>1, TwoOutputs
    <3>3. "mixed" \notin faults'
      BY <1>3, <3>1, <3>2
    <3>4. CASE m.n = NextOf(m)
      <4>1. last' = [i \in Inputs |-> IF i = m.in THEN m.n ELSE last[i]]
        BY <2>1, <3>1, <3>4
      <4> QED
        BY <1>5, <2>1, <2>2, <3>3, <4>1
    <3>5. CASE m.n # NextOf(m)
      BY <3>1, <3>3, <3>5
    <3> QED
      BY <3>4, <3>5
  <2>3. CASE ~(o = watched /\ IsVideo(m.kind) /\ "order" \notin faults)
    <3>1. UNCHANGED <<last, faults>>
      BY <2>3 DEF Send, OutSends
    <3> QED
      BY <1>3, <2>1, <3>1
  <2> QED
    BY <2>2, <2>3
<1>8. ASSUME NEW j \in Inputs, hFrame'[j] # 0 PROVE media'[hFrame'[j]].in = j
  <2>1. hFrame'[j] = hFrame[j] /\ hFrame[j] \in Frames
    BY <1>1, <1>2, <1>8
  <2>2. refs'[hFrame'[j]] > 0
    BY <1>2, <2>1, OwnedNow DEF OwnedCount
  <2>3. media'[hFrame[j]] = media[hFrame[j]]
    BY <1>6, <2>1, <2>2
  <2>4. media[hFrame[j]].in = j
    BY <1>3, <1>8, <2>1 DEF Routed
  <2> QED
    BY <2>1, <2>3, <2>4
<1>9. ASSUME NEW p \in Outputs, NEW n \in DOMAIN queues'[p]
      PROVE  \E n2 \in DOMAIN queues[p] : queues'[p][n] = queues[p][n2]
  <2>1. CASE p = o
    <3>1. queues'[p] = Tail(queues[p]) /\ queues[p] \in Seq(Frames) /\ queues[p] # << >>
      BY <1>1, <1>2, <2>1
    <3>2. n + 1 \in DOMAIN queues[p] /\ Tail(queues[p])[n] = queues[p][n + 1]
      BY <3>1, TailHas
    <3> QED
      BY <3>1, <3>2
  <2>2. CASE p # o
    BY <1>1, <1>2, <2>2
  <2> QED
    BY <2>1, <2>2
<1>10. Identified'
  BY <1>1, <1>2, <1>3 DEF Identified, Settled
<1>11. Routed'
  <2>1. ASSUME NEW p \in Outputs, NEW n \in DOMAIN queues'[p]
        PROVE  g_init /\ media'[queues'[p][n]].in \in Inputs /\ OutputOf(media'[queues'[p][n]].in) = p
    <3> PICK n2 \in DOMAIN queues[p] : queues'[p][n] = queues[p][n2]
      BY <1>9
    <3>1. queues'[p][n] \in Frames /\ refs'[queues'[p][n]] > 0
      BY <1>2, OwnedNow DEF OwnedCount
    <3>2. media'[queues'[p][n]] = media[queues'[p][n]]
      BY <1>6, <3>1
    <3> QED
      BY <1>3, <3>2 DEF Routed
  <2> QED
    BY <1>1, <1>2, <1>5, <1>6, <1>7, <1>8, <2>1 DEF Routed, OutputOf
<1> QED
  BY <1>7, <1>10, <1>11 DEF SyncInv

LEMMA SyncStep == OwnersInv /\ OwnersInv' /\ program = "synchronizer" /\ SyncInv /\ [Next]_vars => SyncInv'
<1> SUFFICES ASSUME OwnersInv, OwnersInv', program = "synchronizer", SyncInv, [Next]_vars PROVE SyncInv'
  OBVIOUS
<1>1. CASE Main \/ Signal \/ WinSignal \/ Draw \/ Report \/ UNCHANGED vars
  BY <1>1, MainRests, RestsSync, JoinsSync
<1>2. ASSUME NEW i \in Inputs, Reads(i) PROVE SyncInv'
  BY <1>2, TickSync
<1>3. ASSUME NEW i \in Inputs, CallsBack(i) PROVE SyncInv'
  <2>1. program' = program /\ inputs' = inputs
    BY <1>3 DEF CallsBack, Survives
  <2>2. Synchronizer(i)
    BY <1>3 DEF CallsBack, Callback, Shows, VideoPlayer, WinPlayer, Adapter, Analyzer, MultInstances, Demuxer,
       Converter, Retarder, Probe
  <2> QED
    BY <2>1, <2>2, IdentifiesSync, RoutesSync DEF Synchronizer
<1>4. ASSUME NEW o \in Outputs, Send(o) PROVE SyncInv'
  BY <1>4, OutputSync
<1> QED
  BY <1>1, <1>2, <1>3, <1>4 DEF Next

LEMMA SyncInit == Init => SyncInv
<1> SUFFICES ASSUME Init PROVE SyncInv
  OBVIOUS
<1>1. /\ inAt = [i \in Inputs |-> "read"] /\ hFrame = [i \in Inputs |-> 0] /\ faults = {}
      /\ queues = [o \in Outputs |-> << >>] /\ media = [k \in Frames |-> None] /\ last = [i \in Inputs |-> -1]
      /\ g_firstInput = -1 /\ g_init = FALSE
  BY DEF Init, FramesInit, CallbacksInit
<1>2. Identified
  BY <1>1 DEF Identified, Settled
<1>3. Routed
  BY <1>1 DEF Routed
<1> QED
  BY <1>1, <1>2, <1>3 DEF SyncInv

(***************************************************************************)
(* What holds always.                                                      *)
(***************************************************************************)
LEMMA ProgramStays == [Next]_vars => program' = program
<1>1. Rests => program' = program
  BY DEF Rests
<1>2. ASSUME NEW i, Joins(i) \/ Reads(i) \/ CallsBack(i) PROVE program' = program
  BY <1>2 DEF Joins, Reads, CallsBack, Survives
<1>3. ASSUME NEW o, Send(o) PROVE program' = program
  BY <1>3 DEF Send
<1> QED
  BY <1>1, <1>2, <1>3, MainRests DEF Next

LEMMA ClientAlways == Spec => []ClientInv
<1>1. Init => ClientInv
  BY OwnersInit, SyncInit DEF ClientInv, SyncInv
<1>2. ClientInv /\ [Next]_vars => ClientInv'
  BY OwnersStep, SyncStep, ProgramStays DEF ClientInv, SyncInv
<1>3. Spec => Init /\ [][Next]_vars
  BY PTL DEF Spec
<1> QED
  BY <1>1, <1>2, <1>3, PTL

(***************************************************************************)
(* What the programs may count on.                                         *)
(***************************************************************************)
\* Every reference that libvMI_send, libvmi_frame_create and the inputs take is held
\* by a callback, the queue of an output or the delay line of the retarder, for any
\* number of frames and any delay: the callbacks neither leak a frame nor release
\* one an output still has to send.
THEOREM ReferencesAreOwned == Spec => []FramesAreOwned
<1>1. ClientInv => FramesAreOwned
  BY DEF ClientInv, OwnersInv
<1> QED
  BY ClientAlways, <1>1, PTL

\* The synchronizer never sends frames of both inputs to one output, although the
\* callbacks of both write g_firstInput, g_secondInput and g_init without a lock.
THEOREM SynchronizerSeparates == Spec => []InputsKeepTheirOutputs
<1>1. ClientInv => InputsKeepTheirOutputs
  BY DEF ClientInv, InputsKeepTheirOutputs
<1> QED
  BY ClientAlways, <1>1, PTL

(***************************************************************************)
(* What frames carry.                                                      *)
(***************************************************************************)
\* A frame that somebody keeps carries the same video or audio as before; only the
\* converter changes its depth.
Same(k) == \/ media'[k] = media[k]
           \/ /\ program = "converter" /\ IsVideo(media[k].kind)
              /\ media'[k] = [media[k] EXCEPT !.kind = "video8"]
AllKinds == {"none", "video8", "video10", "audio", "rgb", "bgr"}
Carried == [in : 0 .. 2, kind : AllKinds, n : Numbers]
MediaTypes == media \in [Frames -> Carried] /\ number \in [Inputs -> Numbers]
MediaKept == \A k \in Frames : refs[k] # 0 /\ refs'[k] # 0 => Same(k)

LEMMA LeftKeeps ==
  ASSUME UNCHANGED <<program, inputs, number>>, refs \in [Frames -> Int], MediaTypes,
         NEW f \in Frames, NEW n, Left(f, n)
  PROVE  MediaTypes' /\ MediaKept
<1>1. media \in [Frames -> Carried] /\ Frames' = Frames /\ number' \in [Inputs' -> Numbers] /\ Carried' = Carried
  BY DEF MediaTypes, Frames, Limit, Inputs, Carried, Numbers
<1>2. /\ refs' = [refs EXCEPT ![f] = n]
      /\ media' = IF n = 0 THEN [media EXCEPT ![f] = None] ELSE media
  BY DEF Left
<1>3. CASE n = 0
  <2>1. media' = [media EXCEPT ![f] = None]
    BY <1>2, <1>3
  <2>2. None \in Carried
    BY DEF None, Carried, Numbers, AllKinds
  <2>3. refs'[f] = 0
    BY <1>2, <1>3
  <2>4. \A k \in Frames : k # f => media'[k] = media[k]
    BY <1>1, <2>1
  <2>5. media' \in [Frames -> Carried]
    BY <1>1, <2>1, <2>2
  <2> QED
    BY <1>1, <2>3, <2>4, <2>5 DEF MediaTypes, MediaKept, Same
<1>4. CASE n # 0
  <2>1. media' = media
    BY <1>2, <1>4
  <2> QED
    BY <1>1, <2>1 DEF MediaTypes, MediaKept, Same
<1> QED
  BY <1>3, <1>4

\* What is put into a free frame is nobody's loss.
LEMMA FillKeeps ==
  ASSUME UNCHANGED <<program, inputs>>, MediaTypes, number' \in [Inputs -> Numbers],
         NEW m \in Carried, Free # {}, media' = [media EXCEPT ![FirstFree] = m]
  PROVE  /\ MediaTypes' /\ MediaKept /\ media'[FirstFree] = m
         /\ \A k \in Frames : refs[k] # 0 => media'[k] = media[k]
<1>1. media \in [Frames -> Carried] /\ Frames' = Frames /\ Inputs' = Inputs /\ Carried' = Carried
  BY DEF MediaTypes, Frames, Limit, Inputs, Carried, Numbers
<1>2. FirstFree \in Frames /\ refs[FirstFree] = 0
  BY FramesAreNumbers
<1> DEFINE g == FirstFree
<1>3. g \in Frames /\ refs[g] = 0 /\ media' = [media EXCEPT ![g] = m]
  BY <1>2
<1> HIDE DEF g
<1>4. media' \in [Frames -> Carried] /\ media'[g] = m /\ \A k \in Frames : k # g => media'[k] = media[k]
  BY <1>1, <1>3
<1>5. MediaKept /\ \A k \in Frames : refs[k] # 0 => media'[k] = media[k]
  BY <1>3, <1>4 DEF MediaKept, Same
<1> QED
  BY <1>1, <1>4, <1>5 DEF MediaTypes, g, Numbers

LEMMA StaysKeeps ==
  ASSUME UNCHANGED <<program, inputs, number, media>>, MediaTypes
  PROVE  MediaTypes' /\ MediaKept
BY DEF MediaTypes, MediaKept, Same, Frames, Limit, Inputs, Carried, Numbers

LEMMA CallbackKeeps ==
  ASSUME OwnersInv, MediaTypes, NEW i \in Inputs, CallsBack(i)
  PROVE  MediaTypes' /\ MediaKept
<1>1. UNCHANGED <<program, inputs, number>>
  BY DEF CallsBack, Survives, Callback, Adapter, Analyzer, MultInstances, Demuxer, Forwards, Converter, ConverterTick,
     ConverterCreate, ConverterSend, ConverterRelease, Retarder, RetarderPush, RetarderPop, RetarderSend, Synchronizer,
     SyncTick, SyncFirst, SyncSecond, SyncRoute, Probe, ProbeTakes, ProbeReleases, keepsMedia, keepsFrames,
     Shows, VideoPlayer, PlayerTick, PlayerResizes, PlayerCopies, PlayerReleases,
     WinPlayer, WinTick, WinInit, WinQueue, WinReleases, keepsLibrary
<1>2. /\ refs \in [Frames -> Int]
      /\ hFrame[i] \in Frames \cup {0} /\ newH[i] \in Frames \cup {0}
  BY DEF OwnersInv, ClientTypes
<1>3. HasFrame(i) => hFrame[i] \in Frames
  BY <1>2 DEF OwnersInv, PlacesInv
<1>4. inAt[i] \in Making => newH[i] \in Frames
  BY <1>2 DEF OwnersInv, PlacesInv
<1>5. ASSUME hFrame[i] \in Frames, NEW outputs, Sends(hFrame[i], outputs) \/ Releases(hFrame[i])
      PROVE  MediaTypes' /\ MediaKept
  BY <1>1, <1>2, <1>5, LeftKeeps DEF Sends, Releases
<1>6. ASSUME NEW outputs, Forwards(i, outputs) PROVE MediaTypes' /\ MediaKept
  <2>1. HasFrame(i)
    BY <1>6 DEF Forwards, Returns, Goes, HasFrame, Holding
  <2> QED
    BY <1>3, <1>5, <1>6, <2>1 DEF Forwards
<1>7. ASSUME Converter(i) PROVE MediaTypes' /\ MediaKept
  <2>1. CASE inAt[i] = "tick" /\ ConverterTick(i)
    <3>1. CASE Forwards(i, {})
      BY <1>6, <3>1
    <3>2. CASE Kind(i) = "video10" /\ media' = [media EXCEPT ![hFrame[i]].kind = "video8"]
      <4>1. HasFrame(i) /\ program = "converter"
        BY <1>7, <2>1 DEF HasFrame, Holding, Converter
      <4>2. PICK f \in Frames : f = hFrame[i]
        BY <1>3, <4>1
      <4> DEFINE m == [media[f] EXCEPT !.kind = "video8"]
      <4>3. media \in [Frames -> Carried] /\ media' = [media EXCEPT ![f] = m]
        BY <3>2, <4>2 DEF MediaTypes
      <4>4. m \in Carried
        BY <4>3 DEF Carried, AllKinds
      <4>5. m = [media[f] EXCEPT !.kind = "video8"] /\ IsVideo(media[f].kind)
        BY <3>2, <4>2 DEF Kind, IsVideo
      <4> HIDE DEF m
      <4>6. media' \in [Frames -> Carried] /\ media'[f] = m /\ \A k \in Frames : k # f => media'[k] = media[k]
        BY <4>3, <4>4
      <4>7. MediaKept
        BY <4>1, <4>5, <4>6 DEF MediaKept, Same
      <4>8. MediaTypes'
        BY <1>1, <4>6 DEF MediaTypes, Frames, Limit, Inputs, Carried, Numbers
      <4> QED
        BY <4>7, <4>8
    <3>3. CASE keepsMedia
      BY <1>1, <3>3, StaysKeeps DEF keepsMedia
    <3> QED
      BY <2>1, <3>1, <3>2, <3>3 DEF ConverterTick
  <2>2. CASE ConverterCreate(i)
    <3>1. CASE Free = {}
      <4>1. media' = media
        BY <2>2, <3>1 DEF ConverterCreate
      <4> QED
        BY <1>1, <4>1, StaysKeeps
    <3>2. CASE Free # {}
      <4>1. media' = [media EXCEPT ![FirstFree] = [media[hFrame[i]] EXCEPT !.kind = "video10"]]
        BY <2>2, <3>2 DEF ConverterCreate
      <4>2. HasFrame(i)
        BY <2>2 DEF ConverterCreate, Goes, HasFrame, Holding
      <4>3. media[hFrame[i]] \in Carried
        BY <1>3, <4>2 DEF MediaTypes
      <4>4. [media[hFrame[i]] EXCEPT !.kind = "video10"] \in Carried
        BY <4>3 DEF Carried, AllKinds
      <4>5. number' \in [Inputs -> Numbers]
        BY <1>1 DEF MediaTypes
      <4> QED
        BY <1>1, <3>2, <4>1, <4>4, <4>5, FillKeeps
    <3> QED
      BY <3>1, <3>2
  <2>3. CASE ConverterSend(i)
    <3>1. newH[i] \in Frames
      BY <1>4, <2>3 DEF ConverterSend, Goes, Making
    <3> QED
      BY <1>1, <1>2, <2>3, <3>1, LeftKeeps DEF ConverterSend, Sends
  <2>4. CASE ConverterRelease(i)
    <3>1. HasFrame(i)
      BY <2>4 DEF ConverterRelease, Returns, Goes, HasFrame, Holding
    <3> QED
      BY <1>3, <1>5, <2>4, <3>1 DEF ConverterRelease
  <2> QED
    BY <1>7, <2>1, <2>2, <2>3, <2>4 DEF Converter
<1>8. ASSUME Retarder(i) PROVE MediaTypes' /\ MediaKept
  <2>1. CASE RetarderPush(i) \/ RetarderPop(i)
    <3>1. media' = media
      BY <2>1 DEF RetarderPush, RetarderPop, keepsMedia
    <3> QED
      BY <1>1, <3>1, StaysKeeps
  <2>2. CASE RetarderSend(i)
    <3>1. newH[i] \in Frames
      BY <1>4, <2>2 DEF RetarderSend, Goes, Making
    <3> QED
      BY <1>1, <1>2, <2>2, <3>1, LeftKeeps DEF RetarderSend, Sends
  <2> QED
    BY <1>8, <2>1, <2>2 DEF Retarder
<1>9. ASSUME Synchronizer(i) PROVE MediaTypes' /\ MediaKept
  <2>1. CASE SyncTick(i) \/ SyncFirst(i) \/ SyncSecond(i)
    <3>1. media' = media
      BY <2>1 DEF SyncTick, SyncFirst, SyncSecond, keepsMedia
    <3> QED
      BY <1>1, <3>1, StaysKeeps
  <2>2. CASE SyncRoute(i)
    <3>1. HasFrame(i)
      BY <2>2 DEF SyncRoute, Returns, Goes, HasFrame, Holding
    <3> QED
      BY <1>3, <1>5, <2>2, <3>1 DEF SyncRoute
  <2> QED
    BY <1>9, <2>1, <2>2 DEF Synchronizer
<1>10. ASSUME Probe(i) PROVE MediaTypes' /\ MediaKept
  <2>1. CASE ProbeTakes(i)
    <3>1. media' = media
      BY <2>1 DEF ProbeTakes, keepsMedia
    <3> QED
      BY <1>1, <3>1, StaysKeeps
  <2>2. CASE ProbeReleases(i)
    <3>1. HasFrame(i)
      BY <1>10, <2>2 DEF ProbeReleases, Returns, Goes, HasFrame, Holding, Probe
    <3> QED
      BY <1>3, <1>5, <2>2, <3>1 DEF ProbeReleases
  <2> QED
    BY <1>10, <2>1, <2>2 DEF Probe
<1>11. ASSUME Shows(i) PROVE MediaTypes' /\ MediaKept
  <2>1. CASE PlayerTick(i) \/ PlayerResizes(i) \/ PlayerCopies(i) \/ WinTick(i) \/ WinInit(i) \/ WinQueue(i)
    <3>1. media' = media
      BY <2>1 DEF PlayerTick, PlayerResizes, PlayerCopies, WinTick, WinInit, WinQueue, keepsLibrary
    <3> QED
      BY <1>1, <3>1, StaysKeeps
  <2>2. CASE PlayerReleases(i) \/ WinReleases(i)
    <3>1. HasFrame(i) /\ Releases(hFrame[i])
      BY <2>2 DEF PlayerReleases, WinReleases, Returns, Goes, HasFrame, Holding
    <3> QED
      BY <1>3, <1>5, <3>1
  <2> QED
    BY <1>11, <2>1, <2>2 DEF Shows, VideoPlayer, WinPlayer
<1> QED
  BY <1>6, <1>7, <1>8, <1>9, <1>10, <1>11 DEF CallsBack, Callback, Adapter, Analyzer, MultInstances, Demuxer

\* A frame arrives.
LEMMA ReadsKeep ==
  ASSUME OwnersInv, MediaTypes, NEW i \in Inputs, Reads(i)
  PROVE  /\ MediaTypes' /\ MediaKept /\ UNCHANGED <<program, inputs>>
         /\ media'[FirstFree].in = i /\ media'[FirstFree].kind \in Given
         /\ media'[FirstFree].n = IF Numbered(media'[FirstFree].kind) THEN number[i] ELSE 0
         /\ number' = [number EXCEPT ![i] = IF Numbered(media'[FirstFree].kind) THEN 1 - @ ELSE @]
         /\ \A j \in Inputs : hFrame[j] # 0 => hFrame[j] # FirstFree
<1>1. Free # {} /\ UNCHANGED <<program, inputs>>
  BY DEF Reads, Tick
<1>2. PICK kind \in Given :
        /\ media' = [media EXCEPT ![FirstFree] = [in |-> i, kind |-> kind, n |-> IF Numbered(kind) THEN number[i] ELSE 0]]
        /\ number' = [number EXCEPT ![i] = IF Numbered(kind) THEN 1 - @ ELSE @]
  BY DEF Reads, Tick
<1>3. number[i] \in Numbers /\ i \in 0 .. 2 /\ kind \in AllKinds
  BY ClientAssumption DEF MediaTypes, OwnersInv, ClientTypes, Inputs, Given, AllKinds
<1>4. number' \in [Inputs -> Numbers]
  <2>1. 1 - number[i] \in Numbers
    BY <1>3 DEF Numbers
  <2> QED
    BY <1>2, <1>3, <2>1 DEF MediaTypes
<1> DEFINE m == [in |-> i, kind |-> kind, n |-> IF Numbered(kind) THEN number[i] ELSE 0]
<1>5. m \in Carried
  BY <1>3 DEF Carried, Numbers
<1>6. media' = [media EXCEPT ![FirstFree] = m]
  BY <1>2
<1>7. m.in = i /\ m.kind = kind /\ m.n = IF Numbered(kind) THEN number[i] ELSE 0
  OBVIOUS
<1> HIDE DEF m
<1>8. MediaTypes' /\ MediaKept /\ media'[FirstFree] = m
  BY <1>1, <1>4, <1>5, <1>6, FillKeeps
<1>9. ASSUME NEW j \in Inputs, hFrame[j] # 0 PROVE hFrame[j] # FirstFree
  <2>1. hFrame[j] \in Frames
    BY <1>9 DEF OwnersInv, ClientTypes
  <2> QED
    BY <1>1, <2>1, FramesAreNumbers, OwnedNow DEF OwnedCount
<1> QED
  BY <1>1, <1>2, <1>7, <1>8, <1>9

LEMMA MediaStep ==
  ASSUME OwnersInv, MediaTypes, [Next]_vars
  PROVE  MediaTypes' /\ MediaKept
<1>1. CASE Main \/ Signal \/ WinSignal \/ Draw \/ Report \/ UNCHANGED vars
  <2>1. UNCHANGED <<program, inputs, number, media>>
    BY <1>1, MainRests DEF Rests, Joins
  <2> QED
    BY <2>1, StaysKeeps
<1>2. ASSUME NEW i \in Inputs, Reads(i) PROVE MediaTypes' /\ MediaKept
  BY <1>2, ReadsKeep
<1>3. ASSUME NEW i \in Inputs, CallsBack(i) PROVE MediaTypes' /\ MediaKept
  BY <1>3, CallbackKeeps
<1>4. ASSUME NEW o \in Outputs, Send(o) PROVE MediaTypes' /\ MediaKept
  <2>1. /\ queues[o] # << >> /\ Left(Head(queues[o]), refs[Head(queues[o])] - 1)
        /\ UNCHANGED <<program, inputs, number>>
    BY <1>4 DEF Send, OutSends
  <2>2. queues[o] \in Seq(Frames) /\ refs \in [Frames -> Int]
    BY DEF OwnersInv, ClientTypes
  <2>3. Head(queues[o]) \in Frames
    BY <2>1, <2>2
  <2> QED
    BY <2>1, <2>2, <2>3, LeftKeeps
<1> QED
  BY <1>1, <1>2, <1>3, <1>4 DEF Next

(***************************************************************************)
(* The window of the X11 player.  The mutex is held from the first half of *)
(* a copy, or of an image, to the second one; the buffer may go at any     *)
(* time, and what is made in its place has two halves alike.               *)
(***************************************************************************)
Buffers == [{1, 2} -> Carried]
Alike == g_xbuffer = NoBuffer \/ g_xbuffer[1] = g_xbuffer[2]

BufferInv ==
  /\ g_xbuffer \in {NoBuffer} \cup Buffers
  /\ drawAt = "put" => g_mtx = "main"
  /\ \A i \in Inputs : inAt[i] = "copy" => g_mtx = "callback" /\ (Alike \/ g_xbuffer[1] = Picture(i))
  /\ \A i, j \in Inputs : inAt[i] = "copy" /\ inAt[j] = "copy" => i = j
  /\ g_mtx # "callback" => Alike
  /\ drawAt = "put" /\ picture # Freed => g_xbuffer # NoBuffer /\ g_xbuffer[1] = picture

ShownInv == "torn" \notin faults /\ (program = "videoplayer" => BufferInv)

\* A buffer is not no buffer.
LEMMA BuffersAre ==
  /\ NoBuffer \notin Buffers /\ Junk \in Buffers /\ Junk[1] = Junk[2]
  /\ \A b \in Buffers, m \in Carried, n \in {1, 2} :
       /\ b[n] \in Carried /\ [b EXCEPT ![n] = m] \in Buffers /\ [b EXCEPT ![n] = m][n] = m
       /\ \A k \in {1, 2} : k # n => [b EXCEPT ![n] = m][k] = b[k]
<1>1. DOMAIN NoBuffer = {} /\ \A b \in Buffers : DOMAIN b = {1, 2}
  BY DEF NoBuffer, Buffers
<1>2. None \in Carried
  BY DEF None, Carried, AllKinds, Numbers
<1>3. Junk \in Buffers /\ Junk[1] = Junk[2]
  <2>1. Junk = [n \in {1, 2} |-> None]
    BY DEF Junk
  <2> QED
    BY <1>2, <2>1 DEF Buffers
<1>4. \A b \in Buffers, m \in Carried, n \in {1, 2} :
       /\ b[n] \in Carried /\ [b EXCEPT ![n] = m] \in Buffers /\ [b EXCEPT ![n] = m][n] = m
       /\ \A k \in {1, 2} : k # n => [b EXCEPT ![n] = m][k] = b[k]
  BY DEF Buffers
<1> QED
  BY <1>1, <1>3, <1>4

\* The frame of a callback stays the same.
LEMMA PictureStays ==
  ASSUME OwnersInv, OwnersInv', MediaKept, program # "converter", UNCHANGED <<program, inputs>>,
         NEW j \in Inputs, HasFrame(j), hFrame'[j] = hFrame[j]
  PROVE  Picture(j)' = Picture(j)
<1>1. Inputs' = Inputs /\ Frames' = Frames
  BY DEF Inputs, Frames, Limit
<1>2. hFrame[j] \in Frames /\ refs \in [Frames -> Int] /\ refs' \in [Frames -> Int]
  BY <1>1 DEF OwnersInv, ClientTypes, PlacesInv
<1>3. refs[hFrame[j]] > 0 /\ refs'[hFrame[j]] > 0
  BY <1>1, <1>2, OwnedNow DEF OwnedCount
<1>4. \A k \in Frames : k = hFrame[j] => refs[k] # 0 /\ refs'[k] # 0
  BY <1>2, <1>3
<1>5. Same(hFrame[j])
  BY <1>2, <1>4 DEF MediaKept
<1>6. media'[hFrame[j]] = media[hFrame[j]]
  BY <1>5 DEF Same
<1> QED
  BY <1>6 DEF Picture

\* What main does to what the window shows: nothing, but for its loop.
MainLeaves ==
  \/ UNCHANGED <<program, inputs, frameVars, faults, playerVars>>
  \/ /\ drawAt = "tested" /\ drawAt' \in {"tested", "loop"}
     /\ UNCHANGED <<program, inputs, frameVars, faults, g_mtx, g_xbuffer, g_frame_size, events, picture>>
  \/ \E i \in Inputs : Joins(i) /\ UNCHANGED playerVars

LEMMA MainShows ==
  ASSUME Main \/ Signal \/ Report \/ UNCHANGED vars
  PROVE  MainLeaves
<1>1. mainOnly => MainLeaves
  BY DEF mainOnly, MainLeaves
<1>2. ASSUME NEW i, MainStopsInput(i) PROVE Joins(i) /\ UNCHANGED playerVars
  BY <1>2 DEF MainStopsInput, Joins
<1>3. StopsAndCloses => MainLeaves
  <2>1. CASE \E i \in Inputs : MainStopsInput(i)
    BY <1>2, <2>1 DEF MainLeaves
  <2> QED
    BY <1>1, <2>1 DEF StopsAndCloses, MainCloses
<1>4. MainOptions \/ MainCreates \/ MainStarts \/ MainWaits \/ MainUnlocks \/ MainSleeps \/ MainKey \/ Signal => MainLeaves
  BY <1>1 DEF MainOptions, MainCreates, MainStarts, MainWaits, MainUnlocks, MainSleeps, MainKey, Signal
<1>5. MainLoops => MainLeaves
  BY DEF MainLoops, MainLeaves
<1>6. Main => MainLeaves
  <2>1. OnSignal => MainLeaves
    BY <1>3, <1>4 DEF OnSignal
  <2> QED
    BY <1>3, <1>4, <1>5, <2>1 DEF Main, AdapterMain, AnalyzerMain, ConverterMain, DemuxerMain, RetarderMain,
       SynchronizerMain, ProbeMain, MultInstancesMain, VideoPlayerMain, WinPlayerMain
<1>7. Report => MainLeaves
  BY DEF Report, ProbeReport, MainLeaves
<1>8. UNCHANGED vars => MainLeaves
  BY DEF vars, MainLeaves
<1> QED
  BY <1>4, <1>6, <1>7, <1>8

\* A thread goes on, and the buffer and the mutex are as before.
LEMMA BufferStays ==
  ASSUME OwnersInv, OwnersInv', MediaKept, BufferInv, program = "videoplayer",
         UNCHANGED <<program, inputs, g_xbuffer, g_mtx, picture>>, drawAt' = "put" => drawAt = "put",
         \A j \in Inputs : inAt'[j] = "copy" => inAt[j] = "copy" /\ hFrame'[j] = hFrame[j]
  PROVE  BufferInv'
<1>1. Inputs' = Inputs /\ Buffers' = Buffers /\ Alike' = Alike
  BY DEF Inputs, Buffers, Carried, Numbers, Alike
<1>2. ASSUME NEW j \in Inputs, inAt'[j] = "copy" PROVE g_mtx = "callback" /\ (Alike \/ g_xbuffer[1] = Picture(j)')
  <2>1. inAt[j] = "copy" /\ hFrame'[j] = hFrame[j]
    BY <1>2
  <2>2. Picture(j)' = Picture(j)
    BY <2>1, PictureStays DEF HasFrame, Holding
  <2> QED
    BY <2>1, <2>2 DEF BufferInv
<1> QED
  BY <1>1, <1>2 DEF BufferInv

\* The window draws.
LEMMA DrawKeepsBuffer ==
  ASSUME OwnersInv, OwnersInv', MediaKept, program = "videoplayer", BufferInv, Draw
  PROVE  BufferInv' /\ faults' = faults
<1>1. NextEvent \/ Expose
  BY DEF Draw, Window, WinShows
<1>2. UNCHANGED <<program, inputs, hFrame, media, inAt, g_xbuffer>>
  BY <1>1 DEF Draw, Survives, NextEvent, Expose, frameVars
<1>3. CASE NextEvent
  <2>1. UNCHANGED <<g_mtx, picture, faults>> /\ drawAt' # "put"
    BY <1>3 DEF NextEvent
  <2> QED
    BY <1>2, <2>1, BufferStays
<1>4. Inputs' = Inputs /\ Buffers' = Buffers /\ Alike' = Alike
  BY <1>2 DEF Inputs, Buffers, Carried, Numbers, Alike
<1>5. CASE Expose /\ DrawsFirst
  <2>1. /\ g_mtx = "nobody" /\ g_mtx' = "main" /\ faults' = faults
        /\ drawAt' = "put" => g_xbuffer # NoBuffer /\ picture' = g_xbuffer[1]
    BY <1>5 DEF DrawsFirst, Half
  <2>2. \A j \in Inputs : inAt[j] # "copy"
    BY <2>1 DEF BufferInv
  <2> QED
    BY <1>2, <1>4, <2>1, <2>2 DEF BufferInv
<1>6. CASE Expose /\ DrawsSecond /\ g_mtx' = "nobody"
  <2>1. drawAt = "put" /\ drawAt' # "put" /\ faults' = faults \cup (IF Mixed THEN {"torn"} ELSE {})
    BY <1>6 DEF DrawsSecond
  <2>2. g_mtx = "main" /\ Alike /\ \A j \in Inputs : inAt[j] # "copy"
    BY <2>1 DEF BufferInv
  <2>3. ~Mixed
    BY <2>1, <2>2 DEF BufferInv, Mixed, Half, Alike
  <2> QED
    BY <1>2, <1>4, <1>6, <2>1, <2>2, <2>3 DEF BufferInv
<1> QED
  BY <1>1, <1>3, <1>5, <1>6 DEF Expose, Draws

\* A callback makes the buffer again, or copies its frame.
LEMMA CallbackKeepsBuffer ==
  ASSUME OwnersInv, OwnersInv', MediaKept, MediaTypes, program = "videoplayer", BufferInv,
         NEW i \in Inputs, CallsBack(i)
  PROVE  BufferInv' /\ faults' = faults
<1>1. VideoPlayer(i) /\ UNCHANGED <<program, inputs>>
  BY DEF CallsBack, Survives, Callback, Shows, WinPlayer, Adapter, Analyzer, MultInstances, Demuxer,
     Converter, Retarder, Synchronizer, Probe
<1>2. inAt \in [Inputs -> Places] /\ hFrame \in [Inputs -> Frames \cup {0}]
  BY DEF OwnersInv, ClientTypes
<1>3. faults' = faults
  BY <1>1 DEF VideoPlayer, PlayerTick, PlayerResizes, PlayerCopies, PlayerReleases
<1>4. Inputs' = Inputs /\ Buffers' = Buffers
  BY <1>1 DEF Inputs, Buffers, Carried, Numbers
<1>5. ASSUME UNCHANGED <<g_xbuffer, g_mtx, picture, drawAt>>, NEW from, NEW to, Goes(i, from, to), to # "copy",
             hFrame' = hFrame \/ hFrame' = [hFrame EXCEPT ![i] = 0]
      PROVE  BufferInv'
  <2>1. \A j \in Inputs : inAt'[j] = "copy" => inAt[j] = "copy" /\ hFrame'[j] = hFrame[j]
    BY <1>2, <1>5 DEF Goes
  <2> QED
    BY <1>1, <1>5, <2>1, BufferStays
<1>6. CASE PlayerTick(i)
  <2>1. PICK to : Goes(i, "tick", to) /\ to # "copy"
    BY <1>6 DEF PlayerTick, CopiesOf
  <2> QED
    BY <1>3, <1>5, <1>6, <2>1 DEF PlayerTick
<1>7. CASE PlayerReleases(i)
  BY <1>3, <1>5, <1>7 DEF PlayerReleases, Returns, playerVars
<1>8. CASE PlayerResizes(i)
  <2>1. UNCHANGED <<hFrame, g_mtx, drawAt>>
    BY <1>8 DEF PlayerResizes
  <2>2. CASE Goes(i, "free", "crash") /\ UNCHANGED <<g_xbuffer, picture>>
    BY <1>3, <1>5, <2>1, <2>2
  <2>3. ASSUME NEW from, NEW to, Goes(i, from, to), to # "copy", Alike', g_xbuffer' \in {NoBuffer} \cup Buffers,
               drawAt = "put" => picture' = Freed
        PROVE  BufferInv'
    <3>1. \A j \in Inputs : inAt'[j] = "copy" => inAt[j] = "copy"
      BY <1>2, <2>3 DEF Goes
    <3> QED
      BY <1>4, <2>1, <2>3, <3>1 DEF BufferInv
  <2>4. CASE Goes(i, "free", "alloc") /\ g_xbuffer' = NoBuffer
             /\ picture' = IF drawAt = "put" /\ g_xbuffer # NoBuffer THEN Freed ELSE picture
    <3>1. drawAt = "put" => picture' = Freed
      BY <2>4 DEF BufferInv
    <3> QED
      BY <1>3, <2>3, <2>4, <3>1 DEF Alike
  <2>5. CASE Goes(i, "alloc", CopiesOf(i)) /\ UNCHANGED picture
             /\ g_xbuffer' = IF g_xbuffer = NoBuffer THEN Junk ELSE g_xbuffer
    <3>1. CopiesOf(i) # "copy"
      BY DEF CopiesOf
    <3>2. CASE g_xbuffer = NoBuffer
      <4>1. drawAt = "put" => picture' = Freed
        BY <2>5, <3>2 DEF BufferInv
      <4>2. Alike' /\ g_xbuffer' \in Buffers
        BY <2>5, <3>2, BuffersAre DEF Alike
      <4> QED
        BY <1>3, <2>3, <2>5, <3>1, <4>1, <4>2
    <3>3. CASE g_xbuffer # NoBuffer
      BY <1>3, <1>5, <2>1, <2>5, <3>1, <3>3
    <3> QED
      BY <3>2, <3>3
  <2> QED
    BY <1>8, <2>2, <2>4, <2>5 DEF PlayerResizes
<1>9. CASE PlayerCopies(i)
  <2>1. UNCHANGED <<hFrame, drawAt, picture>>
    BY <1>9 DEF PlayerCopies
  <2>2. HasFrame(i) => Picture(i) \in Carried
    BY <1>2 DEF OwnersInv, PlacesInv, MediaTypes, Picture
  <2>3. CASE /\ Goes(i, "lock", "copy") /\ MayCopy /\ g_mtx' = "callback" /\ g_xbuffer # NoBuffer
             /\ g_xbuffer' = [g_xbuffer EXCEPT ![1] = Picture(i)]
    <3>1. g_mtx = "nobody" /\ drawAt # "put" /\ \A j \in Inputs : inAt[j] # "copy"
      BY <2>3 DEF BufferInv, MayCopy
    <3>2. \A j \in Inputs : inAt'[j] = "copy" => j = i
      BY <1>2, <2>3, <3>1 DEF Goes
    <3>3. HasFrame(i)
      BY <2>3 DEF Goes, HasFrame, Holding
    <3>4. g_xbuffer \in Buffers
      BY <2>3 DEF BufferInv
    <3>5. g_xbuffer' \in Buffers /\ g_xbuffer'[1] = Picture(i)
      BY <2>2, <2>3, <3>3, <3>4, BuffersAre
    <3>6. Picture(i)' = Picture(i)
      BY <1>1, <2>1, <3>3, PictureStays
    <3> QED
      BY <1>3, <1>4, <2>1, <2>3, <3>1, <3>2, <3>5, <3>6 DEF BufferInv
  <2>4. CASE Goes(i, "lock", "shown") /\ UNCHANGED <<g_mtx, g_xbuffer>>
    BY <1>3, <1>5, <2>1, <2>4
  <2>5. CASE (Goes(i, "lock", "crash") \/ Goes(i, "copy", "crash")) /\ UNCHANGED <<g_mtx, g_xbuffer>>
    BY <1>3, <1>5, <2>1, <2>5
  <2>6. CASE /\ Goes(i, "copy", "shown") /\ g_mtx' = "nobody"
             /\ LET there == g_xbuffer # NoBuffer /\ g_xbuffer[1] = Picture(i) IN
                g_xbuffer' = IF there THEN [g_xbuffer EXCEPT ![2] = Picture(i)] ELSE g_xbuffer
    <3>1. inAt[i] = "copy" /\ drawAt # "put" /\ \A j \in Inputs : inAt'[j] # "copy"
      BY <1>2, <2>6 DEF Goes, BufferInv
    <3>2. HasFrame(i)
      BY <3>1 DEF HasFrame, Holding
    <3>3. Alike \/ g_xbuffer[1] = Picture(i)
      BY <3>1 DEF BufferInv
    <3>4. CASE g_xbuffer # NoBuffer /\ g_xbuffer[1] = Picture(i)
      <4>1. g_xbuffer \in Buffers /\ g_xbuffer' = [g_xbuffer EXCEPT ![2] = Picture(i)]
        BY <2>6, <3>4 DEF BufferInv
      <4>2. g_xbuffer' \in Buffers /\ g_xbuffer'[1] = g_xbuffer'[2]
        BY <2>2, <3>2, <3>4, <4>1, BuffersAre
      <4> QED
        BY <1>3, <1>4, <2>1, <3>1, <4>2 DEF BufferInv, Alike
    <3>5. CASE ~(g_xbuffer # NoBuffer /\ g_xbuffer[1] = Picture(i))
      <4>1. g_xbuffer' = g_xbuffer /\ Alike
        BY <2>6, <3>3, <3>5 DEF Alike
      <4> QED
        BY <1>3, <1>4, <2>1, <3>1, <4>1 DEF BufferInv, Alike
    <3> QED
      BY <3>4, <3>5
  <2> QED
    BY <1>9, <2>3, <2>4, <2>5, <2>6 DEF PlayerCopies
<1> QED
  BY <1>1, <1>6, <1>7, <1>8, <1>9 DEF VideoPlayer

LEMMA VideoStep ==
  ASSUME OwnersInv, OwnersInv', MediaTypes, program = "videoplayer", ShownInv, [Next]_vars
  PROVE  ShownInv'
<1>1. BufferInv /\ "torn" \notin faults
  BY DEF ShownInv
<1>2. program' = program /\ MediaKept
  BY ProgramStays, MediaStep
<1>3. inAt \in [Inputs -> Places] /\ hFrame \in [Inputs -> Frames \cup {0}]
  BY DEF OwnersInv, ClientTypes
<1>4. CASE MainLeaves
  <2>1. UNCHANGED <<inputs, hFrame, faults, g_mtx, g_xbuffer, picture>> /\ (drawAt' = "put" => drawAt = "put")
    BY <1>4 DEF MainLeaves, Joins, frameVars, playerVars
  <2>2. \A j \in Inputs : inAt'[j] = "copy" => inAt[j] = "copy"
    BY <1>3, <1>4 DEF MainLeaves, Joins, frameVars, Goes
  <2> QED
    BY <1>1, <1>2, <2>1, <2>2, BufferStays DEF ShownInv
<1>5. CASE Draw
  BY <1>1, <1>2, <1>5, DrawKeepsBuffer DEF ShownInv
<1>6. ASSUME NEW i \in Inputs, Reads(i) PROVE ShownInv'
  <2>1. /\ inAt' = [inAt EXCEPT ![i] = "tick"] /\ hFrame' = [hFrame EXCEPT ![i] = FirstFree]
        /\ UNCHANGED <<inputs, faults, drawAt, g_mtx, g_xbuffer, picture>>
    BY <1>6 DEF Reads, Tick, playerVars
  <2>2. \A j \in Inputs : inAt'[j] = "copy" => inAt[j] = "copy" /\ hFrame'[j] = hFrame[j]
    BY <1>3, <2>1
  <2> QED
    BY <1>1, <1>2, <2>1, <2>2, BufferStays DEF ShownInv
<1>7. ASSUME NEW i \in Inputs, CallsBack(i) PROVE ShownInv'
  BY <1>1, <1>2, <1>7, CallbackKeepsBuffer DEF ShownInv
<1>8. ASSUME NEW o \in Outputs, Send(o) PROVE ShownInv'
  <2>1. UNCHANGED <<inputs, inAt, hFrame, drawAt, g_mtx, g_xbuffer, picture>> /\ "torn" \notin faults'
    BY <1>1, <1>8 DEF Send, OutSends, playerVars
  <2> QED
    BY <1>1, <1>2, <2>1, BufferStays DEF ShownInv
<1>9. ~WinSignal
  BY DEF WinSignal
<1> QED
  BY <1>4, <1>5, <1>6, <1>7, <1>8, <1>9, MainShows DEF Next

\* Only the X11 player has a buffer.
LEMMA OthersShow ==
  ASSUME program # "videoplayer", ShownInv, [Next]_vars
  PROVE  ShownInv'
<1>1. program' = program
  BY ProgramStays
<1>2. MainLeaves \/ WinSignal => faults' = faults
  BY DEF MainLeaves, Joins, WinSignal
<1>3. Draw => faults' = faults
  BY DEF Draw, Window, WinShows
<1>4. ASSUME NEW i, Reads(i) PROVE faults' = faults
  BY <1>4 DEF Reads, Tick
<1>5. ASSUME NEW i, CallsBack(i) PROVE faults' \subseteq faults \cup {"crash"}
  <2>1. Shows(i) => faults' = faults
    BY DEF Shows, VideoPlayer, WinPlayer, WinTick, WinInit, WinQueue, WinReleases
  <2>2. ASSUME NEW outputs, Forwards(i, outputs) PROVE faults' = faults
    BY <2>2 DEF Forwards, keepsFrames
  <2>3. Converter(i) => faults' \subseteq faults \cup {"crash"}
    BY <2>2 DEF Converter, ConverterTick, ConverterCreate, ConverterSend, ConverterRelease, keepsMedia, keepsFrames
  <2>4. Retarder(i) \/ Synchronizer(i) \/ Probe(i) => faults' = faults
    BY DEF Retarder, RetarderPush, RetarderPop, RetarderSend, Synchronizer, SyncTick, SyncFirst, SyncSecond, SyncRoute,
       Probe, ProbeTakes, ProbeReleases, keepsMedia, keepsFrames
  <2> QED
    BY <1>5, <2>1, <2>2, <2>3, <2>4 DEF CallsBack, Callback, Adapter, Analyzer, MultInstances, Demuxer
<1>6. ASSUME NEW o, Send(o) PROVE faults' \subseteq faults \cup {"order", "mixed"}
  BY <1>6 DEF Send, OutSends
<1>7. "torn" \notin faults'
  BY <1>2, <1>3, <1>4, <1>5, <1>6, MainShows DEF Next, ShownInv
<1> QED
  BY <1>1, <1>7 DEF ShownInv

LEMMA ShownInit == Init => MediaTypes /\ ShownInv
<1> SUFFICES ASSUME Init PROVE MediaTypes /\ ShownInv
  OBVIOUS
<1>1. /\ inAt = [i \in Inputs |-> "read"] /\ faults = {}
      /\ media = [k \in Frames |-> None] /\ number = [i \in Inputs |-> 0]
      /\ drawAt = "tested" /\ g_xbuffer = NoBuffer
  BY DEF Init, FramesInit, PlayersInit
<1>2. MediaTypes
  <2>1. None \in Carried /\ 0 \in Numbers
    BY DEF None, Carried, Numbers, AllKinds
  <2> QED
    BY <1>1, <2>1 DEF MediaTypes
<1>3. BufferInv
  BY <1>1 DEF BufferInv, Alike
<1> QED
  BY <1>1, <1>2, <1>3 DEF ShownInv

\* The X11 player never draws an image half from one frame and half from another, for
\* any number of inputs that share its buffer and any formats that follow each other:
\* g_mtx keeps copies and images apart, and a buffer that is made again without it has
\* nothing in it.
THEOREM ImagesAreOfOneFrame == Spec => []ImagesAreNotMixed
<1>1. Init => MediaTypes /\ ShownInv
  BY ShownInit
<1>2. ClientInv /\ ClientInv' /\ MediaTypes /\ ShownInv /\ [Next]_vars => MediaTypes' /\ ShownInv'
  BY MediaStep, VideoStep, OthersShow DEF ClientInv
<1>3. ShownInv => ImagesAreNotMixed
  BY DEF ShownInv, ImagesAreNotMixed
<1>4. Spec => Init /\ [][Next]_vars
  BY PTL DEF Spec
<1> QED
  BY <1>1, <1>2, <1>3, <1>4, ClientAlways, PTL


(***************************************************************************)
(* The order of the video frames of an input.  Its numbers alternate along *)
(* the way from the output back to the thread of the input: the queue, a   *)
(* frame taken from the delay line, the delay line, the frame at hand.     *)
(***************************************************************************)
Mark(m, k, i) == IF m[k].in = i /\ IsVideo(m[k].kind) THEN m[k].n ELSE 2
Fits(mark, from, to) == IF mark = 2 THEN to = from ELSE mark = from /\ to = 1 - from

Chain(m, q, i, a, b) ==
  \E f \in [0 .. Len(q) -> Numbers] :
    /\ f[0] = a /\ f[Len(q)] = b
    /\ \A n \in 1 .. Len(q) : Fits(Mark(m, q[n], i), f[n - 1], f[n])

LEMMA ChainAppend ==
  ASSUME NEW S, NEW q \in Seq(S), NEW k \in S, NEW m, NEW i, NEW a, NEW b \in Numbers, NEW c \in Numbers,
         Chain(m, q, i, a, b), Fits(Mark(m, k, i), b, c)
  PROVE  Chain(m, Append(q, k), i, a, c)
<1>1. PICK f \in [0 .. Len(q) -> Numbers] :
        /\ f[0] = a /\ f[Len(q)] = b
        /\ \A n \in 1 .. Len(q) : Fits(Mark(m, q[n], i), f[n - 1], f[n])
  BY DEF Chain
<1> DEFINE t == Append(q, k)
           N == Len(q)
           g == [n \in 0 .. N + 1 |-> IF n = N + 1 THEN c ELSE f[n]]
<1>2. N \in Nat /\ Len(t) = N + 1 /\ t[N + 1] = k /\ \A n \in 1 .. N : t[n] = q[n]
  OBVIOUS
<1>3. f \in [0 .. N -> Numbers] /\ f[0] = a /\ f[N] = b /\ \A n \in 1 .. N : Fits(Mark(m, q[n], i), f[n - 1], f[n])
  BY <1>1
<1> HIDE DEF t, N
<1>4. /\ g \in [0 .. N + 1 -> Numbers] /\ g[0] = a /\ g[N + 1] = c /\ g[N] = b
      /\ \A n \in 1 .. N : g[n] = f[n] /\ g[n - 1] = f[n - 1]
  BY <1>2, <1>3
<1> HIDE DEF g
<1>5. ASSUME NEW n \in 1 .. N + 1 PROVE Fits(Mark(m, t[n], i), g[n - 1], g[n])
  <2>1. CASE n \in 1 .. N
    BY <1>2, <1>3, <1>4, <2>1
  <2>2. CASE n = N + 1
    <3>1. g[n - 1] = b /\ g[n] = c /\ t[n] = k
      BY <1>2, <1>4, <2>2
    <3> QED
      BY <3>1
  <2> QED
    BY <1>2, <2>1, <2>2
<1>6. g \in [0 .. Len(t) -> Numbers] /\ g[0] = a /\ g[Len(t)] = c /\ \A n \in 1 .. Len(t) : Fits(Mark(m, t[n], i), g[n - 1], g[n])
  BY <1>2, <1>4, <1>5
<1>7. Chain(m, t, i, a, c)
  BY <1>6 DEF Chain
<1> QED
  BY <1>7 DEF t

LEMMA ChainTail ==
  ASSUME NEW S, NEW q \in Seq(S), q # << >>, NEW m, NEW i, NEW a, NEW b, Chain(m, q, i, a, b)
  PROVE  \E c \in Numbers : Fits(Mark(m, Head(q), i), a, c) /\ Chain(m, Tail(q), i, c, b)
<1>1. PICK f \in [0 .. Len(q) -> Numbers] :
        /\ f[0] = a /\ f[Len(q)] = b
        /\ \A n \in 1 .. Len(q) : Fits(Mark(m, q[n], i), f[n - 1], f[n])
  BY DEF Chain
<1> DEFINE t == Tail(q)
           N == Len(q)
           g == [n \in 0 .. N - 1 |-> f[n + 1]]
<1>2. N \in Nat /\ N >= 1 /\ Len(t) = N - 1 /\ Head(q) = q[1] /\ \A n \in 1 .. N - 1 : t[n] = q[n + 1]
  OBVIOUS
<1>3. f \in [0 .. N -> Numbers] /\ f[0] = a /\ f[N] = b /\ \A n \in 1 .. N : Fits(Mark(m, q[n], i), f[n - 1], f[n])
  BY <1>1
<1> HIDE DEF t, N
<1>4. /\ g \in [0 .. N - 1 -> Numbers] /\ g[0] = f[1] /\ g[N - 1] = b
      /\ \A n \in 1 .. N - 1 : g[n] = f[n + 1] /\ g[n - 1] = f[n]
  BY <1>2, <1>3
<1> HIDE DEF g
<1>5. ASSUME NEW n \in 1 .. N - 1 PROVE Fits(Mark(m, t[n], i), g[n - 1], g[n])
  <2>1. n + 1 \in 1 .. N /\ (n + 1) - 1 = n
    BY <1>2
  <2>2. Fits(Mark(m, q[n + 1], i), f[n], f[n + 1])
    BY <1>3, <2>1
  <2> QED
    BY <1>2, <1>4, <2>2
<1>6. 1 \in 1 .. N /\ f[1] \in Numbers /\ Fits(Mark(m, q[1], i), a, f[1])
  <2>1. 1 \in 1 .. N /\ 1 \in 0 .. N /\ 1 - 1 = 0
    BY <1>2
  <2> QED
    BY <1>3, <2>1
<1>7. g \in [0 .. Len(t) -> Numbers] /\ g[0] = f[1] /\ g[Len(t)] = b /\ \A n \in 1 .. Len(t) : Fits(Mark(m, t[n], i), g[n - 1], g[n])
  BY <1>2, <1>4, <1>5
<1>8. Chain(m, t, i, f[1], b)
  BY <1>7 DEF Chain
<1> QED
  BY <1>2, <1>6, <1>8 DEF t

\* The marks decide.
LEMMA ChainSame ==
  ASSUME NEW S, NEW q \in Seq(S), NEW m, NEW m2, NEW i, NEW a, NEW b, Chain(m, q, i, a, b),
         \A n \in DOMAIN q : Mark(m2, q[n], i) = Mark(m, q[n], i)
  PROVE  Chain(m2, q, i, a, b)
<1>1. DOMAIN q = 1 .. Len(q)
  OBVIOUS
<1> QED
  BY <1>1 DEF Chain

LEMMA ChainNone ==
  ASSUME NEW S, NEW q \in Seq(S), NEW m, NEW i, NEW a \in Numbers, \A n \in DOMAIN q : Mark(m, q[n], i) = 2
  PROVE  Chain(m, q, i, a, a)
<1> DEFINE f == [n \in 0 .. Len(q) |-> a]
           N == Len(q)
<1>1. DOMAIN q = 1 .. N /\ N \in Nat
  OBVIOUS
<1>2. f \in [0 .. N -> Numbers] /\ f[0] = a /\ f[N] = a /\ \A n \in 1 .. N : f[n - 1] = a /\ f[n] = a
  <2> HIDE DEF N
  <2>1. f = [n \in 0 .. N |-> a]
    BY DEF N
  <2> HIDE DEF f
  <2> QED
    BY <1>1, <2>1
<1> HIDE DEF f
<1>3. \A n \in 1 .. N : Fits(Mark(m, q[n], i), f[n - 1], f[n])
  BY <1>1, <1>2 DEF Fits
<1> QED
  BY <1>2, <1>3 DEF Chain

(***************************************************************************)
(* Which inputs the watched output gets video of, and what is on the way.  *)
(***************************************************************************)
Fed(i) ==
  /\ program \notin {"probe", "videoplayer", "winvideoplayer"}
  /\ program = "multinstances" => watched = i
  /\ program = "demuxer" => watched = 1

\* Where a callback has not sent or kept its frame yet.
Pending == {"tick", "route", "create", "new", "crash"}
HandMark(i) == IF inAt[i] \in Pending THEN Mark(media, hFrame[i], i) ELSE 2

\* As long as no two callbacks of the retarder overlapped, one at most has a frame of the
\* delay line.  It may be a frame of another input.
Senders == {j \in Inputs : inAt[j] = "send"}
Sender == CHOOSE j \in Senders : TRUE
OneSends == \A j, k \in Senders : j = k
MadeMark(i) == IF Senders = {} THEN 2 ELSE Mark(media, newH[Sender], i)

\* The number the output may send next.
Start(i, a) == IF last[i] = -1 THEN a = 0 \/ program = "synchronizer" ELSE a = 1 - last[i]

Line(i, a, x, y, z) ==
  /\ Start(i, a) /\ Chain(media, queues[watched], i, a, x)
  /\ Fits(MadeMark(i), x, y) /\ Chain(media, g_q, i, y, z) /\ Fits(HandMark(i), z, number[i])
OrderOf(i) == \E a, x, y, z \in Numbers : Line(i, a, x, y, z)

\* A frame the watched output may get.
Known(k) == media[k].in \in Inputs /\ (IsVideo(media[k].kind) => Fed(media[k].in))
Owned(k) == k \in Frames /\ refs[k] # 0

Sorted ==
  /\ OneSends
  /\ program # "retarder" => g_q = << >> /\ \A i \in Inputs : inAt[i] # "send"
  /\ \A i \in Inputs : hFrame[i] # 0 => media[hFrame[i]].in = i
  /\ \A i \in Inputs : newH[i] # 0 => Known(newH[i])
  /\ \A i \in Inputs : inAt[i] = "create" => IsVideo(media[hFrame[i]].kind)
  /\ \A i \in Inputs : inAt[i] = "new" =>
       media[newH[i]].in = i /\ Mark(media, newH[i], i) = Mark(media, hFrame[i], i)
  /\ \A n \in DOMAIN queues[watched] : Known(queues[watched][n])
  /\ \A n \in DOMAIN g_q : Known(g_q[n])

OrderInv ==
  /\ Sorted /\ (\A i \in Inputs : Fed(i) => OrderOf(i))
  /\ last = [i \in Inputs |-> last[i]] /\ "order" \notin faults

\* The frames of everybody are owned, before and after a step.
OwnedNext(k) == k \in Frames /\ refs'[k] # 0
KnownNext(k) == media'[k].in \in Inputs /\ (IsVideo(media'[k].kind) => Fed(media'[k].in))

\* A step by the thread of an input, or by main.
Steady == /\ OwnersInv /\ OwnersInv' /\ MediaTypes /\ MediaKept /\ Sorted /\ watched \in Outputs \cap Wired
          /\ UNCHANGED <<program, inputs, watched>>

HeldCount ==
  OwnersInv /\ watched \in Outputs =>
    /\ \A i \in Inputs : (hFrame[i] # 0 => Owned(hFrame[i])) /\ (newH[i] # 0 => Owned(newH[i]))
    /\ queues[watched] \in Seq(Frames) /\ \A n \in DOMAIN queues[watched] : Owned(queues[watched][n])
    /\ g_q \in Seq(Frames) /\ \A n \in DOMAIN g_q : Owned(g_q[n])

LEMMA HeldNow == HeldCount /\ HeldCount'
<1>1. HeldCount
  <2> SUFFICES ASSUME OwnersInv, watched \in Outputs
               PROVE  /\ \A i \in Inputs : (hFrame[i] # 0 => Owned(hFrame[i])) /\ (newH[i] # 0 => Owned(newH[i]))
                      /\ queues[watched] \in Seq(Frames) /\ \A n \in DOMAIN queues[watched] : Owned(queues[watched][n])
                      /\ g_q \in Seq(Frames) /\ \A n \in DOMAIN g_q : Owned(g_q[n])
    BY DEF HeldCount
  <2>1. /\ hFrame \in [Inputs -> Frames \cup {0}] /\ newH \in [Inputs -> Frames \cup {0}] /\ refs \in [Frames -> Int]
        /\ queues[watched] \in Seq(Frames) /\ g_q \in Seq(Frames)
    BY DEF OwnersInv, ClientTypes
  <2>2. /\ \A i \in Inputs : hFrame[i] \in Frames => refs[hFrame[i]] > 0
        /\ \A i \in Inputs : newH[i] \in Frames => refs[newH[i]] > 0
        /\ \A n \in DOMAIN queues[watched] : queues[watched][n] \in Frames /\ refs[queues[watched][n]] > 0
        /\ \A n \in DOMAIN g_q : g_q[n] \in Frames /\ refs[g_q[n]] > 0
    BY OwnedNow DEF OwnedCount
  <2>3. \A k \in Frames : refs[k] > 0 => refs[k] # 0
    BY <2>1
  <2> QED
    BY <2>1, <2>2, <2>3 DEF Owned
<1> QED
  BY <1>1, PTL

LEMMA HeldByAll ==
  ASSUME Steady
  PROVE  /\ \A i \in Inputs : (hFrame[i] # 0 => Owned(hFrame[i])) /\ (newH[i] # 0 => Owned(newH[i]))
         /\ queues[watched] \in Seq(Frames) /\ \A n \in DOMAIN queues[watched] : Owned(queues[watched][n])
         /\ g_q \in Seq(Frames) /\ \A n \in DOMAIN g_q : Owned(g_q[n])
         /\ \A i \in Inputs : (hFrame'[i] # 0 => OwnedNext(hFrame'[i])) /\ (newH'[i] # 0 => OwnedNext(newH'[i]))
         /\ queues'[watched] \in Seq(Frames) /\ \A n \in DOMAIN queues'[watched] : OwnedNext(queues'[watched][n])
         /\ g_q' \in Seq(Frames) /\ \A n \in DOMAIN g_q' : OwnedNext(g_q'[n])
         /\ Inputs' = Inputs /\ Frames' = Frames
<1>1. Inputs' = Inputs /\ Frames' = Frames
  BY DEF Steady, Inputs, Frames, Limit
<1>2. OwnersInv /\ OwnersInv' /\ watched \in Outputs /\ watched' \in Outputs' /\ watched' = watched
  BY DEF Steady, Outputs
<1>3. /\ \A i \in Inputs : (hFrame[i] # 0 => Owned(hFrame[i])) /\ (newH[i] # 0 => Owned(newH[i]))
      /\ queues[watched] \in Seq(Frames) /\ \A n \in DOMAIN queues[watched] : Owned(queues[watched][n])
      /\ g_q \in Seq(Frames) /\ \A n \in DOMAIN g_q : Owned(g_q[n])
  BY <1>2, HeldNow DEF HeldCount
<1>4. /\ \A i \in Inputs : (hFrame'[i] # 0 => OwnedNext(hFrame'[i])) /\ (newH'[i] # 0 => OwnedNext(newH'[i]))
      /\ queues'[watched] \in Seq(Frames) /\ \A n \in DOMAIN queues'[watched] : OwnedNext(queues'[watched][n])
      /\ g_q' \in Seq(Frames) /\ \A n \in DOMAIN g_q' : OwnedNext(g_q'[n])
  <2>1. HeldCount'
    BY HeldNow
  <2> QED
    BY <1>1, <1>2, <2>1 DEF HeldCount, Owned, OwnedNext
<1> QED
  BY <1>1, <1>3, <1>4

\* What a step keeps of a frame that stays owned.
LEMMA MarksKept ==
  ASSUME Steady, NEW k, Owned(k), OwnedNext(k)
  PROVE  /\ media'[k].in = media[k].in /\ (Known(k) => KnownNext(k))
         /\ IsVideo(media'[k].kind) = IsVideo(media[k].kind)
         /\ \A j : Mark(media', k, j) = Mark(media, k, j)
<1>1. k \in Frames /\ media[k] \in Carried /\ Same(k)
  BY DEF Owned, OwnedNext, MediaTypes, MediaKept, Steady
<1>2. /\ media'[k].in = media[k].in /\ media'[k].n = media[k].n
      /\ IsVideo(media'[k].kind) = IsVideo(media[k].kind)
  <2>1. CASE media'[k] = media[k]
    BY <2>1
  <2>2. CASE IsVideo(media[k].kind) /\ media'[k] = [media[k] EXCEPT !.kind = "video8"]
    <3>1. media'[k].in = media[k].in /\ media'[k].n = media[k].n /\ media'[k].kind = "video8"
      BY <1>1, <2>2 DEF Carried
    <3> QED
      BY <2>2, <3>1 DEF IsVideo
  <2> QED
    BY <1>1, <2>1, <2>2 DEF Same
<1>3. Known(k) => KnownNext(k)
  BY <1>2 DEF Known, KnownNext
<1> QED
  BY <1>2, <1>3 DEF Mark

\* The queue of the watched output gets a frame or none.
Grows == queues'[watched] = queues[watched] \/ \E k \in Frames : queues'[watched] = Append(queues[watched], k)

LEMMA ChainsKept ==
  ASSUME Steady, NEW j, NEW a, NEW b
  PROVE  /\ Grows /\ Chain(media, queues[watched], j, a, b) => Chain(media', queues[watched], j, a, b)
         /\ g_q' = g_q /\ Chain(media, g_q, j, a, b) => Chain(media', g_q, j, a, b)
<1>1. /\ queues[watched] \in Seq(Frames) /\ \A n \in DOMAIN queues[watched] : Owned(queues[watched][n])
      /\ queues'[watched] \in Seq(Frames) /\ \A n \in DOMAIN queues'[watched] : OwnedNext(queues'[watched][n])
      /\ g_q \in Seq(Frames) /\ \A n \in DOMAIN g_q : Owned(g_q[n])
      /\ g_q' \in Seq(Frames) /\ \A n \in DOMAIN g_q' : OwnedNext(g_q'[n])
  BY HeldByAll
<1>2. ASSUME Grows, NEW n \in DOMAIN queues[watched]
      PROVE  Mark(media', queues[watched][n], j) = Mark(media, queues[watched][n], j)
  <2>1. n \in DOMAIN queues'[watched] /\ queues'[watched][n] = queues[watched][n]
    <3>1. CASE queues'[watched] = queues[watched]
      BY <3>1
    <3>2. ASSUME NEW k \in Frames, queues'[watched] = Append(queues[watched], k)
          PROVE  n \in DOMAIN queues'[watched] /\ queues'[watched][n] = queues[watched][n]
      BY <1>1, <3>2
    <3> QED
      BY <1>2, <3>1, <3>2 DEF Grows
  <2>2. Owned(queues[watched][n]) /\ OwnedNext(queues[watched][n])
    BY <1>1, <2>1
  <2> QED
    BY <2>2, MarksKept
<1>3. ASSUME g_q' = g_q, NEW n \in DOMAIN g_q
      PROVE  Mark(media', g_q[n], j) = Mark(media, g_q[n], j)
  <2>1. Owned(g_q[n]) /\ OwnedNext(g_q[n])
    BY <1>1, <1>3
  <2> QED
    BY <2>1, MarksKept
<1>4. Grows /\ Chain(media, queues[watched], j, a, b) => Chain(media', queues[watched], j, a, b)
  BY <1>1, <1>2, ChainSame
<1>5. g_q' = g_q /\ Chain(media, g_q, j, a, b) => Chain(media', g_q, j, a, b)
  BY <1>1, <1>3, ChainSame
<1> QED
  BY <1>4, <1>5

\* What keeps the frames of the inputs sorted.
LEMMA SortedKeeps ==
  ASSUME Steady,
         \A j \in Inputs : hFrame'[j] # 0 => hFrame'[j] = hFrame[j] \/ media'[hFrame'[j]].in = j,
         \A j \in Inputs : newH'[j] # 0 =>
           newH'[j] = newH[j] \/ (Owned(newH'[j]) /\ Known(newH'[j])) \/ KnownNext(newH'[j]),
         \A j \in Inputs : inAt'[j] = "create" =>
           (inAt[j] = "create" /\ hFrame'[j] = hFrame[j]) \/ IsVideo(media'[hFrame'[j]].kind),
         \A j \in Inputs : inAt'[j] = "new" =>
           \/ inAt[j] = "new" /\ newH'[j] = newH[j] /\ hFrame'[j] = hFrame[j]
           \/ media'[newH'[j]].in = j /\ Mark(media', newH'[j], j) = Mark(media', hFrame'[j], j),
         program # "retarder" => g_q' = g_q /\ \A j \in Inputs : inAt'[j] = "send" => inAt[j] = "send",
         OneSends',
         \A n \in DOMAIN queues'[watched] : Owned(queues'[watched][n]) /\ Known(queues'[watched][n]),
         \A n \in DOMAIN g_q' : Owned(g_q'[n]) /\ Known(g_q'[n])
  PROVE  Sorted'
<1>1. Inputs' = Inputs /\ watched' = watched /\ program' = program /\ inputs' = inputs
  BY HeldByAll DEF Steady
<1>2. /\ \A j \in Inputs : (hFrame[j] # 0 => Owned(hFrame[j])) /\ (newH[j] # 0 => Owned(newH[j]))
      /\ \A j \in Inputs : (hFrame'[j] # 0 => OwnedNext(hFrame'[j])) /\ (newH'[j] # 0 => OwnedNext(newH'[j]))
      /\ \A n \in DOMAIN queues'[watched] : OwnedNext(queues'[watched][n])
      /\ \A n \in DOMAIN g_q' : OwnedNext(g_q'[n])
  BY HeldByAll
<1>3. /\ program # "retarder" => g_q = << >> /\ \A j \in Inputs : inAt[j] # "send"
      /\ \A j \in Inputs : hFrame[j] # 0 => media[hFrame[j]].in = j
      /\ \A j \in Inputs : newH[j] # 0 => Known(newH[j])
      /\ \A j \in Inputs : inAt[j] = "create" => IsVideo(media[hFrame[j]].kind)
      /\ \A j \in Inputs : inAt[j] = "new" =>
           media[newH[j]].in = j /\ Mark(media, newH[j], j) = Mark(media, hFrame[j], j)
  BY DEF Steady, Sorted
<1>4. ASSUME NEW j \in Inputs, hFrame'[j] # 0 PROVE media'[hFrame'[j]].in = j
  BY <1>2, <1>3, <1>4, MarksKept
<1>5. ASSUME NEW j \in Inputs, newH'[j] # 0 PROVE KnownNext(newH'[j])
  BY <1>2, <1>3, <1>5, MarksKept
<1>6. ASSUME NEW j \in Inputs, inAt'[j] = "new"
      PROVE  media'[newH'[j]].in = j /\ Mark(media', newH'[j], j) = Mark(media', hFrame'[j], j)
  <2>1. CASE inAt[j] = "new" /\ newH'[j] = newH[j] /\ hFrame'[j] = hFrame[j]
    <3>1. hFrame[j] # 0 /\ newH[j] # 0
      BY <2>1 DEF Steady, OwnersInv, PlacesInv, HasFrame, Holding, Making
    <3>2. /\ media'[newH[j]].in = media[newH[j]].in
          /\ Mark(media', newH[j], j) = Mark(media, newH[j], j) /\ Mark(media', hFrame[j], j) = Mark(media, hFrame[j], j)
      BY <1>2, <2>1, <3>1, MarksKept
    <3> QED
      BY <1>3, <2>1, <3>2
  <2> QED
    BY <1>6, <2>1
<1>10. ASSUME NEW j \in Inputs, inAt'[j] = "create" PROVE IsVideo(media'[hFrame'[j]].kind)
  <2>1. CASE inAt[j] = "create" /\ hFrame'[j] = hFrame[j]
    <3>1. hFrame[j] # 0
      BY <2>1 DEF Steady, OwnersInv, PlacesInv, HasFrame, Holding
    <3>2. IsVideo(media'[hFrame[j]].kind) = IsVideo(media[hFrame[j]].kind)
      BY <1>2, <2>1, <3>1, MarksKept
    <3> QED
      BY <1>3, <2>1, <3>2
  <2> QED
    BY <1>10, <2>1
<1>7. \A n \in DOMAIN queues'[watched] : KnownNext(queues'[watched][n])
  BY <1>2, MarksKept
<1>8. \A n \in DOMAIN g_q' : KnownNext(g_q'[n])
  BY <1>2, MarksKept
<1>9. \A j : Fed(j)' = Fed(j)
  BY <1>1 DEF Fed
<1> QED
  BY <1>1, <1>3, <1>4, <1>5, <1>6, <1>7, <1>8, <1>9, <1>10 DEF Sorted, Known, KnownNext

\* The queue gets a frame it may have, or none; so does the delay line.
GrowsBy(q, r) == r = q \/ \E k \in Frames : Owned(k) /\ Known(k) /\ r = Append(q, k)

LEMMA GrowsKnown ==
  ASSUME NEW q \in Seq(Frames), NEW r, GrowsBy(q, r), \A n \in DOMAIN q : Owned(q[n]) /\ Known(q[n])
  PROVE  \A n \in DOMAIN r : Owned(r[n]) /\ Known(r[n])
<1>1. ASSUME NEW k \in Frames, Owned(k), Known(k), r = Append(q, k), NEW n \in DOMAIN r
      PROVE  Owned(r[n]) /\ Known(r[n])
  BY <1>1, AppendHas
<1> QED
  BY <1>1 DEF GrowsBy

\* A line of an input that the step does not move, or moves within the callback.
LEMMA LineStays ==
  ASSUME Steady, NEW i \in Inputs, OrderOf(i), UNCHANGED <<last, g_q>>, Grows,
         \A k \in Frames : queues'[watched] = Append(queues[watched], k) => Mark(media', k, i) = 2,
         MadeMark(i)' = MadeMark(i),
         \A z \in Numbers : Fits(HandMark(i), z, number[i]) => Fits(HandMark(i)', z, number'[i])
  PROVE  OrderOf(i)'
<1>1. PICK a, x, y, z \in Numbers : Line(i, a, x, y, z)
  BY DEF OrderOf
<1>2. Chain(media', queues[watched], i, a, x) /\ Chain(media', g_q, i, y, z)
  BY <1>1, ChainsKept DEF Line
<1>3. Chain(media', queues'[watched], i, a, x)
  <2>1. CASE queues'[watched] = queues[watched]
    BY <1>2, <2>1
  <2>2. ASSUME NEW k \in Frames, queues'[watched] = Append(queues[watched], k)
        PROVE  Chain(media', queues'[watched], i, a, x)
    <3>1. Mark(media', k, i) = 2
      BY <2>2
    <3>2. Fits(Mark(media', k, i), x, x) /\ queues[watched] \in Seq(Frames)
      BY <3>1, HeldByAll DEF Fits
    <3> QED
      BY <1>2, <2>2, <3>2, ChainAppend
  <2> QED
    BY <2>1, <2>2 DEF Grows
<1>4. Start(i, a) /\ Fits(MadeMark(i), x, y) /\ Fits(HandMark(i)', z, number'[i])
  BY <1>1 DEF Line
<1>5. Start(i, a)'
  BY <1>4 DEF Start, Steady
<1>6. watched' = watched /\ Numbers' = Numbers
  BY DEF Steady, Numbers
<1>7. Line(i, a, x, y, z)'
  BY <1>2, <1>3, <1>4, <1>5, <1>6 DEF Line
<1> QED
  BY <1>6, <1>7 DEF OrderOf

LEMMA ChainOfNone ==
  ASSUME NEW m, NEW i, NEW a, NEW b, Chain(m, << >>, i, a, b)
  PROVE  a = b
<1>1. Len(<< >>) = 0
  OBVIOUS
<1> QED
  BY <1>1 DEF Chain

\* A thread sends the frame it has at hand, where there is no delay line.
LEMMA LineSends ==
  ASSUME Steady, NEW i \in Inputs, OrderOf(i), UNCHANGED last, program # "retarder", g_q' = g_q,
         number'[i] \in Numbers, number'[i] = number[i],
         NEW k \in Frames, queues'[watched] = Append(queues[watched], k),
         Mark(media', k, i) = HandMark(i), HandMark(i)' = 2, Senders' = {}
  PROVE  OrderOf(i)'
<1>1. PICK a, x, y, z \in Numbers : Line(i, a, x, y, z)
  BY DEF OrderOf
<1>2. g_q = << >> /\ Senders = {} /\ watched' = watched /\ Numbers' = Numbers
  BY DEF Steady, Sorted, Numbers, Senders
<1>3. x = y /\ y = z
  <2>1. MadeMark(i) = 2
    BY <1>2 DEF MadeMark
  <2>2. Fits(2, x, y) /\ Chain(media, << >>, i, y, z)
    BY <1>1, <1>2, <2>1 DEF Line
  <2> QED
    BY <2>2, ChainOfNone DEF Fits
<1>4. Chain(media', queues[watched], i, a, x)
  BY <1>1, ChainsKept DEF Line, Grows
<1>. PICK c \in Numbers : number'[i] = c
  OBVIOUS
<1>5. Fits(Mark(media', k, i), x, c)
  BY <1>1, <1>3 DEF Line
<1>6. Chain(media', queues'[watched], i, a, c)
  <2>1. queues[watched] \in Seq(Frames)
    BY HeldByAll
  <2> QED
    BY <1>4, <1>5, <2>1, ChainAppend
<1>7. Chain(media', << >>, i, c, c)
  <2>1. << >> \in Seq(Frames) /\ DOMAIN << >> = {}
    OBVIOUS
  <2> QED
    BY <2>1, ChainNone
<1>8. Start(i, a)'
  BY <1>1 DEF Line, Start, Steady
<1>9. MadeMark(i)' = 2 /\ HandMark(i)' = 2
  BY DEF MadeMark
<1>10. Line(i, a, c, c, c)'
  <2>1. Fits(2, c, c)
    BY DEF Fits
  <2> QED
    BY <1>2, <1>6, <1>7, <1>8, <1>9, <2>1 DEF Line
<1> QED
  BY <1>2, <1>10 DEF OrderOf

\* The thread of an input, and no other, does something.
Alone(i) ==
  /\ \A j \in Inputs : j # i => inAt'[j] = inAt[j] /\ hFrame'[j] = hFrame[j] /\ newH'[j] = newH[j] /\ number'[j] = number[j]
  /\ UNCHANGED last

\* The frame taken from the delay line stays where it is.
LEMMA MadeStays ==
  ASSUME Steady, Senders' = Senders, \A j \in Senders : newH'[j] = newH[j], NEW i
  PROVE  MadeMark(i)' = MadeMark(i)
<1>1. CASE Senders = {}
  BY <1>1 DEF MadeMark
<1>2. CASE Senders # {}
  <2>1. Sender' = Sender
    BY DEF Sender
  <2>2. Sender \in Senders
    BY <1>2 DEF Sender
  <2> DEFINE s == Sender
  <2>3. s \in Inputs /\ inAt[s] = "send" /\ newH'[s] = newH[s]
    BY <2>2 DEF Senders
  <2> HIDE DEF s
  <2>4. newH[s] # 0
    BY <2>3 DEF Steady, OwnersInv, PlacesInv, Making
  <2>5. Mark(media', newH[s], i) = Mark(media, newH[s], i)
    BY <2>3, <2>4, HeldByAll, MarksKept
  <2>6. MadeMark(i) = Mark(media, newH[s], i)
    BY <1>2 DEF MadeMark, s
  <2>7. MadeMark(i)' = Mark(media', newH'[s], i)
    BY <1>2, <2>1 DEF MadeMark, s
  <2> QED
    BY <2>3, <2>5, <2>6, <2>7
<1> QED
  BY <1>1, <1>2

LEMMA AloneSends ==
  ASSUME Steady, NEW i \in Inputs, Alone(i), inAt[i] # "send", inAt'[i] # "send"
  PROVE  /\ Senders' = Senders /\ OneSends' /\ \A j \in Inputs : inAt'[j] = "send" => inAt[j] = "send"
         /\ \A j : MadeMark(j)' = MadeMark(j)
<1>1. Inputs' = Inputs /\ \A j \in Inputs : j # i => inAt'[j] = inAt[j] /\ newH'[j] = newH[j]
  BY HeldByAll DEF Alone
<1>2. \A j \in Inputs : inAt'[j] = "send" <=> inAt[j] = "send"
  BY <1>1
<1>3. Senders' = Senders
  BY <1>1, <1>2 DEF Senders
<1>4. \A j \in Senders : newH'[j] = newH[j]
  BY <1>1 DEF Senders
<1>5. OneSends'
  BY <1>3 DEF OneSends, Steady, Sorted
<1> QED
  BY <1>2, <1>3, <1>4, <1>5, MadeStays

LEMMA OthersHold ==
  ASSUME Steady, NEW i \in Inputs, NEW j \in Inputs, j # i, Alone(i)
  PROVE  HandMark(j)' = HandMark(j) /\ number'[j] = number[j]
<1>1. inAt'[j] = inAt[j] /\ hFrame'[j] = hFrame[j] /\ number'[j] = number[j]
  BY DEF Alone
<1>2. CASE inAt[j] \in Pending
  <2>1. hFrame[j] # 0
    BY <1>2 DEF Steady, OwnersInv, PlacesInv, HasFrame, Holding, Pending
  <2>2. Mark(media', hFrame[j], j) = Mark(media, hFrame[j], j)
    BY <1>1, <2>1, HeldByAll, MarksKept
  <2> QED
    BY <1>1, <2>2 DEF HandMark
<1>3. CASE inAt[j] \notin Pending
  BY <1>1, <1>3 DEF HandMark
<1> QED
  BY <1>1, <1>2, <1>3

\* The queue of the watched output grows by a frame of that input, or not.
GrowsFrom(i) ==
  \/ queues'[watched] = queues[watched]
  \/ \E k \in Frames : /\ Owned(k) /\ Known(k) /\ media[k].in = i
                       /\ queues'[watched] = Append(queues[watched], k)

LEMMA OthersStay ==
  ASSUME Steady, NEW i \in Inputs, NEW j \in Inputs, j # i, Alone(i), g_q' = g_q, GrowsFrom(i), OrderOf(j),
         "send" \notin {inAt[i], inAt'[i]}
  PROVE  OrderOf(j)'
<1>1. inAt'[j] = inAt[j] /\ hFrame'[j] = hFrame[j] /\ newH'[j] = newH[j] /\ number'[j] = number[j] /\ last' = last
  BY DEF Alone
<1>2. HandMark(j)' = HandMark(j)
  BY OthersHold
<1>3. MadeMark(j)' = MadeMark(j)
  BY AloneSends
<1>4. Grows
  BY DEF GrowsFrom, Grows
<1>5. ASSUME NEW k \in Frames, queues'[watched] = Append(queues[watched], k) PROVE Mark(media', k, j) = 2
  <2>1. queues[watched] \in Seq(Frames) /\ \A n \in DOMAIN queues'[watched] : OwnedNext(queues'[watched][n])
    BY HeldByAll
  <2>2. Append(queues[watched], k) # queues[watched]
    BY <2>1
  <2>3. PICK k2 \in Frames : Owned(k2) /\ media[k2].in = i /\ queues'[watched] = Append(queues[watched], k2)
    BY <1>5, <2>2 DEF GrowsFrom
  <2>4. k2 = k
    <3>1. Append(queues[watched], k2)[Len(queues[watched]) + 1] = k2 /\ Append(queues[watched], k)[Len(queues[watched]) + 1] = k
      BY <2>1
    <3> QED
      BY <1>5, <2>3, <3>1
  <2>5. OwnedNext(k)
    <3>1. Len(queues[watched]) + 1 \in DOMAIN Append(queues[watched], k) /\ Append(queues[watched], k)[Len(queues[watched]) + 1] = k
      BY <2>1
    <3> QED
      BY <1>5, <2>1, <3>1
  <2>6. media'[k].in = i
    BY <2>3, <2>4, <2>5, MarksKept
  <2> QED
    BY <2>6 DEF Mark
<1> QED
  BY <1>1, <1>2, <1>3, <1>4, <1>5, LineStays

\* A step of one thread that leaves the delay line alone.
LEMMA CallbackOrders ==
  ASSUME OrderInv, Steady, NEW i \in Inputs, Alone(i), g_q' = g_q, GrowsFrom(i), "order" \notin faults',
         hFrame'[i] # 0 => hFrame'[i] = hFrame[i] \/ media'[hFrame'[i]].in = i,
         inAt'[i] = "create" => IsVideo(media'[hFrame'[i]].kind),
         newH'[i] # 0 => newH'[i] = newH[i] \/ KnownNext(newH'[i]),
         inAt'[i] = "new" =>
           media'[newH'[i]].in = i /\ Mark(media', newH'[i], i) = Mark(media', hFrame'[i], i),
         "send" \notin {inAt[i], inAt'[i]},
         Fed(i) => OrderOf(i)'
  PROVE  OrderInv'
<1>1. Inputs' = Inputs /\ last' = last /\ \A j : Fed(j)' = Fed(j)
  BY HeldByAll DEF Alone, Fed, Steady
<1>2. ASSUME NEW j \in Inputs, Fed(j) PROVE OrderOf(j)'
  <2>1. CASE j = i
    BY <1>2, <2>1
  <2>2. CASE j # i
    BY <1>2, <2>2, OthersStay DEF OrderInv
  <2> QED
    BY <2>1, <2>2
<1>3. \A n \in DOMAIN queues[watched] : Owned(queues[watched][n]) /\ Known(queues[watched][n])
  BY HeldByAll DEF Steady, Sorted
<1>4. \A n \in DOMAIN queues'[watched] : Owned(queues'[watched][n]) /\ Known(queues'[watched][n])
  <2>1. queues[watched] \in Seq(Frames) /\ GrowsBy(queues[watched], queues'[watched])
    BY HeldByAll DEF GrowsFrom, GrowsBy
  <2> QED
    BY <1>3, <2>1, GrowsKnown
<1>5. \A n \in DOMAIN g_q' : Owned(g_q'[n]) /\ Known(g_q'[n])
  BY HeldByAll DEF Steady, Sorted
<1>6. \A j \in Inputs : j # i => inAt'[j] = inAt[j] /\ hFrame'[j] = hFrame[j] /\ newH'[j] = newH[j]
  BY DEF Alone
<1>7. Sorted'
  <2>1. \A j \in Inputs : hFrame'[j] # 0 => hFrame'[j] = hFrame[j] \/ media'[hFrame'[j]].in = j
    BY <1>6
  <2>2. \A j \in Inputs : newH'[j] # 0 =>
           newH'[j] = newH[j] \/ (Owned(newH'[j]) /\ Known(newH'[j])) \/ KnownNext(newH'[j])
    BY <1>6
  <2>3. \A j \in Inputs : inAt'[j] = "new" =>
           \/ inAt[j] = "new" /\ newH'[j] = newH[j] /\ hFrame'[j] = hFrame[j]
           \/ media'[newH'[j]].in = j /\ Mark(media', newH'[j], j) = Mark(media', hFrame'[j], j)
    BY <1>6
  <2>4. OneSends' /\ \A j \in Inputs : inAt'[j] = "send" => inAt[j] = "send"
    BY AloneSends
  <2>5. \A j \in Inputs : inAt'[j] = "create" =>
           (inAt[j] = "create" /\ hFrame'[j] = hFrame[j]) \/ IsVideo(media'[hFrame'[j]].kind)
    BY <1>6
  <2> QED
    BY <1>4, <1>5, <2>1, <2>2, <2>3, <2>4, <2>5, SortedKeeps
<1> QED
  BY <1>1, <1>2, <1>7 DEF OrderInv

\* The thread goes on, and the output gets nothing.
LEMMA JustMoves ==
  ASSUME OrderInv, Steady, NEW i \in Inputs, Alone(i), number'[i] = number[i], g_q' = g_q, "order" \notin faults',
         queues'[watched] = queues[watched], Fed(i) => HandMark(i)' = HandMark(i),
         inAt'[i] = "create" => IsVideo(media'[hFrame'[i]].kind),
         hFrame'[i] # 0 => hFrame'[i] = hFrame[i],
         newH'[i] # 0 => newH'[i] = newH[i] \/ KnownNext(newH'[i]),
         inAt'[i] = "new" =>
           media'[newH'[i]].in = i /\ Mark(media', newH'[i], i) = Mark(media', hFrame'[i], i),
         "send" \notin {inAt[i], inAt'[i]}
  PROVE  OrderInv'
<1>1. ASSUME Fed(i) PROVE OrderOf(i)'
  <2>1. OrderOf(i) /\ HandMark(i)' = HandMark(i)
    BY <1>1 DEF OrderInv
  <2>2. MadeMark(i)' = MadeMark(i)
    BY AloneSends
  <2>3. Grows /\ UNCHANGED last
    BY DEF Grows, Alone
  <2>4. ASSUME NEW k \in Frames, queues'[watched] = Append(queues[watched], k) PROVE FALSE
    <3>1. queues[watched] \in Seq(Frames)
      BY HeldByAll
    <3> QED
      BY <2>4, <3>1
  <2>5. \A z \in Numbers : Fits(HandMark(i), z, number[i]) => Fits(HandMark(i)', z, number'[i])
    BY <2>1
  <2> QED
    BY <2>1, <2>2, <2>3, <2>4, <2>5, LineStays
<1>2. GrowsFrom(i)
  BY DEF GrowsFrom
<1> QED
  BY <1>1, <1>2, CallbackOrders

\* The thread is done with the frame at hand: the output gets it, or is not to get it.
LEMMA HandedOver ==
  ASSUME OrderInv, Steady, program # "retarder", NEW i \in Inputs,
         Alone(i), number'[i] = number[i], g_q' = g_q, "order" \notin faults',
         inAt'[i] \notin Pending \cup {"send"},
         hFrame'[i] \in {0, hFrame[i]}, newH'[i] \in {0, newH[i]},
         NEW k, Owned(k), media[k].in = i, Mark(media, k, i) = HandMark(i),
         \/ queues'[watched] = queues[watched] /\ (Fed(i) => HandMark(i) = 2)
         \/ queues'[watched] = Append(queues[watched], k) /\ Known(k)
  PROVE  OrderInv'
<1>1. HandMark(i)' = 2 /\ inAt'[i] # "new" /\ inAt'[i] # "create" /\ inAt[i] # "send"
  BY DEF HandMark, Pending, Steady, Sorted
<1>2. CASE queues'[watched] = queues[watched] /\ (Fed(i) => HandMark(i) = 2)
  BY <1>1, <1>2, JustMoves
<1>3. CASE queues'[watched] = Append(queues[watched], k) /\ Known(k)
  <2>1. k \in Frames /\ OwnedNext(k)
    <3>1. queues[watched] \in Seq(Frames) /\ k \in Frames /\ \A n \in DOMAIN queues'[watched] : OwnedNext(queues'[watched][n])
      BY HeldByAll DEF Owned
    <3>2. Len(queues[watched]) + 1 \in DOMAIN Append(queues[watched], k) /\ Append(queues[watched], k)[Len(queues[watched]) + 1] = k
      BY <3>1
    <3> QED
      BY <1>3, <3>1, <3>2
  <2>2. Mark(media', k, i) = HandMark(i)
    BY <2>1, MarksKept
  <2>3. number'[i] \in Numbers /\ UNCHANGED last
    BY DEF Steady, MediaTypes, Alone
  <2>4. Fed(i) => OrderOf(i)'
    <3>1. Senders' = {}
      BY <1>1, AloneSends DEF Steady, Sorted, Senders
    <3> QED
      BY <1>1, <1>3, <2>1, <2>2, <2>3, <3>1, LineSends DEF OrderInv
  <2>5. GrowsFrom(i)
    BY <1>3, <2>1 DEF GrowsFrom
  <2> QED
    BY <1>1, <2>4, <2>5, CallbackOrders
<1> QED
  BY <1>2, <1>3

\* The frame at hand.
LEMMA AtHand ==
  ASSUME Steady, NEW i \in Inputs, inAt[i] \in Pending
  PROVE  /\ Owned(hFrame[i]) /\ media[hFrame[i]].in = i /\ HandMark(i) = Mark(media, hFrame[i], i)
         /\ hFrame[i] \in Frames
         /\ (IsVideo(Kind(i)) => Fed(i)) => Known(hFrame[i])
         /\ ~IsVideo(Kind(i)) => HandMark(i) = 2
<1>1. hFrame[i] # 0
  BY DEF Steady, OwnersInv, PlacesInv, HasFrame, Holding, Pending
<1> QED
  BY <1>1, HeldByAll DEF Steady, Sorted, HandMark, Mark, Known, Kind, Owned

\* What a thread does alone.
LEMMA AloneIs ==
  ASSUME ClientTypes, MediaTypes, NEW i \in Inputs, NEW to, NEW h, NEW n, UNCHANGED last,
         inAt' = [inAt EXCEPT ![i] = to], hFrame' = [hFrame EXCEPT ![i] = h], newH' = [newH EXCEPT ![i] = n],
         number' = number
  PROVE  Alone(i) /\ inAt'[i] = to /\ hFrame'[i] = h /\ newH'[i] = n /\ number'[i] = number[i]
BY DEF Alone, ClientTypes, MediaTypes

\* Video to outputs.
LEMMA ForwardsOrders ==
  ASSUME OrderInv, Steady, program # "retarder", NEW i \in Inputs, NEW outputs, Forwards(i, outputs),
         IsVideo(Kind(i)) /\ watched \in outputs => Fed(i),
         Fed(i) => (watched \in outputs <=> IsVideo(Kind(i)))
  PROVE  OrderInv'
<1>1. /\ inAt[i] = "tick" /\ inAt' = [inAt EXCEPT ![i] = "read"] /\ hFrame' = [hFrame EXCEPT ![i] = 0]
      /\ UNCHANGED <<newH, number, last, faults, g_q>>
      /\ queues' = [o \in Outputs |-> IF o \in outputs THEN Append(queues[o], hFrame[i]) ELSE queues[o]]
  BY DEF Forwards, Returns, Goes, Sends, keepsFrames, callbackVars
<1>2. newH \in [Inputs -> Frames \cup {0}] /\ watched \in Outputs /\ ClientTypes /\ MediaTypes
  BY DEF Steady, OwnersInv, ClientTypes
<1>3. newH' = [newH EXCEPT ![i] = newH[i]]
  BY <1>1, <1>2
<1>4. Alone(i) /\ inAt'[i] = "read" /\ hFrame'[i] = 0 /\ newH'[i] = newH[i] /\ number'[i] = number[i]
  BY <1>1, <1>2, <1>3, AloneIs
<1>5. queues'[watched] = IF watched \in outputs THEN Append(queues[watched], hFrame[i]) ELSE queues[watched]
  BY <1>1, <1>2
<1>6. /\ Owned(hFrame[i]) /\ media[hFrame[i]].in = i /\ HandMark(i) = Mark(media, hFrame[i], i)
      /\ (IsVideo(Kind(i)) => Fed(i)) => Known(hFrame[i])
      /\ ~IsVideo(Kind(i)) => HandMark(i) = 2
  BY <1>1, AtHand DEF Pending
<1>7. \/ queues'[watched] = queues[watched] /\ (Fed(i) => HandMark(i) = 2)
      \/ queues'[watched] = Append(queues[watched], hFrame[i]) /\ Known(hFrame[i])
  BY <1>5, <1>6
<1>8. inAt'[i] \notin Pending \cup {"send"} /\ "order" \notin faults'
  BY <1>1, <1>4 DEF Pending, OrderInv
<1> QED
  BY <1>1, <1>4, <1>6, <1>7, <1>8, HandedOver

LEMMA SendersOrder ==
  ASSUME OrderInv, Steady, NEW i \in Inputs, Adapter(i) \/ Analyzer(i) \/ MultInstances(i) \/ Demuxer(i)
  PROVE  OrderInv'
<1>1. watched \in Outputs /\ watched \in Wired /\ program # "retarder"
  BY DEF Steady, Adapter, Analyzer, MultInstances, Demuxer
<1>2. CASE Adapter(i) \/ Analyzer(i)
  BY <1>1, <1>2, ForwardsOrders DEF Adapter, Analyzer, VideoTo, Fed
<1>3. CASE MultInstances(i)
  BY <1>1, <1>3, ForwardsOrders DEF MultInstances, VideoTo, Fed
<1>4. CASE Demuxer(i)
  BY <1>1, <1>4, ForwardsOrders DEF Demuxer, Fed
<1> QED
  BY <1>2, <1>3, <1>4

LEMMA HandStays ==
  ASSUME Steady, NEW i \in Inputs, inAt[i] \in Pending, inAt'[i] \in Pending, hFrame'[i] = hFrame[i]
  PROVE  HandMark(i)' = HandMark(i) /\ IsVideo(media'[hFrame'[i]].kind) = IsVideo(Kind(i))
<1>1. Owned(hFrame[i]) /\ HandMark(i) = Mark(media, hFrame[i], i) /\ hFrame[i] # 0
  BY AtHand, FramesAreNumbers
<1>2. OwnedNext(hFrame[i])
  BY <1>1, HeldByAll
<1>3. Mark(media', hFrame[i], i) = Mark(media, hFrame[i], i) /\ IsVideo(media'[hFrame[i]].kind) = IsVideo(media[hFrame[i]].kind)
  BY <1>1, <1>2, MarksKept
<1> QED
  BY <1>1, <1>3 DEF HandMark, Kind

\* The converter.
LEMMA ConverterOrders ==
  ASSUME OrderInv, Steady, NEW i \in Inputs, Converter(i)
  PROVE  OrderInv'
<1>1. program = "converter" /\ Fed(i) /\ watched \in Outputs /\ watched \in Wired /\ ClientTypes /\ MediaTypes
  BY DEF Converter, Fed, Steady, OwnersInv
<1>2. /\ newH \in [Inputs -> Frames \cup {0}] /\ hFrame \in [Inputs -> Frames \cup {0}] /\ queues \in [Outputs -> Seq(Frames)]
      /\ "order" \notin faults
  BY <1>1 DEF ClientTypes, OrderInv
<1>3. newH = [newH EXCEPT ![i] = newH[i]] /\ hFrame = [hFrame EXCEPT ![i] = hFrame[i]]
  BY <1>2
<1>4. CASE inAt[i] = "tick" /\ ConverterTick(i)
  <2>1. /\ Owned(hFrame[i]) /\ media[hFrame[i]].in = i /\ HandMark(i) = Mark(media, hFrame[i], i)
        /\ Known(hFrame[i])
    BY <1>1, <1>4, AtHand DEF Pending
  <2>2. CASE Kind(i) = "audio" /\ Forwards(i, {})
    BY <1>1, <2>2, ForwardsOrders DEF IsVideo
  <2>3. CASE /\ Kind(i) = "video10" /\ Returns(i, "tick") /\ keepsFrames /\ UNCHANGED callbackVars
             /\ queues' = [o \in Outputs |-> IF o \in Wired THEN Append(queues[o], hFrame[i]) ELSE queues[o]]
    <3>1. Alone(i) /\ inAt'[i] = "read" /\ hFrame'[i] = 0 /\ newH'[i] = newH[i] /\ number'[i] = number[i]
      BY <1>1, <1>3, <2>3, AloneIs DEF Returns, Goes, keepsFrames
    <3>2. queues'[watched] = Append(queues[watched], hFrame[i]) /\ g_q' = g_q /\ "order" \notin faults'
      BY <1>1, <1>2, <2>3 DEF keepsFrames, callbackVars
    <3>3. inAt'[i] \notin Pending \cup {"send"}
      BY <3>1 DEF Pending
    <3> QED
      BY <1>1, <2>1, <3>1, <3>2, <3>3, HandedOver
  <2>4. CASE Kind(i) = "video8" /\ Goes(i, "tick", "create") /\ keepsMedia /\ UNCHANGED <<hFrame, queues, callbackVars>>
    <3>1. Alone(i) /\ inAt'[i] = "create" /\ hFrame'[i] = hFrame[i] /\ newH'[i] = newH[i] /\ number'[i] = number[i]
      BY <1>1, <1>3, <2>4, AloneIs DEF Goes, keepsMedia, keepsFrames
    <3>2. queues' = queues /\ g_q' = g_q /\ "order" \notin faults'
      BY <1>2, <2>4 DEF keepsMedia, keepsFrames, callbackVars
    <3>3. inAt[i] \in Pending /\ inAt'[i] \in Pending /\ IsVideo(Kind(i))
      BY <1>4, <2>4, <3>1 DEF Pending, IsVideo
    <3>4. HandMark(i)' = HandMark(i) /\ IsVideo(media'[hFrame'[i]].kind)
      BY <3>1, <3>3, HandStays
    <3>5. "send" \notin {inAt[i], inAt'[i]}
      BY <1>4, <3>1
    <3> QED
      BY <3>1, <3>2, <3>4, <3>5, JustMoves
  <2> QED
    BY <1>4, <2>2, <2>3, <2>4 DEF ConverterTick
<1>5. CASE ConverterCreate(i)
  <2>1. /\ inAt[i] = "create" /\ UNCHANGED <<hFrame, number, queues, last, g_q>>
        /\ inAt' = [inAt EXCEPT ![i] = IF Free = {} THEN "crash" ELSE "new"]
    BY <1>5 DEF ConverterCreate, Goes, callbackVars
  <2>2. Owned(hFrame[i]) /\ media[hFrame[i]].in = i /\ hFrame[i] \in Frames /\ IsVideo(Kind(i))
    BY <2>1, AtHand DEF Pending, Steady, Sorted, Kind
  <2>3. inAt[i] \in Pending /\ \A p \in {"crash", "new"} : inAt'[i] = p => inAt'[i] \in Pending
    BY <2>1 DEF Pending
  <2>4. CASE Free = {}
    <3>1. newH' = newH /\ "order" \notin faults'
      BY <1>2, <1>5, <2>4 DEF ConverterCreate
    <3>2. Alone(i) /\ inAt'[i] = "crash" /\ hFrame'[i] = hFrame[i] /\ newH'[i] = newH[i] /\ number'[i] = number[i]
      <4>1. /\ inAt' = [inAt EXCEPT ![i] = "crash"] /\ UNCHANGED <<last, number>>
            /\ hFrame' = [hFrame EXCEPT ![i] = hFrame[i]] /\ newH' = [newH EXCEPT ![i] = newH[i]]
        BY <1>3, <2>1, <2>4, <3>1
      <4> QED
        BY <1>1, <4>1, AloneIs
    <3>3. HandMark(i)' = HandMark(i)
      BY <2>3, <3>2, HandStays
    <3>4. "send" \notin {inAt[i], inAt'[i]}
      BY <2>1, <3>2
    <3> QED
      BY <2>1, <3>1, <3>2, <3>3, <3>4, JustMoves
  <2>5. CASE Free # {}
    <3> DEFINE g == FirstFree
               m == [media[hFrame[i]] EXCEPT !.kind = "video10"]
    <3>1. newH' = [newH EXCEPT ![i] = g] /\ "order" \notin faults' /\ media' = [media EXCEPT ![g] = m]
      BY <1>2, <1>5, <2>5 DEF ConverterCreate
    <3>2. Alone(i) /\ inAt'[i] = "new" /\ hFrame'[i] = hFrame[i] /\ newH'[i] = g /\ number'[i] = number[i]
      BY <1>1, <1>3, <2>1, <2>5, <3>1, AloneIs
    <3>3. media[hFrame[i]] \in Carried /\ refs[hFrame[i]] # 0
      BY <1>1, <2>2 DEF MediaTypes, Owned
    <3>4. m \in Carried /\ m.in = i /\ m.n = media[hFrame[i]].n /\ IsVideo(m.kind)
      BY <2>2, <3>3 DEF Carried, IsVideo, AllKinds
    <3>5. number' \in [Inputs -> Numbers]
      BY <1>1, <2>1 DEF MediaTypes
    <3>6. media'[g] = m /\ media'[hFrame[i]] = media[hFrame[i]]
      <4> HIDE DEF m
      <4> QED
        BY <1>1, <2>2, <2>5, <3>1, <3>3, <3>4, <3>5, FillKeeps DEF Steady
    <3> HIDE DEF m, g
    <3>7. media'[newH'[i]].in = i /\ Mark(media', newH'[i], i) = Mark(media', hFrame'[i], i)
      BY <2>2, <3>2, <3>4, <3>6 DEF Mark, Kind
    <3>8. KnownNext(newH'[i])
      BY <1>1, <3>2, <3>4, <3>6 DEF KnownNext
    <3>9. HandMark(i)' = HandMark(i)
      BY <2>3, <3>2, HandStays
    <3>10. "send" \notin {inAt[i], inAt'[i]}
      BY <2>1, <3>2
    <3> QED
      BY <2>1, <3>1, <3>2, <3>7, <3>8, <3>9, <3>10, JustMoves
  <2> QED
    BY <2>4, <2>5
<1>6. CASE ConverterSend(i)
  <2>1. /\ inAt[i] = "new" /\ inAt' = [inAt EXCEPT ![i] = "tail"] /\ newH' = [newH EXCEPT ![i] = 0]
        /\ UNCHANGED <<hFrame, number, last, g_q, faults>>
        /\ queues' = [o \in Outputs |-> IF o \in Wired THEN Append(queues[o], newH[i]) ELSE queues[o]]
    BY <1>6 DEF ConverterSend, Goes, Sends, callbackVars
  <2>2. Alone(i) /\ inAt'[i] = "tail" /\ hFrame'[i] = hFrame[i] /\ newH'[i] = 0 /\ number'[i] = number[i]
    BY <1>1, <1>3, <2>1, AloneIs
  <2>3. newH[i] # 0
    BY <2>1 DEF Steady, OwnersInv, PlacesInv, Making
  <2>4. Owned(newH[i]) /\ Known(newH[i]) /\ media[newH[i]].in = i /\ Mark(media, newH[i], i) = Mark(media, hFrame[i], i)
    BY <2>1, <2>3, HeldByAll DEF Steady, Sorted
  <2>5. HandMark(i) = Mark(media, newH[i], i)
    BY <2>1, <2>4 DEF HandMark, Pending
  <2>6. queues'[watched] = Append(queues[watched], newH[i])
    BY <1>1, <2>1
  <2>7. inAt'[i] \notin Pending \cup {"send"} /\ "order" \notin faults'
    BY <1>2, <2>1, <2>2 DEF Pending
  <2> QED
    BY <1>1, <2>1, <2>2, <2>4, <2>5, <2>6, <2>7, HandedOver
<1>7. CASE ConverterRelease(i)
  <2>1. /\ inAt[i] = "tail" /\ inAt' = [inAt EXCEPT ![i] = "read"] /\ hFrame' = [hFrame EXCEPT ![i] = 0]
        /\ UNCHANGED <<newH, number, last, g_q, faults, queues>>
    BY <1>7 DEF ConverterRelease, Returns, Goes, Releases, keepsFrames, callbackVars
  <2>2. Alone(i) /\ inAt'[i] = "read" /\ hFrame'[i] = 0 /\ newH'[i] = newH[i] /\ number'[i] = number[i]
    BY <1>1, <1>3, <2>1, AloneIs
  <2>3. HandMark(i)' = HandMark(i) /\ "order" \notin faults'
    BY <1>2, <2>1, <2>2 DEF HandMark, Pending
  <2>4. "send" \notin {inAt[i], inAt'[i]}
    BY <2>1, <2>2
  <2> QED
    BY <2>1, <2>2, <2>3, <2>4, JustMoves
<1> QED
  BY <1>4, <1>5, <1>6, <1>7 DEF Converter

(***************************************************************************)
(* The synchronizer.  It drops frames until its inputs are known; the      *)
(* first one an output gets may have any number.                           *)
(***************************************************************************)
LEMMA Afresh ==
  ASSUME Steady, program = "synchronizer", NEW i \in Inputs, last'[i] = -1,
         queues'[watched] = queues[watched], g_q' = g_q, number'[i] = number[i],
         HandMark(i)' = 2, Senders' = {},
         \A n \in DOMAIN queues[watched] : media[queues[watched][n]].in # i
  PROVE  OrderOf(i)'
<1>1. PICK a \in Numbers : number'[i] = a
  BY DEF Steady, MediaTypes
<1>2. Chain(media, queues[watched], i, a, a)
  <2>1. queues[watched] \in Seq(Frames) /\ \A n \in DOMAIN queues[watched] : Mark(media, queues[watched][n], i) = 2
    BY HeldByAll DEF Mark
  <2> QED
    BY <2>1, ChainNone
<1>3. Chain(media', queues'[watched], i, a, a)
  BY <1>2, ChainsKept DEF Grows
<1>4. g_q' = << >> /\ Chain(media', << >>, i, a, a)
  <2>1. << >> \in Seq(Frames) /\ DOMAIN << >> = {} /\ g_q' = << >>
    BY DEF Steady, Sorted
  <2> QED
    BY <2>1, ChainNone
<1>5. MadeMark(i)' = 2 /\ Fits(2, a, a)
  BY DEF MadeMark, Fits
<1>6. Start(i, a)' /\ watched' = watched /\ Numbers' = Numbers
  BY DEF Start, Steady, Numbers
<1>7. Line(i, a, a, a, a)'
  BY <1>1, <1>3, <1>4, <1>5, <1>6 DEF Line
<1> QED
  BY <1>6, <1>7 DEF OrderOf

LEMMA SynchronizerOrders ==
  ASSUME OrderInv, Steady, SyncInv, NEW i \in Inputs, Synchronizer(i)
  PROVE  OrderInv'
<1>1. program = "synchronizer" /\ Fed(i) /\ watched \in Outputs /\ ClientTypes /\ MediaTypes /\ inputs \in {1, 2}
  BY DEF Synchronizer, Fed, Steady, OwnersInv, ClientTypes
<1>2. newH \in [Inputs -> Frames \cup {0}] /\ hFrame \in [Inputs -> Frames \cup {0}] /\ "order" \notin faults
  BY <1>1 DEF ClientTypes, OrderInv
<1>3. newH = [newH EXCEPT ![i] = newH[i]] /\ hFrame = [hFrame EXCEPT ![i] = hFrame[i]]
  BY <1>2
<1>4. CASE SyncTick(i)
  <2> DEFINE to == IF g_init THEN "route" ELSE IF IdentifiesFirst(i) THEN "first"
                   ELSE IF g_secondInput = -1 THEN "second" ELSE "tail"
  <2>1. inAt[i] = "tick" /\ inAt' = [inAt EXCEPT ![i] = to] /\ UNCHANGED <<hFrame, newH, number, last, faults, g_q, queues>>
    BY <1>4 DEF SyncTick, Goes, keepsMedia, keepsFrames, callbackVars
  <2>2. Alone(i) /\ inAt'[i] = to /\ hFrame'[i] = hFrame[i] /\ newH'[i] = newH[i] /\ number'[i] = number[i]
    <3> HIDE DEF to
    <3>1. hFrame' = [hFrame EXCEPT ![i] = hFrame[i]] /\ newH' = [newH EXCEPT ![i] = newH[i]]
      BY <1>3, <2>1
    <3> QED
      BY <1>1, <2>1, <3>1, AloneIs
  <2>3. CASE g_init
    <3>1. inAt'[i] = "route" /\ inAt[i] \in Pending /\ inAt'[i] \in Pending
      BY <2>1, <2>2, <2>3 DEF Pending
    <3>2. HandMark(i)' = HandMark(i)
      BY <2>2, <3>1, HandStays
    <3>3. "send" \notin {inAt[i], inAt'[i]} /\ "order" \notin faults'
      BY <1>2, <2>1, <3>1
    <3> QED
      BY <2>1, <2>2, <3>1, <3>2, <3>3, JustMoves
  <2>4. CASE ~g_init
    <3>1. inAt'[i] \in {"first", "second", "tail"}
      BY <2>2, <2>4
    <3>2. HandMark(i)' = 2 /\ inAt'[i] # "send" /\ inAt'[i] # "new" /\ inAt'[i] # "create"
      BY <3>1 DEF HandMark, Pending
    <3>3. last'[i] = -1 /\ \A n \in DOMAIN queues[watched] : media[queues[watched][n]].in # i
      BY <1>1, <2>1, <2>4 DEF SyncInv, Routed
    <3>4. OrderOf(i)'
      <4>1. inAt[i] # "send" /\ Senders' = {}
        BY <1>1, <2>1, <2>2, <3>2, AloneSends DEF Steady, Sorted, Senders
      <4> QED
        BY <1>1, <2>1, <2>2, <3>2, <3>3, <4>1, Afresh
    <3>5. GrowsFrom(i) /\ "order" \notin faults'
      BY <1>2, <2>1 DEF GrowsFrom
    <3>6. "send" \notin {inAt[i], inAt'[i]}
      BY <2>1, <3>2
    <3> QED
      BY <2>1, <2>2, <3>2, <3>4, <3>5, <3>6, CallbackOrders
  <2> QED
    BY <2>3, <2>4
<1>5. ASSUME NEW from \in {"first", "second", "init", "tail"}, NEW to \in {"init", "tail", "read"}, NEW h \in {hFrame[i], 0},
             inAt[i] = from, inAt' = [inAt EXCEPT ![i] = to], hFrame' = [hFrame EXCEPT ![i] = h],
             UNCHANGED <<newH, number, last, faults, g_q, queues>>
      PROVE  OrderInv'
  <2>1. newH' = [newH EXCEPT ![i] = newH[i]]
    BY <1>3, <1>5
  <2>2. Alone(i) /\ inAt'[i] = to /\ hFrame'[i] = h /\ newH'[i] = newH[i] /\ number'[i] = number[i]
    BY <1>1, <1>5, <2>1, AloneIs
  <2>3. HandMark(i)' = HandMark(i) /\ "order" \notin faults' /\ "send" \notin {inAt[i], inAt'[i]}
    BY <1>2, <1>5, <2>2 DEF HandMark, Pending
  <2> QED
    BY <1>5, <2>2, <2>3, JustMoves
<1>6. CASE SyncFirst(i) \/ SyncSecond(i)
  <2>1. hFrame' = [hFrame EXCEPT ![i] = hFrame[i]] /\ UNCHANGED <<newH, number, last, faults, g_q, queues>>
    BY <1>3, <1>6 DEF SyncFirst, SyncSecond, keepsMedia, keepsFrames
  <2>2. \/ inAt[i] = "first" /\ inAt' = [inAt EXCEPT ![i] = "tail"]
        \/ inAt[i] = "second" /\ inAt' = [inAt EXCEPT ![i] = "init"]
        \/ inAt[i] = "init" /\ inAt' = [inAt EXCEPT ![i] = "tail"]
    BY <1>6 DEF SyncFirst, SyncSecond, Goes
  <2> QED
    BY <1>5, <2>1, <2>2
<1>7. CASE SyncRoute(i)
  <2>1. CASE Returns(i, "tail") /\ Releases(hFrame[i])
    <3>1. /\ inAt[i] = "tail" /\ inAt' = [inAt EXCEPT ![i] = "read"] /\ hFrame' = [hFrame EXCEPT ![i] = 0]
          /\ UNCHANGED <<newH, number, last, faults, g_q, queues>>
      BY <1>7, <2>1 DEF SyncRoute, Returns, Goes, Releases, keepsFrames, callbackVars
    <3> QED
      BY <1>5, <3>1
  <2>2. CASE Returns(i, "route") /\ Sends(hFrame[i], {OutputOf(i)})
    <3>1. /\ inAt[i] = "route" /\ inAt' = [inAt EXCEPT ![i] = "read"] /\ hFrame' = [hFrame EXCEPT ![i] = 0]
          /\ UNCHANGED <<newH, number, last, faults, g_q>>
      BY <1>7, <2>2 DEF SyncRoute, Returns, Goes, keepsFrames, callbackVars
    <3>2. queues' = [o \in Outputs |-> IF o \in {OutputOf(i)} THEN Append(queues[o], hFrame[i]) ELSE queues[o]]
      BY <2>2 DEF Sends
    <3>3. Alone(i) /\ inAt'[i] = "read" /\ hFrame'[i] = 0 /\ newH'[i] = newH[i] /\ number'[i] = number[i]
      <4>1. newH' = [newH EXCEPT ![i] = newH[i]]
        BY <1>3, <3>1
      <4> QED
        BY <1>1, <3>1, <4>1, AloneIs
    <3>4. inAt'[i] \notin Pending \cup {"send"} /\ "order" \notin faults' /\ HandMark(i)' = 2
      BY <1>2, <3>1, <3>3 DEF Pending, HandMark
    <3>5. CASE OutputOf(i) = watched
      <4>1. /\ Owned(hFrame[i]) /\ media[hFrame[i]].in = i /\ HandMark(i) = Mark(media, hFrame[i], i)
            /\ Known(hFrame[i])
        BY <1>1, <3>1, AtHand DEF Pending
      <4>2. queues'[watched] = Append(queues[watched], hFrame[i])
        BY <1>1, <3>2, <3>5
      <4> QED
        BY <1>1, <3>1, <3>3, <3>4, <4>1, <4>2, HandedOver
    <3>6. CASE OutputOf(i) # watched
      <4>1. queues'[watched] = queues[watched]
        BY <1>1, <3>2, <3>6
      <4>2. last'[i] = -1 /\ \A n \in DOMAIN queues[watched] : media[queues[watched][n]].in # i
        BY <1>1, <3>1, <3>6 DEF SyncInv, Routed
      <4>3. OrderOf(i)'
        <5>1. inAt[i] # "send" /\ inAt'[i] # "send" /\ Senders' = {}
          BY <1>1, <3>1, <3>3, AloneSends DEF Steady, Sorted, Senders
        <5> QED
          BY <1>1, <3>1, <3>3, <3>4, <4>1, <4>2, <5>1, Afresh
      <4>4. GrowsFrom(i)
        BY <4>1 DEF GrowsFrom
      <4>5. "send" \notin {inAt[i], inAt'[i]} /\ inAt'[i] # "new" /\ inAt'[i] # "create"
        BY <3>1, <3>3
      <4> QED
        BY <3>1, <3>3, <3>4, <4>3, <4>4, <4>5, CallbackOrders
    <3> QED
      BY <3>5, <3>6
  <2> QED
    BY <1>7, <2>1, <2>2 DEF SyncRoute
<1> QED
  BY <1>4, <1>6, <1>7 DEF Synchronizer

\* The probe and the players send nothing.
LEMMA QuietOrders ==
  ASSUME OrderInv, Steady, NEW i \in Inputs, CallsBack(i), program \in {"probe", "videoplayer", "winvideoplayer"}
  PROVE  OrderInv'
<1>1. ~Fed(i) /\ watched \in Outputs /\ ClientTypes /\ MediaTypes
  BY DEF Fed, Steady, OwnersInv
<1>2. newH \in [Inputs -> Frames \cup {0}] /\ hFrame \in [Inputs -> Frames \cup {0}] /\ "order" \notin faults
  BY <1>1 DEF ClientTypes, OrderInv
<1>3. newH = [newH EXCEPT ![i] = newH[i]] /\ hFrame = [hFrame EXCEPT ![i] = hFrame[i]]
  BY <1>2
<1>4. Probe(i) \/ VideoPlayer(i) \/ WinPlayer(i)
  BY DEF CallsBack, Callback, Shows, Adapter, Analyzer, MultInstances, Demuxer, Converter, Retarder, Synchronizer
<1>5. UNCHANGED <<newH, number, last, faults, g_q, queues>>
  <2>1. CASE Probe(i)
    BY <2>1 DEF Probe, ProbeTakes, ProbeReleases, Releases, keepsMedia, keepsFrames, callbackVars
  <2>2. CASE VideoPlayer(i) \/ WinPlayer(i)
    <3>1. UNCHANGED <<newH, number, last, faults, queues>>
      BY <2>2 DEF VideoPlayer, PlayerTick, PlayerResizes, PlayerCopies, PlayerReleases, WinPlayer, WinTick, WinInit,
         WinQueue, WinReleases, keepsLibrary, Releases
    <3>2. UNCHANGED g_q
      BY <2>2 DEF CallsBack, Callback, callbackVars, VideoPlayer, WinPlayer, Adapter, Analyzer, MultInstances, Demuxer,
         Converter, Retarder, Synchronizer, Probe
    <3> QED
      BY <3>1, <3>2
  <2> QED
    BY <1>4, <2>1, <2>2
<1>6. \E to \in Places \ {"new", "send", "create"}, h \in {0, hFrame[i]} :
        inAt' = [inAt EXCEPT ![i] = to] /\ hFrame' = [hFrame EXCEPT ![i] = h]
  <2>1. CASE Probe(i)
    BY <1>3, <2>1 DEF Probe, ProbeTakes, ProbeReleases, Returns, Goes, Places, Holding, Making
  <2>2. CASE VideoPlayer(i)
    BY <1>3, <2>2 DEF VideoPlayer, PlayerTick, PlayerResizes, PlayerCopies, PlayerReleases, CopiesOf, Returns, Goes,
       Places, Holding, Making
  <2>3. CASE WinPlayer(i)
    BY <1>3, <2>3 DEF WinPlayer, WinTick, WinInit, WinQueue, WinReleases, Returns, Goes, Places, Holding, Making
  <2> QED
    BY <1>4, <2>1, <2>2, <2>3
<1>7. PICK to \in Places \ {"new", "send", "create"}, h \in {0, hFrame[i]} :
        inAt' = [inAt EXCEPT ![i] = to] /\ hFrame' = [hFrame EXCEPT ![i] = h]
  BY <1>6
<1>8. Alone(i) /\ inAt'[i] = to /\ hFrame'[i] = h /\ newH'[i] = newH[i] /\ number'[i] = number[i]
  <2>1. newH' = [newH EXCEPT ![i] = newH[i]]
    BY <1>3, <1>5
  <2> QED
    BY <1>1, <1>5, <1>7, <2>1, AloneIs
<1>9. "send" \notin {inAt[i], inAt'[i]} /\ inAt'[i] # "new" /\ inAt'[i] # "create" /\ "order" \notin faults'
  BY <1>2, <1>5, <1>8 DEF Steady, Sorted
<1> QED
  BY <1>1, <1>5, <1>7, <1>8, <1>9, JustMoves

(***************************************************************************)
(* The retarder.                                                           *)
(***************************************************************************)
LEMMA DelayOrders ==
  ASSUME OrderInv, Steady, program = "retarder", NEW i \in Inputs, Alone(i), "order" \notin faults',
         hFrame'[i] \in {0, hFrame[i]}, inAt'[i] \notin {"create", "new"},
         newH'[i] # 0 => newH'[i] = newH[i] \/ (Owned(newH'[i]) /\ Known(newH'[i])),
         GrowsBy(queues[watched], queues'[watched]),
         \A n \in DOMAIN g_q' : Owned(g_q'[n]) /\ Known(g_q'[n]),
         OneSends', \A j \in Inputs : OrderOf(j)'
  PROVE  OrderInv'
<1>1. Inputs' = Inputs /\ last' = last
  BY HeldByAll DEF Alone
<1>2. \A j \in Inputs : j # i => inAt'[j] = inAt[j] /\ hFrame'[j] = hFrame[j] /\ newH'[j] = newH[j]
  BY DEF Alone
<1>3. \A n \in DOMAIN queues'[watched] : Owned(queues'[watched][n]) /\ Known(queues'[watched][n])
  <2>1. queues[watched] \in Seq(Frames) /\ \A n \in DOMAIN queues[watched] : Owned(queues[watched][n]) /\ Known(queues[watched][n])
    BY HeldByAll DEF Steady, Sorted
  <2> QED
    BY <2>1, GrowsKnown
<1>4. Sorted'
  <2>1. /\ \A j \in Inputs : hFrame'[j] # 0 => hFrame'[j] = hFrame[j] \/ media'[hFrame'[j]].in = j
        /\ \A j \in Inputs : newH'[j] # 0 =>
             newH'[j] = newH[j] \/ (Owned(newH'[j]) /\ Known(newH'[j])) \/ KnownNext(newH'[j])
    BY <1>2
  <2>2. /\ \A j \in Inputs : inAt'[j] = "create" =>
             (inAt[j] = "create" /\ hFrame'[j] = hFrame[j]) \/ IsVideo(media'[hFrame'[j]].kind)
        /\ \A j \in Inputs : inAt'[j] = "new" =>
             \/ inAt[j] = "new" /\ newH'[j] = newH[j] /\ hFrame'[j] = hFrame[j]
             \/ media'[newH'[j]].in = j /\ Mark(media', newH'[j], j) = Mark(media', hFrame'[j], j)
    BY <1>2
  <2> QED
    BY <1>3, <2>1, <2>2, SortedKeeps
<1> QED
  BY <1>1, <1>4 DEF OrderInv

LEMMA PushOrders ==
  ASSUME OrderInv, Steady, program = "retarder", NEW i \in Inputs, RetarderPush(i)
  PROVE  OrderInv'
<1>1. ClientTypes /\ MediaTypes /\ newH \in [Inputs -> Frames \cup {0}] /\ "order" \notin faults
  BY DEF Steady, OwnersInv, ClientTypes, OrderInv
<1>2. /\ inAt[i] = "tick" /\ inAt' = [inAt EXCEPT ![i] = "size"] /\ hFrame' = [hFrame EXCEPT ![i] = 0]
      /\ g_q' = Append(g_q, hFrame[i])
      /\ UNCHANGED <<newH, number, last, faults, media, queues>>
  BY DEF RetarderPush, Goes, keepsMedia, keepsFrames
<1>3. Alone(i) /\ inAt'[i] = "size" /\ hFrame'[i] = 0 /\ newH'[i] = newH[i] /\ number'[i] = number[i]
  <2>1. newH' = [newH EXCEPT ![i] = newH[i]]
    BY <1>1, <1>2
  <2> QED
    BY <1>1, <1>2, <2>1, AloneIs
<1>4. /\ Owned(hFrame[i]) /\ HandMark(i) = Mark(media, hFrame[i], i) /\ Known(hFrame[i]) /\ hFrame[i] \in Frames
      /\ media[hFrame[i]].in = i
  BY <1>2, AtHand DEF Pending, Fed
<1>5. /\ g_q \in Seq(Frames) /\ \A n \in DOMAIN g_q : Owned(g_q[n]) /\ Known(g_q[n])
  BY HeldByAll DEF Steady, Sorted
<1>6. OneSends' /\ (\A j : MadeMark(j)' = MadeMark(j)) /\ inAt'[i] \notin {"create", "new"}
  BY <1>2, <1>3, AloneSends
<1>7. HandMark(i)' = 2
  BY <1>3 DEF HandMark, Pending
<1>8. ASSUME NEW j \in Inputs PROVE OrderOf(j)'
  <2>1. PICK a, x, y, z \in Numbers : Line(j, a, x, y, z)
    BY DEF OrderInv, OrderOf, Fed
  <2>2. PICK c \in Numbers : Fits(Mark(media, hFrame[i], j), z, c) /\ Fits(HandMark(j)', c, number'[j])
    <3>1. CASE j = i
      <4>1. number[i] \in Numbers /\ Fits(2, number[i], number[i])
        BY <1>1 DEF MediaTypes, Fits
      <4> QED
        BY <1>3, <1>4, <1>7, <2>1, <3>1, <4>1 DEF Line
    <3>2. CASE j # i
      <4>1. Mark(media, hFrame[i], j) = 2 /\ Fits(2, z, z)
        BY <1>4, <3>2 DEF Mark, Fits
      <4>2. HandMark(j)' = HandMark(j) /\ number'[j] = number[j]
        BY <1>3, <3>2, OthersHold
      <4> QED
        BY <2>1, <4>1, <4>2 DEF Line
    <3> QED
      BY <3>1, <3>2
  <2>3. Chain(media, g_q, j, y, z) /\ Chain(media, queues[watched], j, a, x) /\ Fits(MadeMark(j)', x, y) /\ Start(j, a)
    BY <1>6, <2>1 DEF Line
  <2>4. Chain(media, g_q', j, y, c)
    BY <1>2, <1>4, <1>5, <2>2, <2>3, ChainAppend
  <2>5. Start(j, a)' /\ watched' = watched /\ Numbers' = Numbers
    BY <1>2, <2>3 DEF Start, Steady, Numbers
  <2>6. Line(j, a, x, y, c)'
    BY <1>2, <2>2, <2>3, <2>4, <2>5 DEF Line
  <2> QED
    BY <2>5, <2>6 DEF OrderOf
<1>9. \A n \in DOMAIN g_q' : Owned(g_q'[n]) /\ Known(g_q'[n])
  BY <1>2, <1>4, <1>5, GrowsKnown DEF GrowsBy
<1>10. GrowsBy(queues[watched], queues'[watched]) /\ "order" \notin faults'
  BY <1>1, <1>2 DEF GrowsBy
<1> QED
  BY <1>3, <1>6, <1>8, <1>9, <1>10, DelayOrders

\* Nobody else has a frame of the delay line, or the callbacks overlap.
LEMMA PopOrders ==
  ASSUME OrderInv, Steady, program = "retarder", NEW i \in Inputs, RetarderPop(i), ~overlapped'
  PROVE  OrderInv'
<1>1. ClientTypes /\ MediaTypes /\ newH \in [Inputs -> Frames \cup {0}] /\ hFrame \in [Inputs -> Frames \cup {0}]
      /\ "order" \notin faults
  BY DEF Steady, OwnersInv, ClientTypes, OrderInv
<1>2. UNCHANGED <<hFrame, media, number, queues, last, faults>>
  BY DEF RetarderPop
<1>3. hFrame' = [hFrame EXCEPT ![i] = hFrame[i]]
  BY <1>1, <1>2
<1>4. CASE /\ inAt[i] = "size" /\ \E to \in {"read", "pop"} : inAt' = [inAt EXCEPT ![i] = to]
           /\ UNCHANGED <<newH, g_q>>
  <2>1. PICK to \in {"read", "pop"} : inAt' = [inAt EXCEPT ![i] = to]
    BY <1>4
  <2>2. newH' = [newH EXCEPT ![i] = newH[i]]
    BY <1>1, <1>4
  <2>3. Alone(i) /\ inAt'[i] = to /\ hFrame'[i] = hFrame[i] /\ newH'[i] = newH[i] /\ number'[i] = number[i]
    BY <1>1, <1>2, <1>3, <2>1, <2>2, AloneIs
  <2>4. HandMark(i)' = HandMark(i) /\ "send" \notin {inAt[i], inAt'[i]} /\ "order" \notin faults'
    BY <1>1, <1>2, <1>4, <2>3 DEF HandMark, Pending
  <2> QED
    BY <1>2, <1>4, <2>3, <2>4, JustMoves
<1>5. CASE /\ g_q # << >> /\ inAt[i] = "pop" /\ inAt' = [inAt EXCEPT ![i] = "send"]
           /\ newH' = [newH EXCEPT ![i] = Head(g_q)] /\ g_q' = Tail(g_q) /\ ~Sending
  <2>1. Alone(i) /\ inAt'[i] = "send" /\ hFrame'[i] = hFrame[i] /\ newH'[i] = Head(g_q) /\ number'[i] = number[i]
    BY <1>1, <1>2, <1>3, <1>5, AloneIs
  <2>2. Senders = {} /\ Senders' = {i} /\ watched' = watched /\ Numbers' = Numbers
    <3>1. Inputs' = Inputs /\ \A j \in Inputs : j # i => inAt'[j] = inAt[j]
      BY <2>1, HeldByAll DEF Alone
    <3> QED
      BY <1>5, <2>1, <3>1 DEF Senders, Sending, Steady, Numbers
  <2>3. Sender' = i
    <3>1. Sender' \in {i}
      BY <2>2 DEF Sender
    <3> QED
      BY <3>1
  <2>4. OneSends'
    BY <2>2 DEF OneSends
  <2>5. g_q \in Seq(Frames) /\ \A n \in DOMAIN g_q : Owned(g_q[n]) /\ Known(g_q[n])
    BY HeldByAll DEF Steady, Sorted
  <2>6. ASSUME NEW j \in Inputs PROVE OrderOf(j)'
    <3>1. PICK a, x, y, z \in Numbers : Line(j, a, x, y, z)
      BY DEF OrderInv, OrderOf, Fed
    <3>2. MadeMark(j) = 2 /\ MadeMark(j)' = Mark(media, Head(g_q), j)
      BY <1>2, <2>1, <2>2, <2>3 DEF MadeMark
    <3>3. x = y
      BY <3>1, <3>2 DEF Line, Fits
    <3>4. PICK c \in Numbers : Fits(Mark(media, Head(g_q), j), y, c) /\ Chain(media, Tail(g_q), j, c, z)
      BY <1>5, <2>5, <3>1, ChainTail DEF Line
    <3>5. HandMark(j)' = HandMark(j) /\ number'[j] = number[j]
      <4>1. CASE j = i
        BY <1>5, <2>1, <4>1 DEF HandMark, Pending
      <4>2. CASE j # i
        BY <2>1, <4>2, OthersHold
      <4> QED
        BY <4>1, <4>2
    <3>6. Start(j, a)'
      BY <1>2, <3>1 DEF Line, Start, Steady
    <3>7. /\ Chain(media', queues'[watched], j, a, x) /\ Fits(MadeMark(j)', x, c) /\ Chain(media', g_q', j, c, z)
          /\ Fits(HandMark(j)', z, number'[j])
      BY <1>2, <1>5, <3>1, <3>2, <3>3, <3>4, <3>5 DEF Line
    <3>8. Line(j, a, x, c, z)'
      BY <2>2, <3>6, <3>7 DEF Line
    <3> QED
      BY <2>2, <3>8 DEF OrderOf
  <2>7. Owned(Head(g_q)) /\ Known(Head(g_q)) /\ \A n \in DOMAIN g_q' : Owned(g_q'[n]) /\ Known(g_q'[n])
    <3>1. Head(g_q) = g_q[1] /\ 1 \in DOMAIN g_q /\ \A n \in DOMAIN Tail(g_q) : n + 1 \in DOMAIN g_q /\ Tail(g_q)[n] = g_q[n + 1]
      BY <1>5, <2>5
    <3> QED
      BY <1>5, <2>5, <3>1
  <2>8. GrowsBy(queues[watched], queues'[watched]) /\ "order" \notin faults' /\ inAt'[i] \notin {"create", "new"}
    BY <1>1, <1>2, <2>1 DEF GrowsBy
  <2> QED
    BY <2>1, <2>4, <2>6, <2>7, <2>8, DelayOrders
<1> QED
  BY <1>4, <1>5 DEF RetarderPop, Goes, Delayed

LEMMA DelayedSendOrders ==
  ASSUME OrderInv, Steady, program = "retarder", NEW i \in Inputs, RetarderSend(i)
  PROVE  OrderInv'
<1>1. ClientTypes /\ MediaTypes /\ hFrame \in [Inputs -> Frames \cup {0}] /\ "order" \notin faults
      /\ watched \in Outputs /\ watched \in Wired /\ queues[watched] \in Seq(Frames)
  BY HeldByAll DEF Steady, OwnersInv, ClientTypes, OrderInv
<1>2. /\ inAt[i] = "send" /\ inAt' = [inAt EXCEPT ![i] = "read"] /\ newH' = [newH EXCEPT ![i] = 0]
      /\ UNCHANGED <<hFrame, number, last, faults, g_q>>
      /\ queues' = [o \in Outputs |-> IF o \in Wired THEN Append(queues[o], newH[i]) ELSE queues[o]]
  BY DEF RetarderSend, Goes, Sends, callbackVars
<1>3. Alone(i) /\ inAt'[i] = "read" /\ hFrame'[i] = hFrame[i] /\ newH'[i] = 0 /\ number'[i] = number[i]
  <2>1. hFrame' = [hFrame EXCEPT ![i] = hFrame[i]]
    BY <1>1, <1>2
  <2> QED
    BY <1>1, <1>2, <2>1, AloneIs
<1>4. newH[i] # 0
  BY <1>2 DEF Steady, OwnersInv, PlacesInv, Making
<1>5. Owned(newH[i]) /\ Known(newH[i])
  BY <1>4, HeldByAll DEF Steady, Sorted
<1> DEFINE k == newH[i]
<1>6. k \in Frames /\ Owned(k) /\ Known(k) /\ queues'[watched] = Append(queues[watched], k) /\ k = newH[i]
  BY <1>1, <1>2, <1>5 DEF Owned
<1> HIDE DEF k
<1>7. Senders = {i} /\ Senders' = {}
  <2>1. Inputs' = Inputs /\ \A j \in Inputs : j # i => inAt'[j] = inAt[j]
    BY <1>3, HeldByAll DEF Alone
  <2>2. i \in Senders /\ \A j \in Senders : j = i
    BY <1>2 DEF Senders, OneSends, Steady, Sorted
  <2> QED
    BY <1>3, <2>1, <2>2 DEF Senders
<1>8. Sender = i
  <2>1. Sender \in {i}
    BY <1>7 DEF Sender
  <2> QED
    BY <2>1
<1>9. OneSends'
  BY <1>7 DEF OneSends
<1>10. OwnedNext(k)
  <2>1. \A n \in DOMAIN queues'[watched] : OwnedNext(queues'[watched][n])
    BY HeldByAll
  <2>2. Len(queues[watched]) + 1 \in DOMAIN Append(queues[watched], k) /\ Append(queues[watched], k)[Len(queues[watched]) + 1] = k
    BY <1>1, <1>6
  <2> QED
    BY <1>6, <2>1, <2>2
<1>11. Grows /\ watched' = watched /\ Numbers' = Numbers
  BY <1>6 DEF Grows, Steady, Numbers
<1>12. ASSUME NEW j \in Inputs PROVE OrderOf(j)'
  <2>1. PICK a, x, y, z \in Numbers : Line(j, a, x, y, z)
    BY DEF OrderInv, OrderOf, Fed
  <2>2. MadeMark(j) = Mark(media, k, j) /\ MadeMark(j)' = 2
    BY <1>6, <1>7, <1>8 DEF MadeMark
  <2>3. Mark(media', k, j) = MadeMark(j)
    BY <1>6, <1>10, <2>2, MarksKept
  <2>4. Chain(media', queues[watched], j, a, x) /\ Chain(media', g_q, j, y, z)
    BY <1>2, <1>11, <2>1, ChainsKept DEF Line
  <2>5. Chain(media', queues'[watched], j, a, y)
    <3>1. Fits(Mark(media', k, j), x, y)
      BY <2>1, <2>3 DEF Line
    <3> QED
      BY <1>1, <1>6, <2>4, <3>1, ChainAppend
  <2>6. HandMark(j)' = HandMark(j) /\ number'[j] = number[j]
    <3>1. CASE j = i
      BY <1>2, <1>3, <3>1 DEF HandMark, Pending
    <3>2. CASE j # i
      BY <1>3, <3>2, OthersHold
    <3> QED
      BY <3>1, <3>2
  <2>7. Fits(2, y, y) /\ Start(j, a)' /\ Fits(HandMark(j)', z, number'[j])
    BY <1>2, <2>1, <2>6 DEF Line, Fits, Start, Steady
  <2>8. Line(j, a, y, y, z)'
    BY <1>2, <1>11, <2>2, <2>4, <2>5, <2>7 DEF Line
  <2> QED
    BY <1>11, <2>8 DEF OrderOf
<1>13. \A n \in DOMAIN g_q' : Owned(g_q'[n]) /\ Known(g_q'[n])
  BY <1>2, HeldByAll DEF Steady, Sorted
<1>14. GrowsBy(queues[watched], queues'[watched]) /\ "order" \notin faults' /\ inAt'[i] \notin {"create", "new"}
  BY <1>1, <1>2, <1>3, <1>6 DEF GrowsBy
<1> QED
  BY <1>3, <1>9, <1>12, <1>13, <1>14, DelayOrders

LEMMA RetarderOrders ==
  ASSUME OrderInv, Steady, NEW i \in Inputs, Retarder(i), ~overlapped'
  PROVE  OrderInv'
<1>1. program = "retarder"
  BY DEF Retarder
<1> QED
  BY <1>1, PushOrders, PopOrders, DelayedSendOrders DEF Retarder

(***************************************************************************)
(* A frame arrives, an output sends one, and the rest.                     *)
(***************************************************************************)
LEMMA ReadsOrder ==
  ASSUME OrderInv, Steady, NEW i \in Inputs, Reads(i)
  PROVE  OrderInv'
<1>1. watched \in Outputs /\ ClientTypes /\ MediaTypes /\ OwnersInv
  BY DEF Steady, OwnersInv
<1>2. /\ inAt[i] = "read" /\ inAt' = [inAt EXCEPT ![i] = "tick"] /\ hFrame' = [hFrame EXCEPT ![i] = FirstFree]
      /\ UNCHANGED <<newH, queues, last, faults, g_q>>
  BY DEF Reads, Tick, callbackVars
<1>3. /\ media'[FirstFree].in = i
      /\ media'[FirstFree].n = IF Numbered(media'[FirstFree].kind) THEN number[i] ELSE 0
      /\ number' = [number EXCEPT ![i] = IF Numbered(media'[FirstFree].kind) THEN 1 - @ ELSE @]
  BY <1>1, ReadsKeep
<1> DEFINE g == FirstFree
           v == Numbered(media'[g].kind)
<1>4. hFrame' = [hFrame EXCEPT ![i] = g]
  BY <1>2
<1>5. media'[g].in = i /\ (v => media'[g].n = number[i]) /\ number' = [number EXCEPT ![i] = IF v THEN 1 - @ ELSE @]
  BY <1>3
<1>6. Fed(i) => Mark(media', g, i) = IF v THEN number[i] ELSE 2
  BY <1>5 DEF Mark, Numbered, Fed
<1> HIDE DEF g, v
<1>7. /\ inAt'[i] = "tick" /\ hFrame'[i] = g /\ newH'[i] = newH[i]
      /\ number'[i] = (IF v THEN 1 - number[i] ELSE number[i]) /\ number[i] \in Numbers
  BY <1>1, <1>2, <1>4, <1>5 DEF ClientTypes, MediaTypes
<1>8. Alone(i)
  BY <1>1, <1>2, <1>4, <1>5 DEF Alone, ClientTypes, MediaTypes
<1>9. HandMark(i) = 2 /\ MadeMark(i)' = MadeMark(i) /\ (Fed(i) => HandMark(i)' = IF v THEN number[i] ELSE 2)
  BY <1>2, <1>6, <1>7, <1>8, AloneSends DEF HandMark, Pending
<1>10. ASSUME Fed(i), NEW z \in Numbers, Fits(HandMark(i), z, number[i]) PROVE Fits(HandMark(i)', z, number'[i])
  <2>1. number[i] = z
    BY <1>9, <1>10 DEF Fits
  <2> QED
    BY <1>7, <1>9, <1>10, <2>1 DEF Fits, Numbers
<1>11. ASSUME Fed(i) PROVE OrderOf(i)'
  <2>1. OrderOf(i) /\ Grows
    BY <1>2, <1>11 DEF OrderInv, Grows
  <2>2. ASSUME NEW k \in Frames, queues'[watched] = Append(queues[watched], k) PROVE FALSE
    <3>1. queues[watched] \in Seq(Frames)
      BY HeldByAll
    <3> QED
      BY <1>2, <2>2, <3>1
  <2> QED
    BY <1>2, <1>9, <1>10, <1>11, <2>1, <2>2, LineStays
<1>12. GrowsFrom(i) /\ "order" \notin faults'
  BY <1>2 DEF GrowsFrom, OrderInv
<1>13. inAt'[i] # "create" /\ inAt'[i] # "new" /\ "send" \notin {inAt[i], inAt'[i]}
  BY <1>2, <1>7
<1> QED
  BY <1>2, <1>5, <1>7, <1>8, <1>11, <1>12, <1>13, CallbackOrders

\* No thread moves.
LEMMA MarksStay ==
  ASSUME Steady, NEW j \in Inputs, UNCHANGED <<inAt, hFrame, newH>>
  PROVE  HandMark(j)' = HandMark(j) /\ MadeMark(j)' = MadeMark(j)
<1>1. HandMark(j)' = HandMark(j)
  <2>1. CASE inAt[j] \in Pending
    BY <2>1, HandStays
  <2>2. CASE inAt[j] \notin Pending
    BY <2>2 DEF HandMark
  <2> QED
    BY <2>1, <2>2
<1>2. MadeMark(j)' = MadeMark(j)
  <2>1. Senders' = Senders
    BY HeldByAll DEF Senders
  <2> QED
    BY <2>1, MadeStays
<1> QED
  BY <1>1, <1>2

\* The watched output sends what is due.
LEMMA HeadIsNext ==
  ASSUME OrderInv, Steady, NEW k, NEW j \in Inputs, Fed(j), queues[watched] # << >>, k = Head(queues[watched]),
         Mark(media, k, j) # 2
  PROVE  Start(j, Mark(media, k, j))
<1>1. PICK a, x, y, z \in Numbers : Line(j, a, x, y, z)
  BY DEF OrderInv, OrderOf
<1>2. queues[watched] \in Seq(Frames)
  BY HeldByAll
<1>3. PICK c \in Numbers : Fits(Mark(media, k, j), a, c)
  BY <1>1, <1>2, ChainTail DEF Line
<1>4. Mark(media, k, j) = a
  BY <1>3 DEF Fits
<1> QED
  BY <1>1, <1>4 DEF Line

LEMMA HeadIsDue ==
  ASSUME OrderInv, Steady, NEW k, NEW j \in Inputs, Fed(j), queues[watched] # << >>, k = Head(queues[watched]),
         queues'[watched] = Tail(queues[watched]), g_q' = g_q,
         UNCHANGED <<inAt, hFrame, newH>>, number'[j] = number[j],
         last'[j] = IF Mark(media, k, j) = 2 THEN last[j] ELSE Mark(media, k, j)
  PROVE  OrderOf(j)'
<1>1. PICK a, x, y, z \in Numbers : Line(j, a, x, y, z)
  BY DEF OrderInv, OrderOf
<1>2. /\ queues[watched] \in Seq(Frames) /\ \A n \in DOMAIN queues[watched] : Owned(queues[watched][n])
      /\ \A n \in DOMAIN queues'[watched] : OwnedNext(queues'[watched][n])
  BY HeldByAll
<1>3. PICK c \in Numbers : Fits(Mark(media, k, j), a, c) /\ Chain(media, Tail(queues[watched]), j, c, x)
  BY <1>1, <1>2, ChainTail DEF Line
<1>4. Chain(media', queues'[watched], j, c, x)
  <2>1. Tail(queues[watched]) \in Seq(Frames)
    BY <1>2
  <2>2. ASSUME NEW n \in DOMAIN Tail(queues[watched])
        PROVE  Mark(media', Tail(queues[watched])[n], j) = Mark(media, Tail(queues[watched])[n], j)
    <3>1. n + 1 \in DOMAIN queues[watched] /\ Tail(queues[watched])[n] = queues[watched][n + 1]
      BY <1>2, <2>2
    <3>2. Owned(Tail(queues[watched])[n]) /\ OwnedNext(Tail(queues[watched])[n])
      BY <1>2, <2>2, <3>1
    <3> QED
      BY <3>2, MarksKept
  <2> QED
    BY <1>3, <2>1, <2>2, ChainSame
<1>5. Chain(media', g_q', j, y, z)
  BY <1>1, ChainsKept DEF Line
<1>6. Mark(media, k, j) \in Numbers \cup {2}
  <2>1. k \in Frames
    BY <1>2
  <2> QED
    BY <2>1 DEF Mark, Steady, MediaTypes, Carried
<1>7. Start(j, a) /\ program' = program
  BY <1>1 DEF Line, Steady
<1>8. Start(j, c)'
  <2>1. CASE Mark(media, k, j) = 2
    BY <1>3, <1>7, <2>1 DEF Fits, Start
  <2>2. CASE Mark(media, k, j) # 2
    BY <1>3, <1>6, <2>2 DEF Fits, Start, Numbers
  <2> QED
    BY <2>1, <2>2
<1>9. Fits(MadeMark(j)', x, y) /\ Fits(HandMark(j)', z, number'[j])
  BY <1>1, MarksStay DEF Line
<1>10. watched' = watched /\ Numbers' = Numbers
  BY DEF Steady, Numbers
<1>11. Line(j, c, x, y, z)'
  BY <1>4, <1>5, <1>8, <1>9, <1>10 DEF Line
<1> QED
  BY <1>10, <1>11 DEF OrderOf

LEMMA SendOrders ==
  ASSUME OrderInv, Steady, NEW o \in Outputs, Send(o)
  PROVE  OrderInv'
<1>1. /\ queues[o] # << >> /\ queues' = [queues EXCEPT ![o] = Tail(@)]
      /\ UNCHANGED <<inAt, hFrame, newH, number, g_q>>
  BY DEF Send, OutSends, callbackVars
<1>2. /\ watched \in Outputs /\ queues \in [Outputs -> Seq(Frames)] /\ "order" \notin faults
      /\ last = [i \in Inputs |-> last[i]] /\ Inputs' = Inputs /\ \A j : Fed(j)' = Fed(j)
  BY HeldByAll DEF Steady, OwnersInv, ClientTypes, OrderInv, Fed
<1>3. /\ \A n \in DOMAIN queues[watched] : Owned(queues[watched][n]) /\ Known(queues[watched][n])
      /\ \A n \in DOMAIN g_q : Owned(g_q[n]) /\ Known(g_q[n])
  BY HeldByAll DEF Steady, Sorted
<1>4. \A n \in DOMAIN queues'[watched] : Owned(queues'[watched][n]) /\ Known(queues'[watched][n])
  <2>1. CASE o # watched
    BY <1>1, <1>2, <1>3, <2>1
  <2>2. CASE o = watched
    <3>1. queues'[watched] = Tail(queues[watched]) /\ queues[watched] \in Seq(Frames) /\ queues[watched] # << >>
      BY <1>1, <1>2, <2>2
    <3>2. \A n \in DOMAIN Tail(queues[watched]) : n + 1 \in DOMAIN queues[watched] /\ Tail(queues[watched])[n] = queues[watched][n + 1]
      BY <3>1
    <3> QED
      BY <1>3, <3>1, <3>2
  <2> QED
    BY <2>1, <2>2
<1>5. Sorted'
  <2>1. OneSends' /\ (program # "retarder" => g_q' = g_q /\ \A j \in Inputs : inAt'[j] = "send" => inAt[j] = "send")
    BY <1>1, <1>2 DEF OneSends, Senders, Steady, Sorted
  <2> QED
    BY <1>1, <1>3, <1>4, <2>1, SortedKeeps
<1>6. CASE o # watched
  <2>1. last' = last /\ faults' = faults /\ queues'[watched] = queues[watched]
    BY <1>1, <1>2, <1>6 DEF Send, OutSends
  <2>2. ASSUME NEW j \in Inputs, Fed(j) PROVE OrderOf(j)'
    <3>1. OrderOf(j) /\ Grows
      BY <2>1, <2>2 DEF OrderInv, Grows
    <3>2. MadeMark(j)' = MadeMark(j) /\ HandMark(j)' = HandMark(j)
      BY <1>1, MarksStay
    <3>3. ASSUME NEW k \in Frames, queues'[watched] = Append(queues[watched], k) PROVE FALSE
      <4>1. queues[watched] \in Seq(Frames)
        BY <1>2
      <4> QED
        BY <2>1, <3>3, <4>1
    <3>4. \A z \in Numbers : Fits(HandMark(j), z, number[j]) => Fits(HandMark(j)', z, number'[j])
      BY <1>1, <3>2
    <3> QED
      BY <1>1, <2>1, <3>1, <3>2, <3>3, <3>4, LineStays
  <2> QED
    BY <1>2, <1>5, <2>1, <2>2 DEF OrderInv
<1>7. CASE o = watched
  <2> DEFINE k == Head(queues[watched])
             m == media[k]
  <2>1. /\ queues[watched] # << >> /\ queues'[watched] = Tail(queues[watched])
        /\ k = Head(queues[watched]) /\ Owned(k) /\ Known(k) /\ k \in Frames
    <3>1. k = queues[watched][1] /\ 1 \in DOMAIN queues[watched] /\ k \in Frames
      BY <1>1, <1>2, <1>7
    <3> QED
      BY <1>1, <1>2, <1>3, <1>7, <3>1
  <2>2. IF IsVideo(m.kind)
        THEN /\ last' = IF m.n = NextOf(m) THEN [last EXCEPT ![m.in] = m.n] ELSE [i \in Inputs |-> -1]
             /\ faults' \subseteq faults \cup (IF m.n # NextOf(m) THEN {"order"} ELSE {}) \cup {"mixed"}
        ELSE UNCHANGED <<last, faults>>
    BY <1>2, <1>7 DEF Send, OutSends
  <2>3. m = media[k] /\ m.n \in Numbers /\ m.in \in Inputs /\ (IsVideo(m.kind) => Fed(m.in))
    BY <2>1 DEF Known, Steady, MediaTypes, Carried
  <2> HIDE DEF k, m
  <2>4. \A j \in Inputs : Mark(media, k, j) = IF m.in = j /\ IsVideo(m.kind) THEN m.n ELSE 2
    BY <2>3 DEF Mark
  <2>5. m.n # 2
    BY <2>3 DEF Numbers
  <2>6. IsVideo(m.kind) => m.n = NextOf(m)
    <3>1. ASSUME IsVideo(m.kind) PROVE Start(m.in, m.n)
      BY <2>1, <2>3, <2>4, <2>5, <3>1, HeadIsNext
    <3> QED
      BY <3>1 DEF NextOf, Start
  <2>7. /\ last' = [i \in Inputs |-> last'[i]] /\ "order" \notin faults'
        /\ \A j \in Inputs : last'[j] = IF Mark(media, k, j) = 2 THEN last[j] ELSE Mark(media, k, j)
    BY <1>2, <2>2, <2>3, <2>4, <2>5, <2>6
  <2>8. \A j \in Inputs : Fed(j) => OrderOf(j)'
    BY <1>1, <2>1, <2>7, HeadIsDue
  <2> QED
    BY <1>2, <1>5, <2>7, <2>8 DEF OrderInv
<1> QED
  BY <1>6, <1>7

LEMMA RestOrders ==
  ASSUME OrderInv, Steady, UNCHANGED <<hFrame, newH, queues, media, number, last, g_q>>, "order" \notin faults',
         \A j \in Inputs : inAt'[j] = inAt[j] \/ (inAt[j] = "read" /\ inAt'[j] = "joined")
  PROVE  OrderInv'
<1>1. Inputs' = Inputs /\ last = [i \in Inputs |-> last[i]] /\ \A j : Fed(j)' = Fed(j)
  BY HeldByAll DEF Fed, Steady, OrderInv
<1>2. /\ \A n \in DOMAIN queues[watched] : Owned(queues[watched][n]) /\ Known(queues[watched][n])
      /\ \A n \in DOMAIN g_q : Owned(g_q[n]) /\ Known(g_q[n])
  BY HeldByAll DEF Steady, Sorted
<1>3. Sorted'
  <2>1. \A j \in Inputs : \A p \in {"create", "new", "send"} : inAt'[j] = p <=> inAt[j] = p
    OBVIOUS
  <2>2. OneSends'
    BY <1>1, <2>1 DEF OneSends, Senders, Steady, Sorted
  <2> QED
    BY <1>2, <2>1, <2>2, SortedKeeps
<1>4. ASSUME NEW j \in Inputs, Fed(j) PROVE OrderOf(j)'
  <2>1. OrderOf(j) /\ Grows
    BY <1>4 DEF OrderInv, Grows
  <2>2. MadeMark(j)' = MadeMark(j) /\ HandMark(j)' = HandMark(j)
    <3>1. Senders' = Senders
      BY <1>1 DEF Senders
    <3> QED
      BY <3>1, MadeStays DEF HandMark, Pending
  <2>3. ASSUME NEW k \in Frames, queues'[watched] = Append(queues[watched], k) PROVE FALSE
    <3>1. queues[watched] \in Seq(Frames)
      BY HeldByAll
    <3> QED
      BY <2>3, <3>1
  <2>4. \A z \in Numbers : Fits(HandMark(j), z, number[j]) => Fits(HandMark(j)', z, number'[j])
    BY <2>2
  <2> QED
    BY <2>1, <2>2, <2>3, <2>4, LineStays
<1> QED
  BY <1>1, <1>3, <1>4 DEF OrderInv

(***************************************************************************)
(* Together.                                                               *)
(***************************************************************************)
OrderedInv == MediaTypes /\ watched \in Outputs \cap Wired /\ OrderInv

LEMMA OrderInit == Init => OrderedInv
<1> SUFFICES ASSUME Init PROVE OrderedInv
  OBVIOUS
<1>1. /\ inAt = [i \in Inputs |-> "read"] /\ hFrame = [i \in Inputs |-> 0] /\ newH = [i \in Inputs |-> 0]
      /\ number = [i \in Inputs |-> 0] /\ media = [k \in Frames |-> None]
      /\ queues = [o \in Outputs |-> << >>] /\ watched \in Outputs /\ last = [i \in Inputs |-> -1] /\ faults = {}
      /\ g_q = << >>
  BY DEF Init, FramesInit, CallbacksInit, Outputs
<1>2. MediaTypes
  BY <1>1 DEF MediaTypes, Carried, AllKinds, Numbers, None
<1>3. Sorted
  BY <1>1 DEF Sorted, OneSends, Senders
<1>4. ASSUME NEW i \in Inputs PROVE OrderOf(i)
  <2>1. << >> \in Seq(Frames) /\ DOMAIN << >> = {} /\ 0 \in Numbers
    BY DEF Numbers
  <2>2. Chain(media, << >>, i, 0, 0)
    BY <2>1, ChainNone
  <2>3. HandMark(i) = 2 /\ MadeMark(i) = 2 /\ Start(i, 0) /\ Fits(2, 0, 0) /\ number[i] = 0 /\ queues[watched] = << >>
    BY <1>1 DEF HandMark, MadeMark, Senders, Start, Fits, Pending
  <2>4. Line(i, 0, 0, 0, 0)
    BY <1>1, <2>2, <2>3 DEF Line
  <2> QED
    BY <2>1, <2>4 DEF OrderOf
<1>5. watched \in Wired
  BY ClientAssumption DEF Init, FramesInit, Wired, SameOutputs, Outputs
<1> QED
  BY <1>1, <1>2, <1>3, <1>4, <1>5 DEF OrderedInv, OrderInv

LEMMA OrderStep ==
  ASSUME ClientInv, ClientInv', OrderedInv, [Next]_vars, ~overlapped'
  PROVE  OrderedInv'
<1>1. OwnersInv /\ OwnersInv' /\ MediaTypes /\ OrderInv /\ watched \in Outputs \cap Wired /\ (program = "synchronizer" => SyncInv)
  BY DEF ClientInv, OrderedInv, SyncInv
<1>2. MediaTypes' /\ MediaKept
  BY <1>1, MediaStep
<1>3. ASSUME UNCHANGED <<program, inputs, watched>> PROVE Steady /\ watched' \in Outputs' \cap Wired'
  BY <1>1, <1>2, <1>3 DEF Steady, OrderInv, Outputs, Wired
<1>4. ASSUME Steady, OrderInv' PROVE OrderedInv'
  BY <1>2, <1>3, <1>4 DEF OrderedInv, Steady
<1>5. CASE Main \/ Signal \/ WinSignal \/ Draw \/ Report \/ UNCHANGED vars
  <2>1. CASE Rests
    <3>1. /\ UNCHANGED <<program, inputs, watched, inAt, hFrame, newH, queues, media, number, last, g_q>>
          /\ "order" \notin faults'
      BY <1>1, <2>1 DEF Rests, OrderInv
    <3> QED
      BY <1>1, <1>3, <1>4, <3>1, RestOrders
  <2>2. ASSUME NEW i \in Inputs, Joins(i) PROVE OrderedInv'
    <3>1. /\ UNCHANGED <<program, inputs, watched, hFrame, newH, queues, media, number, last, g_q, faults>>
          /\ inAt[i] = "read" /\ inAt' = [inAt EXCEPT ![i] = "joined"]
      BY <2>2 DEF Joins, Goes, callbackVars
    <3>2. \A j \in Inputs : inAt'[j] = inAt[j] \/ (inAt[j] = "read" /\ inAt'[j] = "joined")
      BY <1>1, <3>1 DEF OwnersInv, ClientTypes
    <3>3. "order" \notin faults'
      BY <1>1, <3>1 DEF OrderInv
    <3> QED
      BY <1>1, <1>3, <1>4, <3>1, <3>2, <3>3, RestOrders
  <2> QED
    BY <1>5, <2>1, <2>2, MainRests
<1>6. ASSUME NEW i \in Inputs, Reads(i) PROVE OrderedInv'
  <2>1. UNCHANGED <<program, inputs, watched>>
    BY <1>6 DEF Reads, Tick
  <2> QED
    BY <1>1, <1>3, <1>4, <1>6, <2>1, ReadsOrder
<1>7. ASSUME NEW i \in Inputs, CallsBack(i) PROVE OrderedInv'
  <2>1. UNCHANGED <<program, inputs, watched>>
    BY <1>7 DEF CallsBack, Survives, Callback, Adapter, Analyzer, MultInstances, Demuxer, Forwards, Converter, ConverterTick,
       ConverterCreate, ConverterSend, ConverterRelease, Retarder, RetarderPush, RetarderPop, RetarderSend, Synchronizer,
       SyncTick, SyncFirst, SyncSecond, SyncRoute, Probe, ProbeTakes, ProbeReleases, keepsMedia, keepsFrames,
       Shows, VideoPlayer, PlayerTick, PlayerResizes, PlayerCopies, PlayerReleases,
       WinPlayer, WinTick, WinInit, WinQueue, WinReleases, keepsLibrary
  <2>2. Steady
    BY <1>3, <2>1
  <2>3. OrderInv'
    <3>1. CASE Adapter(i) \/ Analyzer(i) \/ MultInstances(i) \/ Demuxer(i)
      BY <1>1, <2>2, <3>1, SendersOrder
    <3>2. CASE Converter(i)
      BY <1>1, <2>2, <3>2, ConverterOrders
    <3>3. CASE Retarder(i)
      BY <1>1, <2>2, <3>3, RetarderOrders
    <3>4. CASE Synchronizer(i)
      <4>1. SyncInv
        BY <1>1, <3>4 DEF Synchronizer
      <4> QED
        BY <1>1, <2>2, <3>4, <4>1, SynchronizerOrders
    <3>5. CASE Probe(i) \/ Shows(i)
      <4>1. program \in {"probe", "videoplayer", "winvideoplayer"}
        BY <3>5 DEF Probe, Shows, VideoPlayer, WinPlayer
      <4> QED
        BY <1>1, <1>7, <2>2, <4>1, QuietOrders
    <3> QED
      BY <1>7, <3>1, <3>2, <3>3, <3>4, <3>5 DEF CallsBack, Callback
  <2> QED
    BY <1>4, <2>2, <2>3
<1>8. ASSUME NEW o \in Outputs, Send(o) PROVE OrderedInv'
  <2>1. UNCHANGED <<program, inputs, watched>>
    BY <1>8 DEF Send, OutSends
  <2> QED
    BY <1>1, <1>3, <1>4, <1>8, <2>1, SendOrders
<1> QED
  BY <1>5, <1>6, <1>7, <1>8 DEF Next

\* What overlapped once is known for ever.
LEMMA OverlapStays == overlapped /\ [Next]_vars => overlapped'
<1> SUFFICES ASSUME overlapped, [Next]_vars PROVE overlapped'
  OBVIOUS
<1>1. Rests \/ (\E i \in Inputs : Joins(i) \/ Reads(i)) \/ (\E o \in Outputs : Send(o)) => overlapped'
  BY DEF Rests, Joins, Reads, Send, callbackVars
<1>2. ASSUME NEW i \in Inputs, CallsBack(i) PROVE overlapped'
  <2>1. UNCHANGED callbackVars => overlapped'
    BY DEF callbackVars
  <2>2. ASSUME NEW outputs, Forwards(i, outputs) PROVE overlapped'
    BY <2>1, <2>2 DEF Forwards
  <2>3. Adapter(i) \/ Analyzer(i) \/ MultInstances(i) \/ Demuxer(i) => overlapped'
    BY <2>2 DEF Adapter, Analyzer, MultInstances, Demuxer
  <2>4. Converter(i) => overlapped'
    BY <2>1, <2>2 DEF Converter, ConverterTick, ConverterCreate, ConverterSend, ConverterRelease
  <2>5. Retarder(i) => overlapped'
    BY <2>1 DEF Retarder, RetarderPush, RetarderPop, RetarderSend
  <2>6. Synchronizer(i) \/ Probe(i) => overlapped'
    BY <2>1 DEF Synchronizer, SyncTick, SyncFirst, SyncSecond, SyncRoute, Probe, ProbeTakes, ProbeReleases
  <2> QED
    BY <1>2, <2>1, <2>3, <2>4, <2>5, <2>6 DEF CallsBack, Callback
<1> QED
  BY <1>1, <1>2, MainRests DEF Next

\* An output sends the video frames of each input in their order and each of them
\* once, whatever program passes them on, however its threads run and for any number of
\* inputs and outputs: the frames of an input that are on their way to an output have
\* consecutive numbers.  The retarder keeps the order until one of its callbacks takes a
\* frame out of the delay line while another one has not sent its own yet.
THEOREM OutputsSendInOrder == Spec => []OutputsKeepOrder
<1> DEFINE Holds == overlapped \/ OrderedInv
<1>1. Init => Holds
  BY OrderInit
<1>2. ClientInv /\ ClientInv' /\ Holds /\ [Next]_vars => Holds'
  BY OrderStep, OverlapStays
<1>3. Holds => OutputsKeepOrder
  BY DEF OrderedInv, OrderInv, OutputsKeepOrder
<1>4. Spec => Init /\ [][Next]_vars
  BY PTL DEF Spec
<1> HIDE DEF Holds
<1> QED
  BY <1>1, <1>2, <1>3, <1>4, ClientAlways, PTL

=============================================================================
