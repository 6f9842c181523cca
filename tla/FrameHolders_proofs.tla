------------------------- MODULE FrameHolders_proofs -------------------------
(***************************************************************************)
(* For any set of holders, any limits and any number of frames: the        *)
(* invariant of the frame pool, and that the pool implements FrameLease.   *)
(***************************************************************************)
EXTENDS FrameHolders, TLAPS, FiniteSetTheorems, SequenceTheorems, WellFoundedInduction

\* FirstOf finds an element of every set of list positions that has one: the
\* loops over g_vMIFramesArray return an item that satisfies their test.
LEMMA FirstOfIsMember ==
  ASSUME NEW S, S \subseteq Nat, S # {}
  PROVE  FirstOf(S) \in S /\ \A j \in S : FirstOf(S) <= j
<1>1. \E k \in S : \A j \in S : <<j, k>> \notin OpToRel(<, Nat)
  BY WFMin, NatLessThanWellFounded
<1>2. \E k \in S : \A j \in S : k <= j
  <2>1. PICK k \in S : \A j \in S : <<j, k>> \notin OpToRel(<, Nat)
    BY <1>1
  <2>2. \A j \in S : ~(j < k)
    BY <2>1 DEF OpToRel
  <2> QED
    BY <2>2
<1> QED
  BY <1>2 DEF FirstOf

\* A handle in use is found at one position, and that is the one returned.
LEMMA FindLive ==
  ASSUME PoolInv, NEW k \in DOMAIN items, ~items[k].free
  PROVE  Find(items[k].handle) = {k} /\ FirstOf(Find(items[k].handle)) = k
<1>1. Find(items[k].handle) = {k}
  BY DEF Find, PoolInv, HandlesUnique
<1>2. k \in Nat
  BY DEF PoolInv, TypeOK, PoolTypeOK
<1> QED
  BY <1>1, <1>2, FirstOfIsMember

\* The holders of h when the holders have what f says.
With(f, h) == {t \in Holders : f[t] = h}

\* How the number of holders of a handle changes when one holder changes.
LEMMA WithChange ==
  ASSUME NEW f \in [Holders -> Int], NEW s \in Holders, NEW h \in Int, NEW g \in Int
  PROVE  LET before == Cardinality(With(f, h))
             after  == Cardinality(With([f EXCEPT ![s] = g], h))
         IN  /\ before \in Nat /\ after \in Nat
             /\ h # g /\ h # f[s] => after = before
             /\ h = g /\ h # f[s] => after = before + 1
             /\ h # g /\ h = f[s] => after = before - 1
             /\ h = f[s] => before > 0
<1> DEFINE f2 == [f EXCEPT ![s] = g]
<1>1. \A e \in [Holders -> Int] : IsFiniteSet(With(e, h)) /\ Cardinality(With(e, h)) \in Nat
  BY FS_Subset, FS_CardinalityType, HoldersAssumption DEF With
<1>2. f2 \in [Holders -> Int]
  OBVIOUS
<1>3. ASSUME h # g, h # f[s]
      PROVE  With(f2, h) = With(f, h)
  BY <1>3 DEF With
<1>4. ASSUME h = g, h # f[s]
      PROVE  Cardinality(With(f2, h)) = Cardinality(With(f, h)) + 1
  <2>1. With(f2, h) = With(f, h) \cup {s} /\ s \notin With(f, h)
    BY <1>4 DEF With
  <2> QED
    BY <1>1, <2>1, FS_AddElement
<1>5. ASSUME h # g, h = f[s]
      PROVE  Cardinality(With(f2, h)) = Cardinality(With(f, h)) - 1
  <2>1. With(f2, h) = With(f, h) \ {s} /\ s \in With(f, h)
    BY <1>5 DEF With
  <2> QED
    BY <1>1, <2>1, FS_RemoveElement
<1>6. ASSUME h = f[s]
      PROVE  Cardinality(With(f, h)) > 0
  <2>1. With(f, h) # {}
    BY <1>6 DEF With
  <2> QED
    BY <1>1, <2>1, FS_EmptySet
<1> QED
  BY <1>1, <1>2, <1>3, <1>4, <1>5, <1>6

\* The invariant, with the types and the counters spelled out.
LEMMA InvFacts ==
  ASSUME PoolInv
  PROVE  /\ items \in Seq(Item) /\ nextHandle \in Nat /\ maxFrames \in Nat
         /\ held \in [Holders -> Int]
         /\ DOMAIN items = 1 .. Len(items) /\ Len(items) \in Nat
         /\ \A k \in DOMAIN items :
              /\ items[k] \in Item /\ items[k].ref \in Int /\ items[k].handle \in Int
              /\ items[k].free => items[k].handle = INVALID /\ items[k].ref = 0
              /\ ~items[k].free => /\ items[k].handle \in 0 .. nextHandle - 1
                                   /\ items[k].ref = Cardinality(With(held, items[k].handle))
                                   /\ items[k].ref > 0
         /\ \A t \in Holders : held[t] # INVALID => held[t] \in 0 .. nextHandle - 1
<1>1. /\ items \in Seq(Item) /\ nextHandle \in Nat /\ maxFrames \in Nat
      /\ held \in [Holders -> Int]
  BY DEF PoolInv, TypeOK, PoolTypeOK
<1>2. DOMAIN items = 1 .. Len(items) /\ Len(items) \in Nat
  BY <1>1
<1>3. \A k \in DOMAIN items : items[k] \in Item
  BY <1>1
<1>4. \A k \in DOMAIN items : items[k].ref \in Int /\ items[k].handle \in Int
  BY <1>3 DEF Item
<1>5. \A k \in DOMAIN items :
              /\ items[k].free => items[k].handle = INVALID /\ items[k].ref = 0
              /\ ~items[k].free => items[k].handle \in 0 .. nextHandle - 1
  BY DEF PoolInv, TypeOK
<1>6. \A k \in DOMAIN items : ~items[k].free =>
        items[k].ref = Cardinality(With(held, items[k].handle)) /\ items[k].ref > 0
  BY DEF PoolInv, RefsCounted, Holding, With
<1>7. \A t \in Holders : held[t] # INVALID => held[t] \in 0 .. nextHandle - 1
  BY <1>5 DEF PoolInv, HeldIsLive
<1> QED
  BY <1>1, <1>2, <1>3, <1>4, <1>5, <1>6, <1>7

\* The invariant holds at first: the list is empty and nobody holds a frame.
LEMMA InitInv == Init => PoolInv
BY MaxFramesAssumption DEF Init, PoolInit, PoolInv, TypeOK, PoolTypeOK, HandlesUnique,
     HeldIsLive, RefsCounted, Item, INVALID

\* A frame handed out for the first time: its handle is new, so only its holder
\* has it, and no other item answers to it.
LEMMA CreateInv ==
  ASSUME PoolInv, NEW s \in Holders, Create(s)
  PROVE  PoolInv'
<1> USE DEF INVALID
<1>0. /\ items \in Seq(Item) /\ nextHandle \in Nat /\ maxFrames \in Nat
      /\ held \in [Holders -> Int]
      /\ DOMAIN items = 1 .. Len(items) /\ Len(items) \in Nat
  BY InvFacts
<1>1. PICK h \in {nextHandle, INVALID} :
        FrameCreate(h) /\ held' = [held EXCEPT ![s] = h]
  BY DEF Create
<1>2. held[s] = INVALID /\ maxFrames' = maxFrames
  BY <1>1 DEF Create, FrameCreate
<1>3. \A t \in Holders : held[t] # nextHandle
  BY InvFacts
<1>4. Cardinality(With(held, nextHandle)) = 0
  BY <1>3, FS_EmptySet DEF With
<1>5. CASE h = INVALID
  <2>1. held' = held
    BY <1>0, <1>1, <1>2, <1>5
  <2>2. items' = items /\ nextHandle' = nextHandle
    BY <1>0, <1>1, <1>5 DEF FrameCreate
  <2> QED
    BY <2>1, <2>2, <1>2 DEF PoolInv, TypeOK, PoolTypeOK, HandlesUnique, HeldIsLive,
       RefsCounted, Holding
<1>6. CASE h = nextHandle
  <2> DEFINE new == [handle |-> nextHandle, ref |-> 1, free |-> FALSE]
  <2>1. nextHandle' = nextHandle + 1
    BY <1>0, <1>1, <1>6 DEF FrameCreate, ReuseItem, AddItem
  <2>2. \E n \in DOMAIN items' :
          /\ items' \in Seq(Item)
          /\ DOMAIN items \subseteq DOMAIN items'
          /\ DOMAIN items' \subseteq DOMAIN items \cup {n}
          /\ items'[n] = new
          /\ \A k \in DOMAIN items : k # n => items'[k] = items[k]
          /\ n \in DOMAIN items => items[n].free
    <3>1. CASE ReuseItem
      <4>0. FreeItems \subseteq Nat /\ FreeItems # {}
        BY <1>0, <3>1 DEF ReuseItem, FreeItems
      <4>1. FirstOf(FreeItems) \in FreeItems
        BY <4>0, FirstOfIsMember
      <4>2. items[FirstOf(FreeItems)].ref = 0 /\ FirstOf(FreeItems) \in DOMAIN items
            /\ items[FirstOf(FreeItems)].free
        BY <4>1 DEF FreeItems, PoolInv, TypeOK
      <4>3. items' = [items EXCEPT ![FirstOf(FreeItems)] = new]
        BY <3>1, <4>2 DEF ReuseItem
      <4>4. new \in Item
        BY <1>0 DEF Item
      <4>5. /\ items' \in Seq(Item) /\ DOMAIN items' = DOMAIN items
            /\ items'[FirstOf(FreeItems)] = new
            /\ \A k \in DOMAIN items : k # FirstOf(FreeItems) => items'[k] = items[k]
        BY <1>0, <4>2, <4>3, <4>4
      <4> QED
        BY <4>2, <4>5
    <3>2. CASE AddItem
      <4>1. items' = Append(items, new)
        BY <3>2 DEF AddItem
      <4>2. /\ items' \in Seq(Item) /\ Len(items') = Len(items) + 1
            /\ DOMAIN items' = 1 .. Len(items) + 1
            /\ items'[Len(items) + 1] = new
            /\ \A k \in 1 .. Len(items) : items'[k] = items[k]
        <5>1. new \in Item
          BY <1>0 DEF Item
        <5> QED
          BY <1>0, <4>1, <5>1, AppendProperties
      <4> QED
        BY <1>0, <4>2
    <3> QED
      BY <1>0, <1>1, <1>6, <3>1, <3>2, SMTT(60) DEF FrameCreate
  <2>3. PICK n \in DOMAIN items' :
          /\ items' \in Seq(Item)
          /\ DOMAIN items \subseteq DOMAIN items'
          /\ DOMAIN items' \subseteq DOMAIN items \cup {n}
          /\ items'[n] = new
          /\ \A k \in DOMAIN items : k # n => items'[k] = items[k]
          /\ n \in DOMAIN items => items[n].free
    BY <2>2
  <2>4. held' = [held EXCEPT ![s] = nextHandle]
    BY <1>1, <1>6
  <2>5. TypeOK'
    BY <1>0, <1>2, <2>1, <2>3, <2>4 DEF TypeOK, PoolTypeOK, PoolInv
  <2>6. HandlesUnique'
    <3>1. \A k \in DOMAIN items : items[k].handle # nextHandle
      BY <1>0 DEF PoolInv, TypeOK
    <3> QED
      BY <2>3, <3>1 DEF HandlesUnique, PoolInv
  <2>7. HeldIsLive'
    <3> SUFFICES ASSUME NEW t \in Holders, held'[t] # INVALID
                 PROVE  \E k \in DOMAIN items' : items'[k].handle = held'[t] /\ ~items'[k].free
      BY DEF HeldIsLive
    <3>1. CASE t = s
      BY <1>0, <2>3, <2>4, <3>1
    <3>2. CASE t # s
      <4>1. held'[t] = held[t]
        BY <1>0, <2>4, <3>2
      <4>2. PICK k \in DOMAIN items : items[k].handle = held[t] /\ ~items[k].free
        BY <4>1 DEF PoolInv, HeldIsLive
      <4>3. k # n
        BY <2>3, <4>2
      <4> QED
        BY <2>3, <4>1, <4>2, <4>3
    <3> QED
      BY <3>1, <3>2
  <2>8. RefsCounted'
    <3> SUFFICES ASSUME NEW k \in DOMAIN items', ~items'[k].free
                 PROVE  /\ items'[k].ref = Cardinality(With(held', items'[k].handle))
                        /\ items'[k].ref > 0
      BY DEF RefsCounted, Holding, With
    <3>1. CASE k = n
      <4>1. Cardinality(With(held', nextHandle)) = 1
        <5>1. nextHandle \in Int /\ nextHandle # held[s]
          BY <1>0, <1>2
        <5>2. Cardinality(With([held EXCEPT ![s] = nextHandle], nextHandle))
                = Cardinality(With(held, nextHandle)) + 1
          BY <1>0, <5>1, WithChange
        <5> QED
          BY <1>4, <2>4, <5>2
      <4> QED
        BY <3>1, <2>3, <4>1
    <3>2. CASE k # n
      <4>1. items'[k] = items[k] /\ k \in DOMAIN items /\ ~items[k].free
        BY <3>2, <2>3
      <4>2. items[k].handle \in 0 .. nextHandle - 1
        BY <4>1, InvFacts
      <4>3. Cardinality(With(held', items[k].handle)) = Cardinality(With(held, items[k].handle))
        <5>1. /\ items[k].handle \in Int /\ nextHandle \in Int
              /\ items[k].handle # nextHandle /\ items[k].handle # held[s]
          BY <1>0, <1>2, <4>2
        <5>2. Cardinality(With([held EXCEPT ![s] = nextHandle], items[k].handle))
                = Cardinality(With(held, items[k].handle))
          BY <1>0, <5>1, WithChange
        <5> QED
          BY <2>4, <5>2
      <4> QED
        BY <4>1, <4>3, InvFacts
    <3> QED
      BY <3>1, <3>2
  <2> QED
    BY <2>5, <2>6, <2>7, <2>8 DEF PoolInv
<1> QED
  BY <1>1, <1>5, <1>6

\* The item a holder's handle leads to.
LEMMA HeldItem ==
  ASSUME PoolInv, NEW s \in Holders, held[s] # INVALID
  PROVE  \E k \in DOMAIN items :
           /\ ~items[k].free /\ items[k].handle = held[s]
           /\ Find(held[s]) = {k} /\ FirstOf(Find(held[s])) = k
<1>1. PICK k \in DOMAIN items : items[k].handle = held[s] /\ ~items[k].free
  BY DEF PoolInv, HeldIsLive
<1> QED
  BY <1>1, FindLive

\* A further reference adds one to the counter and one to the holders.
LEMMA ShareInv ==
  ASSUME PoolInv, NEW s \in Holders, NEW t \in Holders, Share(s, t)
  PROVE  PoolInv'
<1> DEFINE h == held[s]
<1>0. /\ items \in Seq(Item) /\ nextHandle \in Nat /\ maxFrames \in Nat
      /\ held \in [Holders -> Int] /\ h \in Int
      /\ DOMAIN items = 1 .. Len(items) /\ Len(items) \in Nat
  BY InvFacts
<1>1. PICK k \in DOMAIN items :
        /\ ~items[k].free /\ items[k].handle = h
        /\ Find(h) = {k} /\ FirstOf(Find(h)) = k
  BY HeldItem DEF Share
<1>2. /\ held[t] = INVALID /\ h # INVALID /\ held' = [held EXCEPT ![t] = h]
      /\ nextHandle' = nextHandle /\ maxFrames' = maxFrames
  BY DEF Share, FrameAddRef
<1> DEFINE new == [items[k] EXCEPT !.ref = items[k].ref + 1]
<1>3. new \in Item /\ new.handle = h /\ new.ref = items[k].ref + 1 /\ ~new.free
      /\ items[k].ref \in Int
  BY <1>0, <1>1, InvFacts DEF Item
<1>4. items' = [items EXCEPT ![k] = new]
  BY <1>1 DEF Share, FrameAddRef
<1> HIDE DEF new
<1>5. /\ items' \in Seq(Item) /\ DOMAIN items' = DOMAIN items /\ items'[k] = new
      /\ \A j \in DOMAIN items : j # k => items'[j] = items[j]
  BY <1>0, <1>3, <1>4
<1>6. TypeOK'
  BY <1>0, <1>1, <1>2, <1>3, <1>5, InvFacts DEF TypeOK, PoolTypeOK
<1>7. HandlesUnique'
  BY <1>1, <1>3, <1>5 DEF HandlesUnique, PoolInv
<1>8. HeldIsLive'
  <2> SUFFICES ASSUME NEW u \in Holders, held'[u] # INVALID
               PROVE  \E j \in DOMAIN items' : items'[j].handle = held'[u] /\ ~items'[j].free
    BY DEF HeldIsLive
  <2>1. CASE held'[u] = h
    BY <1>3, <1>5, <2>1
  <2>2. CASE held'[u] # h
    <3>1. held'[u] = held[u]
      BY <1>0, <1>2, <2>2
    <3>2. PICK j \in DOMAIN items : items[j].handle = held[u] /\ ~items[j].free
      BY <3>1 DEF PoolInv, HeldIsLive
    <3> QED
      BY <1>1, <1>5, <2>2, <3>1, <3>2
  <2> QED
    BY <2>1, <2>2
<1>9. RefsCounted'
  <2> SUFFICES ASSUME NEW j \in DOMAIN items', ~items'[j].free
               PROVE  /\ items'[j].ref = Cardinality(With(held', items'[j].handle))
                      /\ items'[j].ref > 0
    BY DEF RefsCounted, Holding, With
  <2>1. CASE j = k
    <3>1. Cardinality(With([held EXCEPT ![t] = h], h)) = Cardinality(With(held, h)) + 1
      BY <1>0, <1>2, WithChange
    <3>2. items[k].ref = Cardinality(With(held, h)) /\ items[k].ref > 0
      BY <1>1, InvFacts
    <3> QED
      BY <1>2, <1>3, <1>5, <2>1, <3>1, <3>2
  <2>2. CASE j # k
    <3> DEFINE g == items[j].handle
    <3>1. items'[j] = items[j] /\ j \in DOMAIN items /\ ~items[j].free
      BY <1>5, <2>2
    <3>2. g # h /\ g \in Int /\ g # INVALID
      BY <1>0, <1>1, <2>2, <3>1, InvFacts DEF PoolInv, HandlesUnique, INVALID
    <3>3. Cardinality(With([held EXCEPT ![t] = h], g)) = Cardinality(With(held, g))
      BY <1>0, <1>2, <3>2, WithChange
    <3> QED
      BY <1>2, <3>1, <3>3, InvFacts
  <2> QED
    BY <2>1, <2>2
<1> QED
  BY <1>6, <1>7, <1>8, <1>9 DEF PoolInv

\* A reference that changes hands: as many holders as before.
LEMMA HandOverInv ==
  ASSUME PoolInv, NEW s \in Holders, NEW t \in Holders, HandOver(s, t)
  PROVE  PoolInv'
<1> DEFINE h == held[s]
           mid == [held EXCEPT ![t] = h]
<1>0. /\ items \in Seq(Item) /\ nextHandle \in Nat /\ maxFrames \in Nat
      /\ held \in [Holders -> Int] /\ h \in Int /\ INVALID \in Int
      /\ DOMAIN items = 1 .. Len(items) /\ Len(items) \in Nat
  BY InvFacts DEF INVALID
<1>1. /\ h # INVALID /\ held[t] = INVALID /\ s # t
      /\ items' = items /\ nextHandle' = nextHandle /\ maxFrames' = maxFrames
  BY DEF HandOver, poolVars
<1>2. /\ mid \in [Holders -> Int] /\ mid[s] = h
      /\ held' = [mid EXCEPT ![s] = INVALID]
  BY <1>0, <1>1 DEF HandOver
<1>3. \A g \in Int : g # INVALID =>
        Cardinality(With(held', g)) = Cardinality(With(held, g))
  <2> SUFFICES ASSUME NEW g \in Int, g # INVALID
               PROVE  Cardinality(With([mid EXCEPT ![s] = INVALID], g))
                        = Cardinality(With(held, g))
    BY <1>2
  <2>1. /\ Cardinality(With(mid, g)) \in Nat /\ Cardinality(With(held, g)) \in Nat
        /\ g = h => Cardinality(With(mid, g)) = Cardinality(With(held, g)) + 1
        /\ g # h => Cardinality(With(mid, g)) = Cardinality(With(held, g))
    <3>1. held[t] # g /\ (g = h => g # held[t])
      BY <1>1
    <3>2. /\ Cardinality(With([held EXCEPT ![t] = h], g)) \in Nat /\ Cardinality(With(held, g)) \in Nat
          /\ g = h => Cardinality(With([held EXCEPT ![t] = h], g)) = Cardinality(With(held, g)) + 1
          /\ g # h => Cardinality(With([held EXCEPT ![t] = h], g)) = Cardinality(With(held, g))
      BY <1>0, <3>1, WithChange
    <3> QED
      BY <3>2
  <2> HIDE DEF mid
  <2>2. ASSUME g = h
        PROVE  Cardinality(With([mid EXCEPT ![s] = INVALID], g)) = Cardinality(With(mid, g)) - 1
    <3>1. mid \in [Holders -> Int] /\ g = mid[s] /\ INVALID \in Int
      BY <1>0, <1>2, <2>2
    <3> QED
      BY <3>1, WithChange
  <2>3. ASSUME g # h
        PROVE  Cardinality(With([mid EXCEPT ![s] = INVALID], g)) = Cardinality(With(mid, g))
    <3>1. mid \in [Holders -> Int] /\ g # mid[s] /\ INVALID \in Int
      BY <1>0, <1>2, <2>3
    <3> QED
      BY <3>1, WithChange
  <2> QED
    BY <2>1, <2>2, <2>3
<1>4. TypeOK'
  BY <1>0, <1>1, <1>2 DEF TypeOK, PoolTypeOK, PoolInv
<1>5. HandlesUnique'
  BY <1>1 DEF HandlesUnique, PoolInv
<1>6. HeldIsLive'
  <2>1. \A u \in Holders : held'[u] # INVALID => \E v \in Holders : held'[u] = held[v]
    BY <1>0, <1>1, <1>2
  <2> QED
    BY <1>1, <2>1 DEF HeldIsLive, PoolInv
<1>7. RefsCounted'
  <2> SUFFICES ASSUME NEW j \in DOMAIN items, ~items[j].free
               PROVE  /\ items[j].ref = Cardinality(With(held', items[j].handle))
                      /\ items[j].ref > 0
    BY <1>1 DEF RefsCounted, Holding, With
  <2>1. items[j].handle \in Int /\ items[j].handle # INVALID
    BY <1>0, InvFacts DEF INVALID
  <2> QED
    BY <1>3, <2>1, InvFacts
<1> QED
  BY <1>4, <1>5, <1>6, <1>7 DEF PoolInv

\* A reference given back: the last one frees the item, and nobody else had it.
LEMMA ReleaseInv ==
  ASSUME PoolInv, NEW s \in Holders, Release(s)
  PROVE  PoolInv'
<1> DEFINE h == held[s]
<1>0. /\ items \in Seq(Item) /\ nextHandle \in Nat /\ maxFrames \in Nat
      /\ held \in [Holders -> Int] /\ h \in Int /\ INVALID \in Int
      /\ DOMAIN items = 1 .. Len(items) /\ Len(items) \in Nat
  BY InvFacts DEF INVALID
<1>1. PICK k \in DOMAIN items :
        /\ ~items[k].free /\ items[k].handle = h
        /\ Find(h) = {k} /\ FirstOf(Find(h)) = k
  BY HeldItem DEF Release
<1>2. /\ h # INVALID /\ held' = [held EXCEPT ![s] = INVALID]
      /\ nextHandle' = nextHandle /\ maxFrames' = maxFrames
  BY DEF Release, FrameRelease
<1> DEFINE new == Released(items[k])
<1>3. items[k] \in Item /\ items[k].ref = Cardinality(With(held, h)) /\ items[k].ref > 0
      /\ items[k].ref \in Int
  BY <1>1, InvFacts
<1>4. /\ new \in Item
      /\ items[k].ref = 1 => new.handle = INVALID /\ new.ref = 0 /\ new.free
      /\ items[k].ref # 1 => new.handle = h /\ new.ref = items[k].ref - 1 /\ ~new.free
  <2>1. items[k].handle = h /\ items[k].free = FALSE /\ items[k].ref - 1 \in Int
    BY <1>1, <1>3 DEF Item
  <2>2. CASE items[k].ref = 1
    BY <1>0, <2>2 DEF Released, Item
  <2>3. CASE items[k].ref # 1
    BY <1>3, <2>1, <2>3 DEF Released, Item
  <2> QED
    BY <2>2, <2>3
<1>5. items' = [items EXCEPT ![k] = new]
  BY <1>1 DEF Release, FrameRelease
<1> HIDE DEF new
<1>6. /\ items' \in Seq(Item) /\ DOMAIN items' = DOMAIN items /\ items'[k] = new
      /\ \A j \in DOMAIN items : j # k => items'[j] = items[j]
  BY <1>0, <1>4, <1>5
<1>7. Cardinality(With(held', h)) = items[k].ref - 1
  <2>1. Cardinality(With([held EXCEPT ![s] = INVALID], h)) = Cardinality(With(held, h)) - 1
    BY <1>0, <1>2, WithChange
  <2> QED
    BY <1>2, <1>3, <2>1
<1>8. \A g \in Int : g # h /\ g # INVALID =>
        Cardinality(With(held', g)) = Cardinality(With(held, g))
  <2> SUFFICES ASSUME NEW g \in Int, g # h, g # INVALID
               PROVE  Cardinality(With([held EXCEPT ![s] = INVALID], g))
                        = Cardinality(With(held, g))
    BY <1>2
  <2> QED
    BY <1>0, WithChange
<1>9. TypeOK'
  BY <1>0, <1>1, <1>2, <1>4, <1>6, InvFacts DEF TypeOK, PoolTypeOK
<1>10. HandlesUnique'
  <2> SUFFICES ASSUME NEW i \in DOMAIN items', NEW j \in DOMAIN items',
                      items'[i].handle = items'[j].handle, ~items'[i].free
               PROVE  i = j
    BY DEF HandlesUnique
  <2>1. CASE i # k /\ j # k
    BY <1>6, <2>1 DEF PoolInv, HandlesUnique
  <2>2. CASE i = k /\ j # k
    <3>1. new.handle = h /\ items[j].handle = h
      BY <1>4, <1>6, <2>2
    <3> QED
      BY <1>1, <1>6, <2>2, <3>1 DEF PoolInv, HandlesUnique
  <2>3. CASE i # k /\ j = k
    <3>1. items[i].handle \in 0 .. nextHandle - 1 /\ items[i].handle = new.handle /\ ~items[i].free
      BY <1>6, <2>3, InvFacts
    <3>2. items[i].handle = h
      BY <1>0, <1>4, <3>1 DEF INVALID
    <3> QED
      BY <1>1, <1>6, <2>3, <3>1, <3>2 DEF PoolInv, HandlesUnique
  <2> QED
    BY <2>1, <2>2, <2>3
<1>11. HeldIsLive'
  <2> SUFFICES ASSUME NEW u \in Holders, held'[u] # INVALID
               PROVE  \E j \in DOMAIN items' : items'[j].handle = held'[u] /\ ~items'[j].free
    BY DEF HeldIsLive
  <2>1. held'[u] = held[u] /\ u # s
    BY <1>0, <1>2
  <2>2. PICK j \in DOMAIN items : items[j].handle = held[u] /\ ~items[j].free
    BY <2>1 DEF PoolInv, HeldIsLive
  <2>3. CASE j # k
    BY <1>6, <2>1, <2>2, <2>3
  <2>4. CASE j = k
    <3>1. u \in With(held', h)
      BY <1>1, <2>1, <2>2, <2>4 DEF With
    <3>2. IsFiniteSet(With(held', h))
      BY FS_Subset, HoldersAssumption DEF With
    <3>3. Cardinality(With(held', h)) # 0
      BY <3>1, <3>2, FS_EmptySet
    <3> QED
      BY <1>1, <1>3, <1>4, <1>6, <1>7, <2>1, <2>2, <2>4, <3>3
  <2> QED
    BY <2>3, <2>4
<1>12. RefsCounted'
  <2> SUFFICES ASSUME NEW j \in DOMAIN items', ~items'[j].free
               PROVE  /\ items'[j].ref = Cardinality(With(held', items'[j].handle))
                      /\ items'[j].ref > 0
    BY DEF RefsCounted, Holding, With
  <2>1. CASE j = k
    BY <1>3, <1>4, <1>6, <1>7, <2>1
  <2>2. CASE j # k
    <3> DEFINE g == items[j].handle
    <3>1. items'[j] = items[j] /\ j \in DOMAIN items /\ ~items[j].free
      BY <1>6, <2>2
    <3>2. g # h /\ g \in Int /\ g # INVALID
      BY <1>0, <1>1, <2>2, <3>1, InvFacts DEF PoolInv, HandlesUnique, INVALID
    <3> QED
      BY <1>8, <3>1, <3>2, InvFacts
  <2> QED
    BY <2>1, <2>2
<1> QED
  BY <1>9, <1>10, <1>11, <1>12 DEF PoolInv

\* A handle nobody holds is not in the list: the call finds nothing to change.
LEMMA StaleHandle ==
  ASSUME PoolInv, NEW h \in 0 .. nextHandle - 1, Holding(h) = {}
  PROVE  Find(h) = {}
<1>1. Cardinality(With(held, h)) = 0
  BY FS_EmptySet DEF Holding, With
<1> QED
  BY <1>1, InvFacts DEF Find, INVALID

LEMMA UseStaleInv ==
  ASSUME PoolInv, NEW h \in 0 .. nextHandle - 1, UseStale(h)
  PROVE  UNCHANGED vars
BY StaleHandle DEF UseStale, FrameRelease, FrameAddRef, vars

\* Every step keeps the invariant.
LEMMA NextInv == PoolInv /\ [Next]_vars => PoolInv'
<1> SUFFICES ASSUME PoolInv, [Next]_vars
             PROVE  PoolInv'
  OBVIOUS
<1>1. ASSUME UNCHANGED vars
      PROVE  PoolInv'
  BY <1>1 DEF vars, PoolInv, TypeOK, PoolTypeOK, HandlesUnique, HeldIsLive, RefsCounted, Holding
<1>2. ASSUME NEW n \in MaxLists, SetLimit(n)
      PROVE  PoolInv'
  <2>1. n \in Nat /\ maxFrames' = n
        /\ items' = items /\ nextHandle' = nextHandle /\ held' = held
    BY <1>2, HoldersAssumption DEF SetLimit, SetMaxFrames
  <2>2. TypeOK'
    BY <2>1 DEF PoolInv, TypeOK, PoolTypeOK
  <2>3. HandlesUnique' /\ HeldIsLive' /\ RefsCounted'
    BY <2>1 DEF PoolInv, HandlesUnique, HeldIsLive, RefsCounted, Holding
  <2> QED
    BY <2>2, <2>3 DEF PoolInv
<1> QED
  BY <1>1, <1>2, CreateInv, ReleaseInv, ShareInv, HandOverInv, UseStaleInv DEF Next

\* The pool invariant holds in every reachable state, whatever the number of
\* holders and of frames.
THEOREM PoolInvariant == Spec => []PoolInv
BY InitInv, NextInv, PTL DEF Spec

\* The reference counters are right: no frame is freed while it is held, and
\* none stays in use when nobody holds it.
THEOREM RefsAreCounted == Spec => [](RefsCounted /\ HeldIsLive)
<1>1. PoolInv => RefsCounted /\ HeldIsLive
  BY DEF PoolInv
<1> QED
  BY <1>1, PoolInvariant, PTL

\* A request fails only when the limit is reached by frames that are all held.
LEMMA FullMeansHeld == PoolInv => NoLostItem
<1> SUFFICES ASSUME PoolInv, ListFull
             PROVE  Cardinality(LiveHandles) >= maxFrames
  BY DEF NoLostItem
<1> DEFINE f == [k \in 1 .. Len(items) |-> items[k].handle]
<1>1. Len(items) \in Nat /\ DOMAIN items = 1 .. Len(items) /\ maxFrames \in Nat
      /\ held \in [Holders -> Int]
  BY InvFacts
<1>2. \A k \in DOMAIN items : ~items[k].free
  BY DEF ListFull, FreeItems
<1>3. ASSUME NEW k \in DOMAIN items
      PROVE  items[k].handle \in LiveHandles
  <2>1. Cardinality(With(held, items[k].handle)) # 0 /\ items[k].handle # INVALID
    BY <1>2, InvFacts DEF INVALID
  <2>2. With(held, items[k].handle) # {}
    BY <2>1, FS_EmptySet
  <2> QED
    BY <2>1, <2>2 DEF With, LiveHandles
<1>4. f \in Injection(1 .. Len(items), LiveHandles)
  <2>1. f \in [1 .. Len(items) -> LiveHandles]
    BY <1>1, <1>3
  <2>2. \A j, k \in 1 .. Len(items) : f[j] = f[k] => j = k
    BY <1>1, <1>2 DEF PoolInv, HandlesUnique
  <2> QED
    BY <2>1, <2>2 DEF Injection, IsInjective
<1>5. IsFiniteSet(LiveHandles)
  <2> DEFINE g == [s \in Holders |-> held[s]]
  <2>1. g \in Surjection(Holders, {held[s] : s \in Holders})
    BY DEF Surjection
  <2>2. IsFiniteSet({held[s] : s \in Holders})
    BY <2>1, FS_Surjection, HoldersAssumption
  <2> QED
    BY <2>2, FS_Subset DEF LiveHandles
<1>6. Cardinality(1 .. Len(items)) <= Cardinality(LiveHandles)
  BY <1>4, <1>5, FS_Injection
<1>7. Cardinality(1 .. Len(items)) = Len(items)
  BY <1>1, FS_Interval
<1>8. Cardinality(LiveHandles) \in Nat
  BY <1>5, FS_CardinalityType
<1> QED
  BY <1>1, <1>6, <1>7, <1>8 DEF ListFull

\* No item of the list is ever lost: whenever libvmi_frame_create fails, as many
\* different frames as the limit allows are in the hands of the clients.
THEOREM NoItemIsLost == Spec => []NoLostItem
BY FullMeansHeld, PoolInvariant, PTL

------------------------------------------------------------------------------

\* A step never puts another handle in the place of one in use: an item in use
\* after it had its handle before it, or got the handle just drawn.
LEMMA StepKeepsItems ==
  ASSUME PoolInv, PoolInv', [Next]_vars
  PROVE  \A k \in DOMAIN items' : ~items'[k].free =>
           \/ k \in DOMAIN items /\ ~items[k].free /\ items'[k].handle = items[k].handle
           \/ items'[k].handle = nextHandle
<1> SUFFICES ASSUME NEW k \in DOMAIN items', ~items'[k].free
             PROVE  \/ k \in DOMAIN items /\ ~items[k].free /\ items'[k].handle = items[k].handle
                    \/ items'[k].handle = nextHandle
  OBVIOUS
<1>0. /\ items \in Seq(Item) /\ nextHandle \in Nat
      /\ DOMAIN items = 1 .. Len(items) /\ Len(items) \in Nat
  BY InvFacts
<1>1. CASE UNCHANGED items
  BY <1>1
<1>2. CASE \E s \in Holders : Create(s)
  <2>1. CASE ReuseItem
    BY <1>0, <2>1 DEF ReuseItem
  <2>2. CASE AddItem
    <3>1. [handle |-> nextHandle, ref |-> 1, free |-> FALSE] \in Item
      BY <1>0 DEF Item
    <3> QED
      BY <1>0, <2>2, <3>1, AppendProperties DEF AddItem
  <2> QED
    BY <1>1, <1>2, <2>1, <2>2 DEF Create, FrameCreate
<1>3. ASSUME NEW s \in Holders, NEW t \in Holders, Share(s, t)
      PROVE  k \in DOMAIN items /\ ~items[k].free /\ items'[k].handle = items[k].handle
  <2>1. PICK j \in DOMAIN items : Find(held[s]) = {j} /\ FirstOf(Find(held[s])) = j
    BY <1>3, HeldItem DEF Share
  <2>2. items' = [items EXCEPT ![j].ref = @ + 1]
    BY <1>3, <2>1 DEF Share, FrameAddRef
  <2>3. items[k] \in Item
    BY <1>0, <2>2
  <2> QED
    BY <1>0, <2>2, <2>3 DEF Item
<1>4. ASSUME NEW s \in Holders, Release(s)
      PROVE  k \in DOMAIN items /\ ~items[k].free /\ items'[k].handle = items[k].handle
  <2>1. PICK j \in DOMAIN items : ~items[j].free /\ Find(held[s]) = {j} /\ FirstOf(Find(held[s])) = j
    BY <1>4, HeldItem DEF Release
  <2>2. items' = [items EXCEPT ![j] = Released(items[j])]
    BY <1>4, <2>1 DEF Release, FrameRelease
  <2>3. items[k] \in Item /\ items[j] \in Item /\ k \in DOMAIN items
    BY <1>0, <2>2
  <2>4. CASE k = j
    <3>1. items'[j] = Released(items[j])
      BY <1>0, <2>2
    <3>2. items[j].ref # 1
      BY <2>4, <3>1 DEF Released
    <3> QED
      BY <2>1, <2>3, <2>4, <3>1, <3>2 DEF Released, Item
  <2>5. CASE k # j
    BY <1>0, <2>2, <2>3, <2>5
  <2> QED
    BY <2>4, <2>5
<1>5. ASSUME NEW h \in 0 .. nextHandle - 1, UseStale(h)
      PROVE  UNCHANGED items
  BY <1>5, UseStaleInv DEF vars
<1> QED
  BY <1>1, <1>2, <1>3, <1>4, <1>5 DEF Next, HandOver, SetLimit, SetMaxFrames, poolVars, vars

\* A live handle is found at one position of the list, where it is in use.
LEMMA LiveItem ==
  ASSUME PoolInv, NEW h \in LiveHandles
  PROVE  /\ h \in 0 .. nextHandle - 1
         /\ FrameGet(h) \in DOMAIN items
         /\ items[FrameGet(h)].handle = h /\ ~items[FrameGet(h)].free
<1>1. PICK s \in Holders : held[s] = h /\ h # INVALID
  BY DEF LiveHandles
<1>2. PICK k \in DOMAIN items :
        ~items[k].free /\ items[k].handle = h /\ Find(h) = {k} /\ FirstOf(Find(h)) = k
  BY <1>1, HeldItem
<1>3. FrameGet(h) = k
  BY <1>2 DEF FrameGet
<1> QED
  BY <1>2, <1>3, InvFacts

\* The same fact after a step.
LEMMA LiveItemNext ==
  ASSUME PoolInv', NEW h \in LiveHandles'
  PROVE  /\ FrameGet(h)' \in DOMAIN items'
         /\ items'[FrameGet(h)'].handle = h /\ ~items'[FrameGet(h)'].free
<1>1. PICK s \in Holders : held'[s] = h /\ h # INVALID
  BY DEF LiveHandles
<1>2. PICK k \in DOMAIN items' : items'[k].handle = h /\ ~items'[k].free
  BY <1>1 DEF PoolInv, HeldIsLive
<1>3. Find(h)' = {k} /\ k \in Nat
  BY <1>2 DEF Find, PoolInv, HandlesUnique, TypeOK, PoolTypeOK
<1>4. FirstOf(Find(h)') = k
  BY <1>3, FirstOfIsMember
<1>5. FrameGet(h)' = k
  BY <1>3, <1>4 DEF FrameGet, FirstOf
<1> QED
  BY <1>2, <1>5

\* A handle that stays live keeps naming the same frame object.
LEMMA ObjectsStay ==
  ASSUME PoolInv, PoolInv', [Next]_vars
  PROVE  /\ DOMAIN [h \in LiveHandles |-> FrameGet(h)]' = LiveHandles'
         /\ \A h \in LiveHandles \cap LiveHandles' :
              [g \in LiveHandles |-> FrameGet(g)]'[h] = [g \in LiveHandles |-> FrameGet(g)][h]
<1>1. ASSUME NEW h \in LiveHandles, h \in LiveHandles'
      PROVE  FrameGet(h)' = FrameGet(h)
  <2> DEFINE k == FrameGet(h)'
  <2>1. k \in DOMAIN items' /\ items'[k].handle = h /\ ~items'[k].free
    BY <1>1, LiveItemNext
  <2>2. h # nextHandle
    BY LiveItem, InvFacts
  <2>3. k \in DOMAIN items /\ items[k].handle = h /\ ~items[k].free
    BY <2>1, <2>2, StepKeepsItems
  <2> QED
    BY <2>3, LiveItem DEF PoolInv, HandlesUnique
<1> QED
  BY <1>1

\* Every step of the pool is a step of the leases, or none.
LEMMA StepRefines ==
  ASSUME PoolInv, PoolInv', [Next]_vars
  PROVE  [Lease!Next]_(Lease!leaseVars)
<1> DEFINE object == [h \in LiveHandles |-> FrameGet(h)]
<1>0. held \in [Holders -> Int] /\ nextHandle \in Nat
  BY InvFacts
<1>1. Lease!Live = LiveHandles /\ Lease!Live' = LiveHandles'
  BY DEF Lease!Live, LiveHandles
<1>2. Lease!KeepsObjects
  BY <1>1, ObjectsStay DEF Lease!KeepsObjects
<1>3. ASSUME nextHandle' = nextHandle, held' = held
      PROVE  UNCHANGED Lease!leaseVars
  <2>1. LiveHandles' = LiveHandles
    BY <1>3 DEF LiveHandles
  <2>2. object' = object
    BY <2>1, ObjectsStay
  <2> QED
    BY <1>3, <2>2 DEF Lease!leaseVars
<1>4. ASSUME NEW s \in Holders, Create(s)
      PROVE  Lease!Grant(s) \/ UNCHANGED Lease!leaseVars
  <2>1. PICK h \in {nextHandle, INVALID} :
          FrameCreate(h) /\ held' = [held EXCEPT ![s] = h] /\ held[s] = INVALID
    BY <1>4 DEF Create
  <2>2. CASE h = INVALID
    <3>1. nextHandle' = nextHandle /\ held' = held
      BY <1>0, <2>1, <2>2 DEF FrameCreate, INVALID
    <3> QED
      BY <1>3, <3>1
  <2>3. CASE h = nextHandle
    <3>1. nextHandle' = nextHandle + 1 /\ held'[s] = nextHandle /\ nextHandle \in LiveHandles'
      BY <1>0, <2>1, <2>3 DEF FrameCreate, ReuseItem, AddItem, INVALID, LiveHandles
    <3>2. held'[s] \notin (0 .. nextHandle - 1) \cup {INVALID}
      BY <1>0, <3>1 DEF INVALID
    <3>3. 0 .. nextHandle' - 1 = (0 .. nextHandle - 1) \cup {held'[s]}
      BY <1>0, <3>1
    <3>4. \A g \in LiveHandles : object'[held'[s]] # object[g]
      <4>0. PICK new \in Nat : new = nextHandle
        BY <1>0
      <4>1. object'[held'[s]] = FrameGet(new)'
        BY <3>1, <4>0
      <4> SUFFICES ASSUME NEW g \in LiveHandles
                   PROVE  FrameGet(new)' # FrameGet(g)
        BY <4>1
      <4>2. g \in LiveHandles'
        BY <1>0, <2>1 DEF LiveHandles
      <4>3. FrameGet(g)' = FrameGet(g)
        BY <4>2, ObjectsStay
      <4>4. items'[FrameGet(g)'].handle = g
        BY <4>2, LiveItemNext
      <4>5. items'[FrameGet(new)'].handle = new
        BY <3>1, <4>0, LiveItemNext
      <4>6. g # new
        BY <1>0, <4>0, LiveItem
      <4> QED
        BY <4>3, <4>4, <4>5, <4>6
    <3>5. held' = [held EXCEPT ![s] = held'[s]]
      BY <1>0, <2>1, <3>1
    <3> QED
      BY <1>1, <1>2, <2>1, <3>2, <3>3, <3>4, <3>5 DEF Lease!Grant
  <2> QED
    BY <2>1, <2>2, <2>3
<1>5. ASSUME NEW s \in Holders, Release(s)
      PROVE  Lease!Release(s)
  BY <1>2, <1>5 DEF Release, FrameRelease, Lease!Release
<1>6. ASSUME NEW s \in Holders, NEW t \in Holders, Share(s, t)
      PROVE  Lease!Share(s, t)
  BY <1>2, <1>6 DEF Share, FrameAddRef, Lease!Share
<1>7. ASSUME NEW s \in Holders, NEW t \in Holders, HandOver(s, t)
      PROVE  Lease!HandOver(s, t)
  BY <1>2, <1>7 DEF HandOver, poolVars, Lease!HandOver
<1>8. ASSUME NEW h \in 0 .. nextHandle - 1, UseStale(h)
      PROVE  UNCHANGED Lease!leaseVars
  BY <1>3, <1>8, UseStaleInv DEF vars
<1>9. ASSUME NEW n \in MaxLists, SetLimit(n)
      PROVE  UNCHANGED Lease!leaseVars
  BY <1>3, <1>9 DEF SetLimit, SetMaxFrames
<1>10. CASE UNCHANGED vars
  BY <1>3, <1>10 DEF vars
<1> QED
  BY <1>4, <1>5, <1>6, <1>7, <1>8, <1>9, <1>10 DEF Next, Lease!Next

\* The pool with its vector, its counters and its limit implements the leases
\* of frame objects that libvMI.h promises to the clients.
THEOREM PoolImplementsLease == Spec => ImplementsLease
<1>1. Init => Lease!Init
  <2> SUFFICES ASSUME Init
               PROVE  Lease!Init
    OBVIOUS
  <2>1. LiveHandles = {} /\ 0 .. nextHandle - 1 = {} /\ held = [s \in Holders |-> INVALID]
    BY DEF Init, PoolInit, LiveHandles
  <2>2. [h \in LiveHandles |-> FrameGet(h)] = [h \in {} |-> 0]
    BY <2>1
  <2> QED
    BY <2>1, <2>2 DEF Lease!Init
<1>2. PoolInv /\ PoolInv' /\ [Next]_vars => [Lease!Next]_(Lease!leaseVars)
  BY StepRefines
<1> QED
  BY <1>1, <1>2, PoolInvariant, PTL DEF Spec, ImplementsLease, Lease!Spec

=============================================================================
