------------------------------ MODULE FramePool ------------------------------
(***************************************************************************)
(* The pool of vMI frames of libvMI (ip2vf/libvMI/libvMI.cpp):             *)
(* g_vMIFramesArray, a vector of (handle, frame, free flag) tuples that    *)
(* only grows, g_vMIFramesNextHandle, the counter handles are drawn from,  *)
(* and g_vMIMaxFramesInList, the limit of the vector.  Every operation     *)
(* below holds g_vMIFramesMutex from its first to its last line, so each   *)
(* is one step.  The index of an item stands for its CvMIFrame object: the *)
(* pointer of an item never changes.  The module has no specification of   *)
(* its own: FrameHolders and VmiModule give the pool its clients.          *)
(***************************************************************************)
EXTENDS Integers, Sequences, FiniteSets

CONSTANT MaxFrames      \* MAX_FRAME_IN_LIST, the limit before a client sets one

ASSUME MaxFramesAssumption == MaxFrames \in Nat

VARIABLES
  items,                \* g_vMIFramesArray
  nextHandle,           \* g_vMIFramesNextHandle
  maxFrames             \* g_vMIMaxFramesInList

poolVars == <<items, nextHandle, maxFrames>>

INVALID == -1           \* LIBVMI_INVALID_HANDLE

Item == [handle : Int, ref : Int, free : BOOLEAN]

PoolTypeOK ==
  /\ items \in Seq(Item)
  /\ nextHandle \in Nat
  /\ maxFrames \in Nat

PoolInit ==
  /\ items = << >>
  /\ nextHandle = 0
  /\ maxFrames = MaxFrames

(***************************************************************************)
(* Every operation walks the vector from its first item and stops at the   *)
(* first one that fits.                                                    *)
(***************************************************************************)
FirstOf(S) == CHOOSE k \in S : \A j \in S : k <= j

FreeItems == {k \in DOMAIN items : items[k].free}

Find(h) == {k \in DOMAIN items : items[k].handle = h}

(***************************************************************************)
(* libvmi_frame_create: reuse the first free item, or add one while the    *)
(* list is below its limit, or fail.                                       *)
(***************************************************************************)
ReuseItem ==
  /\ FreeItems # {}
  /\ items' = [items EXCEPT ![FirstOf(FreeItems)] =
                 [handle |-> nextHandle, ref |-> @.ref + 1, free |-> FALSE]]
  /\ nextHandle' = nextHandle + 1

AddItem ==
  /\ FreeItems = {}
  /\ Len(items) < maxFrames
  /\ items' = Append(items, [handle |-> nextHandle, ref |-> 1, free |-> FALSE])
  /\ nextHandle' = nextHandle + 1

ListFull ==
  /\ FreeItems = {}
  /\ Len(items) >= maxFrames

\* The call that returns h.
FrameCreate(h) ==
  /\ \/ h = nextHandle /\ ReuseItem
     \/ h = nextHandle /\ AddItem
     \/ h = INVALID /\ ListFull /\ UNCHANGED <<items, nextHandle>>
  /\ UNCHANGED maxFrames

(***************************************************************************)
(* libvmi_frame_addref and libvmi_frame_release: nothing happens when no   *)
(* item has the handle.                                                    *)
(***************************************************************************)

\* Variant: the reference is not counted.
FrameAddRefLost(h) == UNCHANGED poolVars

FrameAddRef(h) ==
  /\ items' = IF Find(h) = {} THEN items
              ELSE [items EXCEPT ![FirstOf(Find(h))].ref = @ + 1]
  /\ UNCHANGED <<nextHandle, maxFrames>>

\* Variant: the free flag is not set.
ReleasedNotFree(item) ==
  IF item.ref = 1 THEN [item EXCEPT !.handle = INVALID, !.ref = 0]
                  ELSE [item EXCEPT !.ref = @ - 1]

Released(item) ==
  IF item.ref = 1 THEN [handle |-> INVALID, ref |-> 0, free |-> TRUE]
                  ELSE [item EXCEPT !.ref = @ - 1]

\* Variant: the last release takes the item out of the vector.
FrameReleaseErases(h) ==
  /\ items' = IF Find(h) = {} THEN items
              ELSE LET k == FirstOf(Find(h))
                   IN  IF items[k].ref = 1
                         THEN SubSeq(items, 1, k - 1) \o SubSeq(items, k + 1, Len(items))
                         ELSE [items EXCEPT ![k] = Released(@)]
  /\ UNCHANGED <<nextHandle, maxFrames>>

FrameRelease(h) ==
  /\ items' = IF Find(h) = {} THEN items
              ELSE [items EXCEPT ![FirstOf(Find(h))] = Released(@)]
  /\ UNCHANGED <<nextHandle, maxFrames>>

(***************************************************************************)
(* libvMI_frame_get, as the index of the item (the CvMIFrame pointer), 0   *)
(* for NULL.                                                               *)
(***************************************************************************)
FrameGet(h) == IF Find(h) = {} THEN 0 ELSE FirstOf(Find(h))

\* libvMI_set_parameter(MAX_FRAMES_IN_LIST, n): the list is never shortened.
SetMaxFrames(n) ==
  /\ maxFrames' = n
  /\ UNCHANGED <<items, nextHandle>>

=============================================================================
