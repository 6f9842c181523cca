----------------------------- MODULE FrameHolders -----------------------------
(***************************************************************************)
(* The frame pool with clients that keep the rules of libvMI.h: a holder   *)
(* is one place that owns one reference (a variable of a callback, an      *)
(* entry of an output's queue, the frame an output is sending).  A holder  *)
(* gets a reference from libvmi_frame_create, or as a copy of another's    *)
(* (libvmi_frame_addref), hands it over without touching the counter (the  *)
(* callback gets the frame of the input thread this way, the output thread *)
(* the one of the queue), and gives it back with libvmi_frame_release.     *)
(* A client may also use a handle again after its last reference is gone:  *)
(* handles are never reused, so this must not reach the frame that has     *)
(* taken over the item.                                                    *)
(***************************************************************************)
EXTENDS FramePool

CONSTANTS
  Holders,              \* the places that can own a reference
  MaxLists,             \* the limits a client sets with libvMI_set_parameter
  HandleBound           \* bound of the model: number of handles drawn

ASSUME HoldersAssumption ==
  /\ IsFiniteSet(Holders)
  /\ MaxLists \subseteq Nat
  /\ HandleBound \in Nat

VARIABLE held           \* the handle each holder has, INVALID when none

vars == <<items, nextHandle, maxFrames, held>>

Holding(h) == {s \in Holders : held[s] = h}

LiveHandles == {held[s] : s \in Holders} \ {INVALID}

\* The types, with the shape of an item: a free one has given its handle back
\* and nobody counts on it, one in use has a handle drawn from the counter.
TypeOK ==
  /\ PoolTypeOK
  /\ held \in [Holders -> Int]
  /\ \A k \in DOMAIN items :
       IF items[k].free
         THEN items[k].handle = INVALID /\ items[k].ref = 0
         ELSE items[k].handle \in 0 .. nextHandle - 1

Init ==
  /\ PoolInit
  /\ held = [s \in Holders |-> INVALID]

\* A client asks for a frame; when the list is full it gets LIBVMI_INVALID_HANDLE.
Create(s) ==
  /\ held[s] = INVALID
  /\ nextHandle < HandleBound
  /\ \E h \in {nextHandle, INVALID} :
       /\ FrameCreate(h)
       /\ held' = [held EXCEPT ![s] = h]

\* libvMI_send: one more reference, owned by the queue entry t.
Share(s, t) ==
  /\ held[s] # INVALID
  /\ held[t] = INVALID
  /\ FrameAddRef(held[s])
  /\ held' = [held EXCEPT ![t] = held[s]]

\* A reference changes hands and the counter stays as it is.
HandOver(s, t) ==
  /\ held[s] # INVALID
  /\ held[t] = INVALID
  /\ held' = [held EXCEPT ![t] = held[s], ![s] = INVALID]
  /\ UNCHANGED poolVars

Release(s) ==
  /\ held[s] # INVALID
  /\ FrameRelease(held[s])
  /\ held' = [held EXCEPT ![s] = INVALID]

\* A second release, or a late addref, of a frame nobody holds any more.
UseStale(h) ==
  /\ Holding(h) = {}
  /\ FrameRelease(h) \/ FrameAddRef(h)
  /\ UNCHANGED held

SetLimit(n) ==
  /\ SetMaxFrames(n)
  /\ UNCHANGED held

Next ==
  \/ \E s \in Holders : Create(s) \/ Release(s)
  \/ \E s, t \in Holders : Share(s, t) \/ HandOver(s, t)
  \/ \E h \in 0 .. nextHandle - 1 : UseStale(h)
  \/ \E n \in MaxLists : SetLimit(n)

Spec == Init /\ [][Next]_vars

------------------------------------------------------------------------------

\* libvMI.h says that "the returned handle is unique": two items in use never
\* answer to the same handle (libvmi_frame_create).
HandlesUnique ==
  \A j, k \in DOMAIN items :
    items[j].handle = items[k].handle /\ ~items[j].free => j = k

\* A reference keeps its frame: what a holder has is never a freed or unknown
\* handle, whatever the others release (libvmi_frame_release, libvMI_frame_get).
HeldIsLive ==
  \A s \in Holders : held[s] # INVALID =>
    \E k \in DOMAIN items : items[k].handle = held[s] /\ ~items[k].free

\* The reference counter of a frame in use is the number of references that
\* exist: a smaller one frees a frame in use, a larger one loses the item for
\* good (CvMIFrame::addRef and releaseRef under libvmi_frame_*).
RefsCounted ==
  \A k \in DOMAIN items : ~items[k].free =>
    /\ items[k].ref = Cardinality(Holding(items[k].handle))
    /\ items[k].ref > 0

\* Their conjunction is inductive.
PoolInv ==
  /\ TypeOK
  /\ HandlesUnique
  /\ HeldIsLive
  /\ RefsCounted

\* A request fails only while as many frames as the limit allows are really in
\* use: no item of the list is ever lost to the clients.
NoLostItem ==
  ListFull => Cardinality(LiveHandles) >= maxFrames

------------------------------------------------------------------------------

\* What a client may rely on: leases of frame objects.
Lease == INSTANCE FrameLease WITH
           None <- INVALID,
           used <- 0 .. nextHandle - 1,
           held <- held,
           object <- [h \in LiveHandles |-> FrameGet(h)]

\* The pool implements the leases.
ImplementsLease == Lease!Spec

=============================================================================
