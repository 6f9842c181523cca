------------------------------ MODULE FrameLease ------------------------------
(***************************************************************************)
(* What the frame pool promises to its clients, without items, counters or *)
(* limits.  A handle is a lease of one frame object: it is new when it is  *)
(* granted, it names the same object for as long as somebody holds it,     *)
(* and no object is leased twice at a time.                                *)
(***************************************************************************)
EXTENDS Integers

CONSTANTS
  Holders,              \* the places that can hold a lease
  None                  \* what a holder without a lease has

VARIABLES
  used,                 \* the handles granted so far
  held,                 \* the handle each holder has
  object                \* the object each live handle names

leaseVars == <<used, held, object>>

Live == {held[s] : s \in Holders} \ {None}

Init ==
  /\ used = {}
  /\ held = [s \in Holders |-> None]
  /\ object = [h \in {} |-> 0]

\* The live handles after the step, and the objects of those that stay live.
KeepsObjects ==
  /\ DOMAIN object' = Live'
  /\ \A h \in Live \cap Live' : object'[h] = object[h]

Grant(s) ==
  /\ held[s] = None
  /\ held'[s] \notin used \cup {None}
  /\ held' = [held EXCEPT ![s] = held'[s]]
  /\ used' = used \cup {held'[s]}
  /\ \A h \in Live : object'[held'[s]] # object[h]
  /\ KeepsObjects

Share(s, t) ==
  /\ held[s] # None
  /\ held[t] = None
  /\ held' = [held EXCEPT ![t] = held[s]]
  /\ KeepsObjects
  /\ UNCHANGED used

HandOver(s, t) ==
  /\ held[s] # None
  /\ held[t] = None
  /\ held' = [held EXCEPT ![t] = held[s], ![s] = None]
  /\ KeepsObjects
  /\ UNCHANGED used

Release(s) ==
  /\ held[s] # None
  /\ held' = [held EXCEPT ![s] = None]
  /\ KeepsObjects
  /\ UNCHANGED used

Next ==
  \/ \E s \in Holders : Grant(s) \/ Release(s)
  \/ \E s, t \in Holders : Share(s, t) \/ HandOver(s, t)

Spec == Init /\ [][Next]_leaseVars

=============================================================================
