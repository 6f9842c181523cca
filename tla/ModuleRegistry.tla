---------------------------- MODULE ModuleRegistry ----------------------------
(***************************************************************************)
(* The modules of one process (g_Ip2VfModules in libvMI.cpp) and a client  *)
(* with several of them, as vMIModules/vMI_multinstances.cpp.  The handle  *)
(* of a module is its index in the vector at the time of its creation;     *)
(* libvMI_close erases the entry, which moves the later entries down.  The *)
(* client calls with the handles it was given, and the callback of a       *)
(* running module looks its module up by the same handle.  What start,     *)
(* stop and close do inside a module is in VmiModule; here a module is     *)
(* only created, started, stopped or closed.                               *)
(***************************************************************************)
EXTENDS Integers, Sequences, SequencesExt

CONSTANTS
  Modules               \* the modules the client creates

VARIABLES
  registry,             \* g_Ip2VfModules
  state,                \* per module: its controller
  handle,               \* per module: the variable of the client with its handle
  moved                 \* history: modules whose entry the close of another one moved or erased

vars == <<registry, state, handle, moved>>

INVALID == -1           \* LIBVMI_INVALID_HANDLE

STOPPED == "STATE_STOPPED"
STARTED == "STATE_STARTED"

\* libvMI_module_get finds one module or none: handles start from 0, the indices
\* of a sequence from 1.  The comparison with size() is unsigned: the invalid handle
\* is never below it.
ModuleGet(h) == IF h >= 0 /\ h < Len(registry) THEN {registry[h + 1]} ELSE {}

TypeOK ==
  /\ registry \in Seq(Modules)
  /\ IsInjective(registry)
  /\ state \in [Modules -> {"none", STOPPED, STARTED, "closed"}]
  /\ handle \in [Modules -> {INVALID} \cup Nat]
  /\ moved \subseteq Modules

Init ==
  /\ registry = << >>
  /\ state = [m \in Modules |-> "none"]
  /\ handle = [m \in Modules |-> INVALID]
  /\ moved = {}

\* libvMI_create_module
Create(m) ==
  /\ state[m] = "none"
  /\ handle' = [handle EXCEPT ![m] = Len(registry)]
  /\ registry' = Append(registry, m)
  /\ state' = [state EXCEPT ![m] = STOPPED]
  /\ UNCHANGED moved

\* libvMI_start_module and libvMI_stop_module, of whatever the handle names now;
\* CvMIModuleController leaves a module in another state alone.
Switch(m, from, to) ==
  \E target \in ModuleGet(handle[m]) :
    /\ state[target] = from
    /\ state' = [state EXCEPT ![target] = to]
    /\ UNCHANGED <<registry, handle, moved>>

Start(m) == handle[m] # INVALID /\ Switch(m, STOPPED, STARTED)
Stop(m) == handle[m] # INVALID /\ Switch(m, STARTED, STOPPED)

\* The entries behind the one that is erased move down.
Behind(h) == {registry[k] : k \in h + 2 .. Len(registry)}

\* libvMI_close, after which the client forgets the handle.  A handle that names no
\* module is refused.
Close(m) ==
  /\ handle[m] # INVALID
  /\ handle' = [handle EXCEPT ![m] = INVALID]
  /\ \/ /\ ModuleGet(handle[m]) = {}
        /\ UNCHANGED <<registry, state, moved>>
     \/ \E target \in ModuleGet(handle[m]) :
          /\ state' = [state EXCEPT ![target] = "closed"]
          /\ registry' = RemoveAt(registry, handle[m] + 1)
          /\ moved' = moved \cup Behind(handle[m]) \cup ({target} \ {m})

Next == \E m \in Modules : Create(m) \/ Start(m) \/ Stop(m) \/ Close(m)

Spec == Init /\ [][Next]_vars

------------------------------------------------------------------------------

\* A handle names the module it was returned for as long as no close erased that
\* module or an entry in front of it: so the calls of the client, and the lookups of
\* a callback in libvMI_send, reach their own module.  Only a client that closes its
\* modules last created first can rely on it.
HandleNamesItsModule ==
  \A m \in Modules \ moved : handle[m] # INVALID => ModuleGet(handle[m]) = {m}

\* Whatever the handles name: the vector holds the open modules and no other, so a
\* lookup never reaches a deleted controller and no open module drops out of it.
ListedAreOpen ==
  Range(registry) = {m \in Modules : state[m] \in {STOPPED, STARTED}}

\* vMI_multinstances.cpp:298: "Close the module and free all resources."  A module
\* the client has closed is closed.  It is not: the entry in front of it may be gone.
ClosedIsFreed ==
  \A m \in Modules : state[m] # "none" /\ handle[m] = INVALID => state[m] = "closed"

\* What is true of it.
UnmovedIsFreed ==
  \A m \in Modules \ moved : state[m] # "none" /\ handle[m] = INVALID => state[m] = "closed"

=============================================================================
