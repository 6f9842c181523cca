------------------------ MODULE ModuleRegistry_proofs ------------------------
(***************************************************************************)
(* For any modules and any order of closes: the vector holds exactly the   *)
(* open modules, a handle names its module until an entry at or in front   *)
(* of it is erased by the close of another module, and a module none of    *)
(* whose predecessors was closed before it is freed by its own close.      *)
(***************************************************************************)
EXTENDS ModuleRegistry, TLAPS, SequenceTheorems

Types ==
  /\ registry \in Seq(Modules)
  /\ state \in [Modules -> {"none", STOPPED, STARTED, "closed"}]
  /\ handle \in [Modules -> {INVALID} \cup Nat]
  /\ moved \subseteq Modules

Open(m) == state[m] \in {STOPPED, STARTED}

\* No module is in the vector twice, and it holds the open ones.
Listed ==
  /\ \A j, k \in DOMAIN registry : registry[j] = registry[k] => j = k
  /\ \A k \in DOMAIN registry : Open(registry[k])
  /\ \A m \in Modules : Open(m) => \E k \in DOMAIN registry : registry[k] = m

\* The handles of the modules that were not moved are the inverse of the vector.
HandlesMatch ==
  /\ \A m \in Modules \ moved : handle[m] # INVALID =>
       handle[m] < Len(registry) /\ registry[handle[m] + 1] = m
  /\ \A k \in DOMAIN registry : registry[k] \notin moved => handle[registry[k]] = k - 1

\* A module that has not been created has no handle.
NotCreated == \A m \in Modules : state[m] = "none" => handle[m] = INVALID /\ m \notin moved

RegistryInv == Types /\ Listed /\ HandlesMatch /\ UnmovedIsFreed /\ NotCreated

LEMMA HandleLooksUp ==
  ASSUME RegistryInv, NEW m \in Modules \ moved, handle[m] # INVALID
  PROVE  ModuleGet(handle[m]) = {m}
<1>1. handle[m] \in Nat /\ handle[m] < Len(registry) /\ registry[handle[m] + 1] = m
  BY DEF RegistryInv, Types, HandlesMatch
<1> QED
  BY <1>1 DEF ModuleGet

LEMMA RegistryInit == Init => RegistryInv
  BY DEF Init, RegistryInv, Types, Listed, Open, HandlesMatch, UnmovedIsFreed, NotCreated, INVALID,
         STOPPED, STARTED

\* libvMI_create_module puts a new module behind the others.
LEMMA CreateKeeps ==
  ASSUME RegistryInv, NEW m \in Modules, Create(m)
  PROVE  RegistryInv'
<1> USE DEF INVALID
<1>0. Types
  BY DEF RegistryInv
<1>1. Types'
  BY <1>0 DEF Types, Create, STOPPED, STARTED
<1>2. /\ Len(registry') = Len(registry) + 1
      /\ registry'[Len(registry) + 1] = m
      /\ \A k \in DOMAIN registry : registry'[k] = registry[k] /\ registry[k] \in Modules
      /\ DOMAIN registry = 1 .. Len(registry)
      /\ DOMAIN registry' = 1 .. (Len(registry) + 1)
      /\ Len(registry) \in Nat
  BY <1>0, AppendProperties DEF Types, Create
<1>3. handle[m] = INVALID /\ state[m] = "none" /\ m \notin moved
  BY DEF RegistryInv, NotCreated, Create
<1>4. \A k \in DOMAIN registry : registry[k] # m
  BY <1>3 DEF RegistryInv, Listed, Open, STOPPED, STARTED
<1>5. /\ handle' = [handle EXCEPT ![m] = Len(registry)]
      /\ state' = [state EXCEPT ![m] = STOPPED]
      /\ moved' = moved
  BY DEF Create
<1>6. HandlesMatch'
  <2>1. ASSUME NEW n \in Modules \ moved', handle'[n] # INVALID
        PROVE  handle'[n] < Len(registry') /\ registry'[handle'[n] + 1] = n
    <3>1. CASE n = m
      BY <3>1, <1>0, <1>2, <1>5 DEF Types
    <3>2. CASE n # m
      <4>1. handle[n] \in Nat /\ handle[n] < Len(registry) /\ registry[handle[n] + 1] = n
        BY <3>2, <2>1, <1>0, <1>5 DEF Types, RegistryInv, HandlesMatch
      <4>2. handle[n] + 1 \in DOMAIN registry
        BY <4>1, <1>2
      <4> QED
        BY <3>2, <4>1, <4>2, <1>0, <1>2, <1>5 DEF Types
    <3> QED
      BY <3>1, <3>2
  <2>2. ASSUME NEW k \in DOMAIN registry', registry'[k] \notin moved'
        PROVE  handle'[registry'[k]] = k - 1
    <3>1. CASE k = Len(registry) + 1
      BY <3>1, <1>0, <1>2, <1>5 DEF Types
    <3>2. CASE k \in DOMAIN registry
      <4>1. registry[k] \in Modules /\ registry[k] # m /\ handle[registry[k]] = k - 1
        BY <3>2, <2>2, <1>2, <1>4, <1>5 DEF RegistryInv, HandlesMatch
      <4> QED
        BY <3>2, <4>1, <1>0, <1>2, <1>5 DEF Types
    <3> QED
      BY <3>1, <3>2, <2>2, <1>2
  <2> QED
    BY <2>1, <2>2 DEF HandlesMatch
<1>7. Listed'
  <2>1. ASSUME NEW j \in DOMAIN registry', NEW k \in DOMAIN registry', registry'[j] = registry'[k]
        PROVE  j = k
    <3>1. /\ j \in DOMAIN registry \/ j = Len(registry) + 1
          /\ k \in DOMAIN registry \/ k = Len(registry) + 1
      BY <1>2
    <3> QED
      BY <3>1, <2>1, <1>2, <1>4 DEF RegistryInv, Listed
  <2>2. ASSUME NEW k \in DOMAIN registry'
        PROVE  state'[registry'[k]] \in {STOPPED, STARTED}
    <3>1. CASE k = Len(registry) + 1
      BY <3>1, <1>0, <1>2, <1>5 DEF Types
    <3>2. CASE k \in DOMAIN registry
      BY <3>2, <1>0, <1>2, <1>4, <1>5 DEF Types, RegistryInv, Listed, Open
    <3> QED
      BY <3>1, <3>2, <1>2
  <2>3. ASSUME NEW n \in Modules, state'[n] \in {STOPPED, STARTED}
        PROVE  \E k \in DOMAIN registry' : registry'[k] = n
    <3>1. CASE n = m
      <4>1. Len(registry) + 1 \in DOMAIN registry'
        BY <1>2
      <4> QED
        BY <3>1, <4>1, <1>2
    <3>2. CASE n # m
      <4>1. Open(n)
        BY <3>2, <2>3, <1>0, <1>5 DEF Types, Open
      <4>2. PICK k \in DOMAIN registry : registry[k] = n
        BY <4>1 DEF RegistryInv, Listed
      <4> QED
        BY <4>2, <1>2
    <3> QED
      BY <3>1, <3>2
  <2> QED
    BY <2>1, <2>2, <2>3 DEF Listed, Open
<1>8. UnmovedIsFreed' /\ NotCreated'
  BY <1>0, <1>2, <1>5 DEF Types, RegistryInv, UnmovedIsFreed, NotCreated, STOPPED
<1> QED
  BY <1>1, <1>6, <1>7, <1>8 DEF RegistryInv

\* libvMI_start_module and libvMI_stop_module change the state of one open module,
\* which need not be the one the client means.
LEMMA SwitchKeeps ==
  ASSUME RegistryInv, NEW m \in Modules, Start(m) \/ Stop(m)
  PROVE  RegistryInv'
<1>1. UNCHANGED <<registry, handle, moved>>
  BY DEF Start, Stop, Switch
<1>2. PICK target \in Modules, to \in {STOPPED, STARTED} :
        Open(target) /\ state' = [state EXCEPT ![target] = to]
  <2>1. \A t \in ModuleGet(handle[m]) : t \in Modules
    BY DEF ModuleGet, RegistryInv, Types, INVALID
  <2> QED
    BY <2>1 DEF Start, Stop, Switch, Open
<1>3. Types'
  BY <1>1, <1>2 DEF RegistryInv, Types, STOPPED, STARTED
<1>4. \A n \in Modules : (state'[n] \in {STOPPED, STARTED}) <=> (state[n] \in {STOPPED, STARTED})
  BY <1>2 DEF RegistryInv, Types, Open
<1>5. HandlesMatch'
  BY <1>1 DEF RegistryInv, HandlesMatch
<1>6. Listed'
  <2>1. \A k \in DOMAIN registry : registry[k] \in Modules
    BY DEF RegistryInv, Types
  <2> QED
    BY <1>1, <1>4, <2>1 DEF RegistryInv, Listed, Open
<1>7. UnmovedIsFreed' /\ NotCreated'
  BY <1>1, <1>2 DEF RegistryInv, Types, UnmovedIsFreed, NotCreated, Open, STOPPED, STARTED
<1> QED
  BY <1>3, <1>5, <1>6, <1>7 DEF RegistryInv

\* What erasing an entry leaves: the entries in front of it, and those behind it one
\* place lower.
LEMMA Erased ==
  ASSUME NEW S, NEW s \in Seq(S), NEW i \in 1 .. Len(s)
  PROVE  /\ RemoveAt(s, i) \in Seq(S)
         /\ Len(RemoveAt(s, i)) = Len(s) - 1
         /\ \A k \in 1 .. Len(s) - 1 : RemoveAt(s, i)[k] = IF k < i THEN s[k] ELSE s[k + 1]
<1> DEFINE front == SubSeq(s, 1, i - 1)
           rest == SubSeq(s, i + 1, Len(s))
<1>0. \A k \in 1 .. Len(s) : s[k] \in S
  BY ElementOfSeq
<1>1. PICK n \in Nat, a \in Nat, b \in Nat : n = Len(s) /\ a = i - 1 /\ b = n - i /\ n = a + b + 1
  <2>1. Len(s) \in Nat /\ i - 1 \in Nat /\ Len(s) - i \in Nat
    BY LenProperties
  <2> QED
    BY <2>1
<1>2. /\ front \in Seq(S)
      /\ Len(front) = a
      /\ \A k \in 1 .. a : front[k] = s[k]
  <2>1. \A k \in 1 .. i - 1 : s[k] \in S
    BY <1>0, <1>1
  <2>2. /\ front \in Seq(S)
        /\ Len(front) = IF 1 <= i - 1 THEN (i - 1) - 1 + 1 ELSE 0
        /\ \A k \in 1 .. (i - 1) - 1 + 1 : front[k] = s[1 + k - 1]
    BY <2>1, SubSeqProperties
  <2> HIDE DEF front
  <2>3. Len(front) = a
    BY <2>2, <1>1
  <2>4. ASSUME NEW k \in 1 .. a
        PROVE  front[k] = s[k]
    <3>1. k \in 1 .. (i - 1) - 1 + 1 /\ 1 + k - 1 = k
      BY <1>1
    <3> QED
      BY <3>1, <2>2
  <2> QED
    BY <2>2, <2>3, <2>4
<1>3. /\ rest \in Seq(S)
      /\ Len(rest) = b
      /\ \A k \in 1 .. b : rest[k] = s[i + k]
  <2>1. \A k \in i + 1 .. Len(s) : s[k] \in S
    BY <1>0, <1>1
  <2>2. i + 1 \in Nat /\ Len(s) \in Nat
    BY <1>1
  <2>3. /\ rest \in Seq(S)
        /\ Len(rest) = IF i + 1 <= Len(s) THEN Len(s) - (i + 1) + 1 ELSE 0
        /\ \A k \in 1 .. Len(s) - (i + 1) + 1 : rest[k] = s[(i + 1) + k - 1]
    BY <2>1, <2>2, SubSeqProperties
  <2> HIDE DEF rest
  <2>4. Len(rest) = b
    BY <2>3, <1>1
  <2>5. ASSUME NEW k \in 1 .. b
        PROVE  rest[k] = s[i + k]
    <3>1. k \in 1 .. Len(s) - (i + 1) + 1 /\ (i + 1) + k - 1 = i + k
      BY <1>1
    <3> QED
      BY <3>1, <2>3
  <2> QED
    BY <2>3, <2>4, <2>5
<1>4. RemoveAt(s, i) = front \o rest
  BY DEF RemoveAt
<1> HIDE DEF front, rest
<1>5. /\ front \o rest \in Seq(S)
      /\ Len(front \o rest) = a + b
      /\ \A k \in 1 .. a + b : (front \o rest)[k] = IF k <= a THEN front[k] ELSE rest[k - a]
  BY <1>2, <1>3, ConcatProperties
<1>6. ASSUME NEW k \in 1 .. Len(s) - 1
      PROVE  RemoveAt(s, i)[k] = IF k < i THEN s[k] ELSE s[k + 1]
  <2>1. k \in 1 .. a + b
    BY <1>1
  <2>2. CASE k <= a
    <3>1. k \in 1 .. a /\ k < i
      BY <2>2, <1>1
    <3> QED
      BY <3>1, <2>1, <2>2, <1>2, <1>4, <1>5
  <2>3. CASE ~(k <= a)
    <3>1. k - a \in 1 .. b /\ ~(k < i) /\ i + (k - a) = k + 1
      BY <2>1, <2>3, <1>1
    <3> QED
      BY <3>1, <2>1, <2>3, <1>3, <1>4, <1>5
  <2> QED
    BY <2>2, <2>3
<1> QED
  BY <1>1, <1>4, <1>5, <1>6

\* libvMI_close with a handle of no module: that of a module which was moved.
LEMMA RefusedKeeps ==
  ASSUME RegistryInv, NEW m \in Modules, Close(m), ModuleGet(handle[m]) = {}
  PROVE  RegistryInv'
<1> USE DEF INVALID
<1>1. m \in moved
  BY HandleLooksUp DEF Close
<1>2. UNCHANGED <<registry, state, moved>> /\ handle' = [handle EXCEPT ![m] = INVALID]
  BY DEF Close
<1>3. Types'
  BY <1>2 DEF RegistryInv, Types
<1>4. Listed'
  BY <1>2 DEF RegistryInv, Listed, Open
<1>5. HandlesMatch'
  BY <1>1, <1>2 DEF RegistryInv, Types, HandlesMatch
<1>6. UnmovedIsFreed' /\ NotCreated'
  BY <1>1, <1>2 DEF RegistryInv, Types, UnmovedIsFreed, NotCreated
<1> QED
  BY <1>3, <1>4, <1>5, <1>6 DEF RegistryInv

\* libvMI_close of the entry the handle of m names, the module target.
LEMMA ErasingKeeps ==
  ASSUME RegistryInv, NEW m \in Modules, Close(m), NEW target \in ModuleGet(handle[m])
  PROVE  RegistryInv'
<1> USE DEF INVALID
<1>0. Types
  BY DEF RegistryInv
<1>1. PICK i \in Nat : i = handle[m] + 1 /\ i \in 1 .. Len(registry) /\ registry[i] = target
  <2>1. handle[m] \in Nat /\ handle[m] < Len(registry) /\ registry[handle[m] + 1] = target
    BY <1>0 DEF Close, Types, ModuleGet
  <2> QED
    BY <2>1, <1>0 DEF Types
<1>2. DOMAIN registry = 1 .. Len(registry) /\ Len(registry) \in Nat
  BY <1>0 DEF Types
<1>3. target \in Modules /\ \A k \in 1 .. Len(registry) : registry[k] \in Modules
  BY <1>0, <1>1, <1>2 DEF Types
<1>4. /\ handle' = [handle EXCEPT ![m] = INVALID]
      /\ state' = [state EXCEPT ![target] = "closed"]
      /\ registry' = RemoveAt(registry, i)
      /\ moved' = moved \cup Behind(handle[m]) \cup ({target} \ {m})
  BY <1>1 DEF Close, ModuleGet
<1>5. /\ registry' \in Seq(Modules)
      /\ Len(registry') = Len(registry) - 1
      /\ \A k \in 1 .. Len(registry) - 1 : registry'[k] = IF k < i THEN registry[k] ELSE registry[k + 1]
  BY <1>0, <1>1, <1>4, Erased DEF Types
<1>6. DOMAIN registry' = 1 .. Len(registry) - 1
  BY <1>2, <1>5
<1>6a. Behind(handle[m]) = {registry[k] : k \in i + 1 .. Len(registry)}
  <2>1. handle[m] + 2 = i + 1
    BY <1>0, <1>1 DEF Close, Types
  <2> QED
    BY <2>1 DEF Behind
<1>6b. \A k \in i + 1 .. Len(registry) : k \in 1 .. Len(registry)
  BY <1>1, <1>2
<1>7. \A k \in 1 .. Len(registry) : k > i => registry[k] \in moved'
  <2>1. ASSUME NEW k \in 1 .. Len(registry), k > i
        PROVE  registry[k] \in moved'
    <3>1. k \in i + 1 .. Len(registry)
      BY <2>1, <1>1, <1>2
    <3> QED
      BY <3>1, <1>4, <1>6a
  <2> QED
    BY <2>1
<1>8. moved' \subseteq Modules
  <2>1. Behind(handle[m]) \subseteq Modules
    BY <1>3, <1>6a, <1>6b
  <2> QED
    BY <2>1, <1>0, <1>3, <1>4 DEF Types
<1>9. Types'
  BY <1>0, <1>4, <1>5, <1>8 DEF Types
<1>10. HandlesMatch'
  <2>1. ASSUME NEW n \in Modules \ moved', handle'[n] # INVALID
        PROVE  handle'[n] < Len(registry') /\ registry'[handle'[n] + 1] = n
    <3>1. n # m /\ handle'[n] = handle[n] /\ n \notin moved
      BY <2>1, <1>0, <1>4 DEF Types
    <3>2. handle[n] \in Nat /\ handle[n] < Len(registry) /\ registry[handle[n] + 1] = n
      BY <2>1, <3>1, <1>0 DEF Types, RegistryInv, HandlesMatch
    <3>3. PICK j \in Nat : j = handle[n] + 1 /\ j \in 1 .. Len(registry) /\ registry[j] = n
      BY <3>2, <1>2
    <3>4. j # i
      BY <2>1, <3>1, <3>3, <1>1, <1>4
    <3>5. ~(j > i)
      BY <2>1, <3>3, <1>7
    <3>6. j < i /\ j \in 1 .. Len(registry) - 1
      BY <3>3, <3>4, <3>5, <1>1, <1>2
    <3> QED
      BY <3>1, <3>2, <3>3, <3>6, <1>2, <1>5
  <2>2. ASSUME NEW k \in DOMAIN registry', registry'[k] \notin moved'
        PROVE  handle'[registry'[k]] = k - 1
    <3>1. k \in 1 .. Len(registry) - 1 /\ k \in 1 .. Len(registry) /\ k + 1 \in 1 .. Len(registry)
      BY <2>2, <1>2, <1>6
    <3>2. k < i
      BY <2>2, <3>1, <1>1, <1>5, <1>7
    <3>3. registry'[k] = registry[k] /\ registry[k] \notin moved
      BY <2>2, <3>1, <3>2, <1>4, <1>5
    <3>4. handle[registry[k]] = k - 1
      BY <3>1, <3>3, <1>2 DEF RegistryInv, HandlesMatch
    <3>5. registry[k] # m
      BY <3>2, <3>4, <1>1, <3>1
    <3> QED
      BY <3>1, <3>3, <3>4, <3>5, <1>0, <1>3, <1>4 DEF Types
  <2> QED
    BY <2>1, <2>2 DEF HandlesMatch
<1>11. \A k \in DOMAIN registry' :
         \E j \in DOMAIN registry : j # i /\ j = (IF k < i THEN k ELSE k + 1) /\ registry'[k] = registry[j]
  BY <1>1, <1>2, <1>5, <1>6
<1>12. \A k \in DOMAIN registry : k # i => registry[k] # target
  BY <1>1, <1>2 DEF RegistryInv, Listed
<1>13. Listed'
  <2>1. ASSUME NEW j \in DOMAIN registry', NEW k \in DOMAIN registry', registry'[j] = registry'[k]
        PROVE  j = k
    <3>1. PICK p \in DOMAIN registry : p # i /\ p = (IF j < i THEN j ELSE j + 1) /\ registry'[j] = registry[p]
      BY <1>11
    <3>2. PICK q \in DOMAIN registry : q # i /\ q = (IF k < i THEN k ELSE k + 1) /\ registry'[k] = registry[q]
      BY <1>11
    <3>3. p = q
      BY <2>1, <3>1, <3>2 DEF RegistryInv, Listed
    <3> QED
      BY <3>1, <3>2, <3>3, <1>2, <1>6
  <2>2. ASSUME NEW k \in DOMAIN registry'
        PROVE  state'[registry'[k]] \in {STOPPED, STARTED}
    <3>1. PICK p \in DOMAIN registry : p # i /\ registry'[k] = registry[p]
      BY <1>11
    <3>2. registry[p] # target /\ registry[p] \in Modules /\ state[registry[p]] \in {STOPPED, STARTED}
      BY <3>1, <1>2, <1>3, <1>12 DEF RegistryInv, Listed, Open
    <3> QED
      BY <3>1, <3>2, <1>0, <1>4 DEF Types
  <2>3. ASSUME NEW n \in Modules, state'[n] \in {STOPPED, STARTED}
        PROVE  \E k \in DOMAIN registry' : registry'[k] = n
    <3>1. n # target /\ Open(n)
      BY <2>3, <1>0, <1>3, <1>4 DEF Types, Open, STOPPED, STARTED
    <3>2. PICK j \in DOMAIN registry : registry[j] = n
      BY <3>1 DEF RegistryInv, Listed
    <3>3. j # i
      BY <3>1, <3>2, <1>1
    <3>4. CASE j < i
      <4>1. j \in 1 .. Len(registry) - 1
        BY <3>2, <3>4, <1>1, <1>2
      <4> QED
        BY <3>2, <3>4, <4>1, <1>5, <1>6
    <3>5. CASE j > i
      <4>1. j - 1 \in 1 .. Len(registry) - 1 /\ ~(j - 1 < i) /\ (j - 1) + 1 = j
        BY <3>2, <3>5, <1>1, <1>2
      <4> QED
        BY <3>2, <4>1, <1>5, <1>6
    <3> QED
      BY <3>2, <3>3, <3>4, <3>5, <1>2
  <2> QED
    BY <2>1, <2>2, <2>3 DEF Listed, Open
<1>14. UnmovedIsFreed'
  <2>1. ASSUME NEW n \in Modules \ moved', state'[n] # "none", handle'[n] = INVALID
        PROVE  state'[n] = "closed"
    <3>1. n \notin moved
      BY <1>4
    <3>2. CASE n = m
      <4>1. target = m
        BY <3>1, <3>2, HandleLooksUp DEF Close
      <4> QED
        BY <3>2, <4>1, <1>0, <1>4 DEF Types
    <3>3. CASE n # m
      BY <2>1, <3>1, <3>3, <1>0, <1>3, <1>4 DEF Types, RegistryInv, UnmovedIsFreed
    <3> QED
      BY <3>2, <3>3
  <2> QED
    BY <2>1 DEF UnmovedIsFreed
<1>15. NotCreated'
  <2>1. ASSUME NEW n \in Modules, state'[n] = "none"
        PROVE  handle'[n] = INVALID /\ n \notin moved'
    <3>1. n # target /\ state[n] = "none"
      BY <2>1, <1>0, <1>3, <1>4 DEF Types
    <3>2. handle[n] = INVALID /\ n \notin moved
      BY <3>1 DEF RegistryInv, NotCreated
    <3>3. n \notin Behind(handle[m])
      <4>1. \A k \in DOMAIN registry : registry[k] # n
        BY <3>1 DEF RegistryInv, Listed, Open, STOPPED, STARTED
      <4> QED
        BY <4>1, <1>2, <1>6a, <1>6b
    <3> QED
      BY <3>1, <3>2, <3>3, <1>0, <1>4 DEF Types
  <2> QED
    BY <2>1 DEF NotCreated
<1> QED
  BY <1>9, <1>10, <1>13, <1>14, <1>15 DEF RegistryInv

LEMMA RegistryNext ==
  ASSUME RegistryInv, [Next]_vars
  PROVE  RegistryInv'
<1>1. CASE UNCHANGED vars
  BY <1>1 DEF vars, RegistryInv, Types, Listed, Open, HandlesMatch, UnmovedIsFreed, NotCreated
<1>2. ASSUME NEW m \in Modules, Create(m)
      PROVE  RegistryInv'
  BY <1>2, CreateKeeps
<1>3. ASSUME NEW m \in Modules, Start(m) \/ Stop(m)
      PROVE  RegistryInv'
  BY <1>3, SwitchKeeps
<1>4. ASSUME NEW m \in Modules, Close(m)
      PROVE  RegistryInv'
  <2>1. CASE ModuleGet(handle[m]) = {}
    BY <1>4, <2>1, RefusedKeeps
  <2>2. CASE ModuleGet(handle[m]) # {}
    BY <1>4, <2>2, ErasingKeeps
  <2> QED
    BY <2>1, <2>2
<1> QED
  BY <1>1, <1>2, <1>3, <1>4 DEF Next

\* Every reachable state satisfies the invariant.
LEMMA RegistryAlways == Spec => []RegistryInv
<1>1. Init => RegistryInv
  BY RegistryInit
<1>2. RegistryInv /\ [Next]_vars => RegistryInv'
  BY RegistryNext
<1> QED
  BY <1>1, <1>2, PTL DEF Spec

\* The types, and that the vector never has a module twice (libvMI_create_module
\* and libvMI_close on g_Ip2VfModules).
THEOREM RegistryTypes == Spec => []TypeOK
<1>1. RegistryInv => TypeOK
  BY DEF RegistryInv, Types, Listed, TypeOK, IsInjective
<1> QED
  BY <1>1, RegistryAlways, PTL

\* The vector holds the open modules and no other, however the handles are shifted:
\* libvMI_close deletes an entry and erases that very entry.
THEOREM OnlyOpenAreListed == Spec => []ListedAreOpen
<1>1. RegistryInv => ListedAreOpen
  <2>1. SUFFICES ASSUME RegistryInv
                 PROVE  ListedAreOpen
    OBVIOUS
  <2>2. \A k \in DOMAIN registry : registry[k] \in Modules
    BY <2>1 DEF RegistryInv, Types
  <2> QED
    BY <2>1, <2>2 DEF RegistryInv, Listed, ListedAreOpen, Range, Open
<1> QED
  BY <1>1, RegistryAlways, PTL

\* A handle names its module until the close of another module erased that module or
\* an entry in front of it (libvMI_module_get after any number of libvMI_close).
THEOREM HandlesStayRight == Spec => []HandleNamesItsModule
<1>1. RegistryInv => HandleNamesItsModule
  BY HandleLooksUp DEF HandleNamesItsModule
<1> QED
  BY <1>1, RegistryAlways, PTL

\* A module that was not moved is freed when the client closes it.
THEOREM UnmovedModulesAreFreed == Spec => []UnmovedIsFreed
<1>1. RegistryInv => UnmovedIsFreed
  BY DEF RegistryInv
<1> QED
  BY <1>1, RegistryAlways, PTL

=============================================================================
