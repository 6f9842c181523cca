-------------------------- MODULE EgelRequests_proofs --------------------------
(***************************************************************************)
(* For any clients and any number of requests: until a client writes the   *)
(* head of the free list between the read and the write of another, no     *)
(* request is lost or given twice, the ring always has a slot, and each    *)
(* client returns with the answer to its own command.                      *)
(***************************************************************************)
EXTENDS EgelRequests, TLAPS, FiniteSetTheorems, WellFoundedInduction

\* A request taken off the list belongs to one client at a time; clients that
\* have read the head of the list and not written it have read it as it is.
PlacesInv ==
  /\ \A c \in Clients : at[c] # "aborted"
  /\ \A c \in Clients : mine[c] = nil <=> at[c] \in {"idle", "alloc"}
  /\ \A c, d \in Clients : mine[c] = mine[d] /\ mine[c] # nil /\ at[c] # "unlink" => c = d
  /\ \A c \in Clients : at[c] = "unlink" => mine[c] = freeList
  /\ \A c \in Clients : at[c] = "unlock" => nextFree[mine[c]] = freeList

\* q8->waiting counts the client that waits on the request, and no other.
WaitingInv ==
  /\ \A c \in Clients : mine[c] # nil =>
       waiting[mine[c]] = IF at[c] \in {"test", "doze", "asleep"} THEN 1 ELSE 0
  /\ \A r \in Requests : (\A c \in Clients : mine[c] # r) => waiting[r] = 0

Held(r) == \E c \in Clients : mine[c] = r /\ at[c] # "unlink"

\* The free list is s[1], s[2], ... s[n]: the requests that no client holds.
IsFreeList(n, s) ==
  /\ \A i, j \in 1 .. n : s[i] = s[j] => i = j
  /\ freeList = IF n = 0 THEN nil ELSE s[1]
  /\ \A i \in 1 .. n : nextFree[s[i]] = IF i = n THEN nil ELSE s[i + 1]
  /\ \A r \in Requests : Held(r) <=> \A i \in 1 .. n : s[i] # r

FreeListInv == \E n \in 0 .. Slots : \E s \in [1 .. n -> Requests] : IsFreeList(n, s)

\* The items of the ring are those put and not yet consumed; while the master
\* is in qsget it has counted an item that it has not taken.
InGet == master \in {"get", "wait", "test", "doze", "asleep"}
Consumed == IF InGet THEN took - 1 ELSE took

RingInv ==
  /\ Consumed \in Nat /\ Consumed <= put /\ put - Consumed <= Slots
  /\ \A s \in 1 .. Slots : ring[s] # nil <=> \E k \in Consumed .. put - 1 : Slot(k) = s
  /\ \A s, t \in 1 .. Slots : ring[s] # nil /\ ring[s] = ring[t] => s = t

\* A request is asked, executed, answered: in one of these states at a time,
\* and only while its client waits for it.
Asking == {"kick", "cast", "wait", "test", "doze", "asleep"}
InRing(r) == \E s \in 1 .. Slots : ring[s] = r
Executing(r) == master \in {"execute", "reply"} /\ rqst = r
Executed(r) == master = "reply" /\ rqst = r
Unasked(r) == ~InRing(r) /\ ~Executing(r)
Answered(c) == reply[mine[c]] /\ result[mine[c]] = ResultOf(cmd[c]) /\ Unasked(mine[c])
Pending(c) ==
  /\ ~reply[mine[c]] /\ (InRing(mine[c]) <=> ~Executing(mine[c]))
  /\ Executed(mine[c]) \/ result[mine[c]] = -1

Flight(c) ==
  /\ at[c] \in {"parse", "put", "link"} => ~reply[mine[c]]
  /\ at[c] \in {"parse", "put"} => result[mine[c]] = -1
  /\ at[c] \in Asking \cup {"put"} => content[mine[c]] = cmd[c]
  /\ at[c] \in Asking => Pending(c) \/ Answered(c)
  /\ at[c] = "done" => Answered(c)

FlightInv ==
  /\ \A s \in 1 .. Slots : ring[s] # nil =>
       \E c \in Clients : mine[c] = ring[s] /\ at[c] \in Asking
  /\ master \in {"execute", "reply"} =>
       \E c \in Clients : mine[c] = rqst /\ at[c] \in Asking
  /\ master \in {"execute", "reply", "kick", "cast"} => rqst \in Requests
  /\ master = "reply" => result[rqst] = ResultOf(content[rqst])
  /\ \A c \in Clients : Flight(c)

OwnAnswer == \A c \in Clients : at[c] \in {"link", "unlock"} => got[c] = ResultOf(cmd[c])

\* The types, with the places where a client has a request and the master one.
\* They hold whether clients have raced or not.
TypesInv ==
  /\ TypeOK
  /\ \A c \in Clients : mine[c] = nil <=> at[c] \in {"idle", "alloc"}
  /\ InGet => took # 0
  /\ master \in {"execute", "reply", "kick", "cast"} => rqst # nil

EgelInv == TypeOK /\ PlacesInv /\ WaitingInv /\ FreeListInv /\ RingInv /\ FlightInv /\ OwnAnswer

(***************************************************************************)
(* The slots of the ring.                                                  *)
(***************************************************************************)
LEMMA Remainder ==
  ASSUME NEW N \in Nat \ {0}, NEW x \in Nat
  PROVE  x % N \in 0 .. N - 1 /\ x \div N \in Nat /\ x = N * (x \div N) + (x % N)
OBVIOUS

LEMMA OnlyMultiple ==
  ASSUME NEW N \in Nat \ {0}, NEW d \in Int, N * d < N, N * d > -N
  PROVE  d = 0
OBVIOUS

LEMMA RemainderIs ==
  ASSUME NEW N \in Nat \ {0}, NEW a \in Nat, NEW t \in 0 .. N - 1
  PROVE  (N * a + t) % N = t
<1> DEFINE x == N * a + t  b == x \div N  r == x % N
<1>1. x \in Nat
  OBVIOUS
<1>2. r \in 0 .. N - 1 /\ b \in Nat /\ N * a + t = N * b + r
  BY <1>1, Remainder
<1> HIDE DEF x, b, r
<1>3. N * (a - b) = r - t
  BY <1>2
<1>4. a - b = 0
  BY <1>2, <1>3, OnlyMultiple
<1> QED
  BY <1>2, <1>3, <1>4 DEF r, x

LEMMA SlotsOk == Slots \in Nat \ {0} /\ Requests = 1 .. Slots
BY EgelAssumption, FS_CardinalityType DEF Slots

\* A slot is a slot, and comes back after Slots counts and not before.
LEMMA SlotType ==
  ASSUME NEW k \in Nat
  PROVE  Slot(k) \in 1 .. Slots
BY Remainder, SlotsOk DEF Slot

LEMMA SlotsDiffer ==
  ASSUME NEW i \in Nat, NEW j \in Nat, i < j, j - i < Slots
  PROVE  Slot(i) # Slot(j)
<1> DEFINE N == Slots  a == i \div N  b == j \div N  r == i % N
<1>0. i % Slots \in Int /\ j % Slots \in Int
  BY Remainder, SlotsOk
<1> SUFFICES ASSUME i % N = j % N PROVE FALSE
  BY <1>0 DEF Slot
<1>1. r \in 0 .. N - 1 /\ a \in Nat /\ b \in Nat /\ i = N * a + r /\ j = N * b + r /\ N \in Nat \ {0}
  BY Remainder, SlotsOk
<1> HIDE DEF N, a, b, r
<1>2. j - i = N * (b - a) /\ j - i < N
  BY <1>1 DEF N
<1>3. b - a = 0
  BY <1>1, <1>2, OnlyMultiple
<1> QED
  BY <1>1, <1>2, <1>3

LEMMA EverySlotComes ==
  ASSUME NEW i \in Nat, NEW s \in 1 .. Slots
  PROVE  \E k \in i .. i + Slots - 1 : Slot(k) = s
<1> DEFINE N == Slots  a == i \div N  r == i % N  t == s - 1
<1>0. r \in 0 .. N - 1 /\ a \in Nat /\ i = N * a + r
  BY Remainder, SlotsOk
<1>1. r \in 0 .. N - 1 /\ a \in Nat /\ i = N * a + r /\ N \in Nat \ {0} /\ t \in 0 .. N - 1
  BY <1>0, SlotsOk
<1>2. (N * a + t) % N = t /\ (N * (a + 1) + t) % N = t
  BY <1>1, RemainderIs, a + 1 \in Nat
<1>3. N * (a + 1) + t = N * a + N + t
  BY <1>1
<1>4. Slot(N * a + t) = s /\ Slot(N * (a + 1) + t) = s
  BY <1>1, <1>2 DEF Slot
<1> HIDE DEF N, a, r, t
<1>5. CASE t >= r
  <2>1. N * a + t \in i .. i + N - 1
    BY <1>1, <1>5
  <2> QED
    BY <2>1, <1>4 DEF N
<1>6. CASE t < r
  <2>1. N * (a + 1) + t \in i .. i + N - 1
    BY <1>1, <1>3, <1>6
  <2> QED
    BY <2>1, <1>4 DEF N
<1> QED
  BY <1>1, <1>5, <1>6

(***************************************************************************)
(* An injection into the requests.                                         *)
(***************************************************************************)
LEMMA NoMoreThanRequests ==
  ASSUME NEW n \in Nat, NEW s \in [1 .. n -> Requests],
         \A i, j \in 1 .. n : s[i] = s[j] => i = j
  PROVE  n <= Slots
<1> SUFFICES ASSUME n > Slots PROVE FALSE
  BY SlotsOk
<1>1. IsFiniteSet(1 .. n) /\ Cardinality(1 .. n) = n
  BY FS_Interval
<1>2. IsFiniteSet(Requests) /\ Cardinality(Requests) = Slots
  BY EgelAssumption DEF Slots
<1>3. \E i, j \in 1 .. n : i # j /\ s[i] = s[j]
  BY <1>1, <1>2, FS_PigeonHole
<1> QED
  BY <1>3

LEMMA FreeSlotLeft ==
  ASSUME NEW f \in [1 .. Slots -> Requests], NEW r \in Requests,
         \A s \in 1 .. Slots : f[s] # r,
         \A s, t \in 1 .. Slots : f[s] = f[t] => s = t
  PROVE  FALSE
<1> DEFINE others == Requests \ {r}
<1>1. IsFiniteSet(others) /\ Cardinality(others) = Slots - 1
  BY EgelAssumption, FS_RemoveElement DEF Slots
<1>2. IsFiniteSet(1 .. Slots) /\ Cardinality(1 .. Slots) = Slots
  BY SlotsOk, FS_Interval
<1>3. f \in [1 .. Slots -> others]
  OBVIOUS
<1> HIDE DEF others
<1>4. \E i, j \in 1 .. Slots : i # j /\ f[i] = f[j]
  <2>1. Slots - 1 < Slots
    BY SlotsOk
  <2> QED
    <3>1. Cardinality(others) < Cardinality(1 .. Slots)
      BY <1>1, <1>2, <2>1
    <3> QED
      BY <1>1, <1>2, <1>3, <3>1, FS_PigeonHole
<1> QED
  BY <1>4

(***************************************************************************)
(* The places of the clients and the free list.                            *)
(***************************************************************************)
LEMMA EgelInit == Init => EgelInv
<1> SUFFICES ASSUME Init PROVE EgelInv
  OBVIOUS
<1>0. Slots \in Nat \ {0} /\ Requests = 1 .. Slots
  BY SlotsOk
<1>1. TypeOK
  <2>1. (CHOOSE x \in Commands : TRUE) \in Commands
    BY EgelAssumption
  <2>2. Cardinality(Clients) \in Nat /\ MaxCalls \in Nat
    BY EgelAssumption, FS_CardinalityType
  <2>3. nextFree \in [Requests -> Requests \cup {nil}] /\ freeList \in Requests \cup {nil}
    BY <1>0 DEF Init, nil
  <2> QED
    <3>1. PICK x \in Commands : cmd \in [Clients -> {x}] /\ content = [r \in Requests |-> "none"]
      BY <2>1 DEF Init
    <3>2. cmd \in [Clients -> Commands] /\ content \in [Requests -> Commands \cup {"none"}]
      BY <3>1
    <3>3. /\ at \in [Clients -> ClientPlaces] /\ mine \in [Clients -> Requests \cup {nil}]
          /\ got \in [Clients -> {-1, 0, 1}] /\ calls \in 0 .. MaxCalls
      BY <2>2 DEF Init, ClientPlaces
    <3>4. /\ reply \in [Requests -> BOOLEAN] /\ result \in [Requests -> {-1, 0, 1}]
          /\ waiting \in [Requests -> Int]
          /\ ring \in [1 .. Slots -> Requests \cup {nil}]
      BY <2>2 DEF Init
    <3> QED
      BY <2>3, <3>2, <3>3, <3>4 DEF Init, TypeOK, MasterPlaces
<1>2. PlacesInv /\ WaitingInv /\ OwnAnswer
  BY DEF Init, PlacesInv, WaitingInv, OwnAnswer, nil
<1>3. FreeListInv
  <2> DEFINE s == [i \in 1 .. Slots |-> Slots + 1 - i]
  <2>1. s \in [1 .. Slots -> Requests]
    BY <1>0
  <2>2. \A r \in Requests : ~Held(r)
    BY <1>0 DEF Init, Held, nil
  <2>3. \A r \in Requests : Slots + 1 - r \in 1 .. Slots /\ s[Slots + 1 - r] = r
    BY <1>0
  <2>4. freeList = Slots /\ nextFree = [r \in Requests |-> r - 1]
    BY DEF Init
  <2>5. IsFreeList(Slots, s)
    BY <1>0, <2>2, <2>3, <2>4 DEF IsFreeList, nil
  <2> QED
    BY <1>0, <2>1, <2>5 DEF FreeListInv
<1>4. RingInv /\ FlightInv
  BY <1>0 DEF Init, RingInv, FlightInv, Flight, Consumed, InGet, Asking, nil
<1> QED
  BY <1>1, <1>2, <1>3, <1>4 DEF EgelInv

\* The head of the free list is a request that nobody holds.
LEMMA HeadIsFree ==
  ASSUME EgelInv, freeList # nil
  PROVE  freeList \in Requests /\ ~Held(freeList)
<1>0. PICK n \in 0 .. Slots : \E s \in [1 .. n -> Requests] : IsFreeList(n, s)
  BY DEF EgelInv, FreeListInv
<1>1. PICK s \in [1 .. n -> Requests] : IsFreeList(n, s)
  BY <1>0
<1>2. n \in 1 .. n /\ 1 \in 1 .. n /\ freeList = s[1]
  BY <1>1, SlotsOk DEF IsFreeList
<1> QED
  BY <1>1, <1>2 DEF IsFreeList

\* The slot that the master looks at exists, and is the first not consumed.
LEMMA MineIsSlot ==
  ASSUME EgelInv, InGet
  PROVE  Mine \in 1 .. Slots /\ Mine = Slot(Consumed)
BY SlotType DEF EgelInv, RingInv, Consumed, Mine

LEMMA TypesInit == Init => TypesInv
BY EgelInit, SlotsOk DEF Init, EgelInv, TypesInv, InGet, nil

\* The request of a client that has one, and of the master, is a request.
LEMMA TypesUsed ==
  ASSUME TypesInv
  PROVE  /\ \A c \in Clients : at[c] \notin {"idle", "alloc"} => mine[c] \in Requests
         /\ InGet => Mine \in 1 .. Slots
         /\ master \in {"execute", "reply", "kick", "cast"} => rqst \in Requests
<1>1. InGet => took - 1 \in Nat
  BY DEF TypesInv, TypeOK
<1> QED
  BY <1>1, SlotType DEF TypesInv, TypeOK, Mine, nil

LEMMA ClientTypes ==
  ASSUME TypesInv, NEW c \in Clients, Client(c)
  PROVE  TypeOK'
<1> USE DEF nil
<1>0. TypeOK /\ (at[c] \notin {"idle", "alloc"} => mine[c] \in Requests)
  BY TypesUsed DEF TypesInv
<1>2. CASE Call(c)
  <2>1. calls' \in 0 .. MaxCalls
    BY <1>0, <1>2, EgelAssumption DEF TypeOK, Call
  <2>2. PICK x \in Commands : cmd' = [cmd EXCEPT ![c] = x]
    BY <1>2 DEF Call
  <2> QED
    BY <1>0, <1>2, <2>1, <2>2 DEF TypeOK, Call, Goes, rqstVars, ringVars, masterVars, ClientPlaces
<1>3. CASE AllocHead(c)
  BY <1>0, <1>3 DEF TypeOK, AllocHead, Goes, rqstVars, ringVars, masterVars, ClientPlaces
<1>9. CASE AllocUnlink(c)
  <2>1. nextFree[mine[c]] \in Requests \cup {nil}
    BY <1>0, <1>9 DEF TypeOK, AllocUnlink, Goes
  <2> QED
    BY <1>0, <1>9, <2>1 DEF TypeOK, AllocUnlink, WritesHead, Goes, ringVars, masterVars, ClientPlaces
<1>7. CASE Parse(c)
  BY <1>0, <1>7 DEF TypeOK, Parse, Goes, listVars, ringVars, masterVars, ClientPlaces
<1>8. CASE Put(c)
  <2>1. mine[c] \in Requests
    BY <1>0, <1>8 DEF Put, Goes
  <2>2. ring' \in [1 .. Slots -> Requests \cup {nil}]
    BY <1>0, <2>1, <1>8 DEF TypeOK, Put
  <2>3. put' \in Nat /\ at' \in [Clients -> ClientPlaces]
    BY <1>0, <1>8 DEF TypeOK, Put, Goes, ClientPlaces
  <2> QED
    BY <1>0, <1>8, <2>2, <2>3 DEF TypeOK, Put, listVars, rqstVars, masterVars
<1>4. CASE Kick(c) \/ Cast(c) \/ WaitSleep(c) \/ WaitSpurious(c)
  <2>1. at' \in [Clients -> ClientPlaces] /\ master' \in MasterPlaces
    BY <1>0, <1>4 DEF TypeOK, Kick, Cast, WaitSleep, WaitSpurious, Goes, masterVars, ClientPlaces, MasterPlaces
  <2>2. UNCHANGED <<cmd, mine, got, calls, listVars, rqstVars, ringVars, rqst, masterWaits, dpdkdone>>
    BY <1>4 DEF Kick, Cast, WaitSleep, WaitSpurious, masterVars
  <2> QED
    BY <1>0, <2>1, <2>2 DEF TypeOK, listVars, rqstVars, ringVars
<1>5. CASE WaitBegins(c) \/ WaitTest(c)
  <2>1. waiting' \in [Requests -> Int]
    BY <1>0, <1>5 DEF TypeOK, WaitBegins, WaitTest, Goes
  <2>2. at' \in [Clients -> ClientPlaces]
    <3>1. PICK p \in {"test", "done", "doze"} : at' = [at EXCEPT ![c] = p]
      BY <1>5 DEF WaitBegins, WaitTest, Goes
    <3>2. p \in ClientPlaces
      BY DEF ClientPlaces
    <3> QED
      BY <1>0, <3>1, <3>2 DEF TypeOK
  <2>3. UNCHANGED <<cmd, mine, got, calls, listVars, content, reply, result, ringVars, masterVars>>
    BY <1>5 DEF WaitBegins, WaitTest
  <2> QED
    BY <1>0, <2>1, <2>2, <2>3 DEF TypeOK, listVars, ringVars, masterVars
<1>6. CASE Done(c) \/ FreeLink(c) \/ FreeUnlock(c)
  <2>1. CASE Done(c)
    BY <1>0, <2>1 DEF TypeOK, Done, Goes, listVars, ringVars, masterVars, ClientPlaces
  <2>2. CASE FreeLink(c)
    <3>1. PICK p \in {"unlock", "aborted"} : at' = [at EXCEPT ![c] = p]
      BY <2>2 DEF FreeLink, Goes
    <3>2. p \in ClientPlaces
      BY DEF ClientPlaces
    <3>3. nextFree' \in [Requests -> Requests \cup {nil}]
      BY <1>0, <2>2 DEF TypeOK, FreeLink
    <3>4. UNCHANGED <<cmd, mine, got, calls, freeList, locked, raced, rqstVars, ringVars, masterVars>>
      BY <2>2 DEF FreeLink
    <3> QED
      BY <1>0, <3>1, <3>2, <3>3, <3>4 DEF TypeOK, rqstVars, ringVars, masterVars
  <2>3. CASE FreeUnlock(c)
    BY <1>0, <2>3 DEF TypeOK, FreeUnlock, WritesHead, Goes, rqstVars, ringVars, masterVars, ClientPlaces
  <2> QED
    BY <1>6, <2>1, <2>2, <2>3
<1> QED
  BY <1>2, <1>3, <1>4, <1>5, <1>6, <1>7, <1>8, <1>9 DEF Client

LEMMA MasterTypes ==
  ASSUME TypesInv, Master
  PROVE  TypeOK'
<1> USE DEF nil
<1>0. TypeOK
  BY DEF TypesInv
<1>1. InGet => ring[Mine] \in Requests \cup {nil}
  BY <1>0, TypesUsed DEF TypeOK
<1>2. CASE MasterLoop \/ MasterWait \/ MasterSpurious
  BY <1>0, <1>2 DEF TypeOK, MasterLoop, MasterWait, MasterSpurious, MasterGoes, MasterKeeps, listVars, MasterPlaces
<1>3. CASE MasterGet
  BY <1>0, <1>1, <1>3 DEF TypeOK, MasterGet, MasterGoes, MasterKeeps, listVars, MasterPlaces, InGet
<1>4. CASE MasterExecute \/ MasterReply
  <2>1. ResultOf(content[rqst]) \in {-1, 0, 1}
    BY DEF ResultOf
  <2> QED
    BY <1>0, <1>4, <2>1 DEF TypeOK, MasterExecute, MasterReply, MasterGoes, MasterKeeps, listVars, MasterPlaces
<1>5. CASE MasterKick \/ MasterCast
  BY <1>0, <1>5 DEF TypeOK, MasterKick, MasterCast, MasterGoes, MasterKeeps, listVars, MasterPlaces, ClientPlaces
<1> QED
  BY <1>2, <1>3, <1>4, <1>5 DEF Master

\* The steps of a client between rqstalloc and rqstfree, which touch no list.
Waits(c) == WaitBegins(c) \/ WaitTest(c) \/ WaitSleep(c) \/ WaitSpurious(c)
Between(c) == Put(c) \/ Kick(c) \/ Cast(c) \/ Waits(c)

BetweenPlaces == {"put", "kick", "cast", "wait", "test", "doze", "asleep", "done"}

LEMMA BetweenMoves ==
  ASSUME TypeOK, NEW c \in Clients, Between(c)
  PROVE  /\ at[c] \in BetweenPlaces \ {"done"}
         /\ \E p \in BetweenPlaces : at' = [at EXCEPT ![c] = p]
         /\ UNCHANGED <<cmd, mine, got, calls, listVars>>
<1>1. CASE Put(c) \/ Kick(c) \/ Cast(c)
  BY <1>1 DEF Put, Kick, Cast, Goes, BetweenPlaces
<1>2. CASE Waits(c)
  BY <1>2 DEF Waits, WaitBegins, WaitTest, WaitSleep, WaitSpurious, Goes, BetweenPlaces
<1> QED
  BY <1>1, <1>2 DEF Between

\* The master moves clients from their sleep to their test, and that only.
LEMMA MasterMoves ==
  ASSUME TypeOK, Master
  PROVE  /\ UNCHANGED <<cmd, mine, got, calls, listVars, content, put>>
         /\ \A c \in Clients : at'[c] = at[c] \/ (at[c] = "asleep" /\ at'[c] = "test")
         /\ at' \in [Clients -> ClientPlaces]
         /\ UNCHANGED waiting
<1>1. at \in [Clients -> ClientPlaces]
  BY DEF TypeOK
<1>2. CASE MasterCast
  BY <1>1, <1>2 DEF MasterCast, MasterKeeps, ClientPlaces
<1>3. CASE MasterLoop \/ MasterGet \/ MasterWait \/ MasterSpurious
  BY <1>1, <1>3 DEF MasterLoop, MasterGet, MasterWait, MasterSpurious, MasterKeeps
<1>4. CASE MasterExecute \/ MasterReply \/ MasterKick
  BY <1>1, <1>4 DEF MasterExecute, MasterReply, MasterKick, MasterKeeps
<1> QED
  BY <1>2, <1>3, <1>4 DEF Master

LEMMA TypesKept ==
  ASSUME TypesInv, [Next]_vars
  PROVE  TypesInv'
<1> USE DEF nil
<1>0. TypesInv /\ at \in [Clients -> ClientPlaces] /\ mine \in [Clients -> Requests \cup {nil}] /\ took \in Nat
  BY DEF TypesInv, TypeOK
<1> DEFINE Places == \A c \in Clients : mine[c] = nil <=> at[c] \in {"idle", "alloc"}
           Consuming == (InGet => took # 0) /\ (master \in {"execute", "reply", "kick", "cast"} => rqst # nil)
<1>1. ASSUME NEW c \in Clients, Client(c) PROVE Places' /\ Consuming'
  <2>1. Places'
    <3>1. CASE Call(c) \/ AllocHead(c)
      BY <1>0, <3>1 DEF TypesInv, TypeOK, Call, AllocHead, Goes
    <3>2. CASE AllocUnlink(c) \/ Parse(c) \/ Done(c)
      BY <1>0, <3>2 DEF TypesInv, AllocUnlink, Parse, Done, Goes
    <3>3. CASE Between(c)
      BY <1>0, <3>3, BetweenMoves DEF TypesInv, BetweenPlaces
    <3>4. CASE FreeLink(c)
      BY <1>0, <3>4 DEF TypesInv, FreeLink, Goes
    <3>5. CASE FreeUnlock(c)
      BY <1>0, <3>5 DEF TypesInv, FreeUnlock, Goes
    <3> QED
      BY <1>1, <3>1, <3>2, <3>3, <3>4, <3>5 DEF Client, Between, Waits
  <2>2. took' = took /\ rqst' = rqst /\ (master' = master \/ (master = "asleep" /\ master' = "test"))
    <3>1. CASE Cast(c)
      BY <3>1 DEF Cast, ringVars
    <3>2. CASE Put(c)
      BY <3>2 DEF Put, masterVars
    <3>3. CASE Call(c) \/ AllocHead(c) \/ AllocUnlink(c) \/ Parse(c) \/ Kick(c) \/ Done(c) \/ FreeLink(c) \/ FreeUnlock(c)
      BY <3>3 DEF Call, AllocHead, AllocUnlink, Parse, Kick, Done, FreeLink, FreeUnlock, ringVars, masterVars
    <3>4. CASE Waits(c)
      BY <3>4 DEF Waits, WaitBegins, WaitTest, WaitSleep, WaitSpurious, ringVars, masterVars
    <3> QED
      BY <1>1, <3>1, <3>2, <3>3, <3>4 DEF Client, Waits
  <2> QED
    BY <1>0, <2>1, <2>2 DEF TypesInv, InGet
<1>2. ASSUME Master PROVE Places' /\ Consuming'
  <2>1. Places'
    BY <1>0, <1>2, MasterMoves DEF TypesInv
  <2>2. CASE MasterLoop \/ MasterWait \/ MasterSpurious \/ MasterKick \/ MasterCast
    BY <1>0, <2>1, <2>2
    DEF TypesInv, InGet, MasterLoop, MasterWait, MasterSpurious, MasterKick, MasterCast, MasterGoes
  <2>3. CASE MasterGet \/ MasterExecute \/ MasterReply
    BY <1>0, <2>1, <2>3 DEF TypesInv, InGet, MasterGet, MasterExecute, MasterReply, MasterGoes
  <2> QED
    BY <1>2, <2>2, <2>3 DEF Master
<1>3. CASE UNCHANGED vars
  BY <1>3 DEF TypesInv, TypeOK, InGet, vars, clientVars, listVars, rqstVars, ringVars, masterVars
<1> QED
  BY <1>0, <1>1, <1>2, <1>3, ClientTypes, MasterTypes DEF TypesInv, Next

LEMMA PlacesKept ==
  ASSUME EgelInv, Next, ~raced'
  PROVE  PlacesInv'
<1> USE DEF EgelInv, nil
<1>0. PlacesInv /\ TypeOK /\ at \in [Clients -> ClientPlaces] /\ mine \in [Clients -> Requests \cup {nil}]
  BY DEF TypeOK
<1>m. Requests = 1 .. Slots /\ Slots \in Nat
  BY SlotsOk
<1>1. ASSUME NEW c \in Clients, Call(c) PROVE PlacesInv'
  BY <1>0, <1>1 DEF PlacesInv, Call, Goes
<1>2. ASSUME NEW c \in Clients, AllocHead(c) PROVE PlacesInv'
  <2>1. freeList # nil => \A d \in Clients : mine[d] = freeList => at[d] = "unlink"
    BY <1>0, HeadIsFree DEF Held
  <2> QED
    BY <1>0, <1>2, <2>1 DEF PlacesInv, AllocHead, Goes
<1>3. ASSUME NEW c \in Clients, AllocUnlink(c) PROVE PlacesInv'
  BY <1>0, <1>3 DEF PlacesInv, AllocUnlink, WritesHead, Meets, Goes
<1>4. ASSUME NEW c \in Clients, Parse(c) PROVE PlacesInv'
  BY <1>0, <1>4 DEF PlacesInv, Parse, Goes, listVars
<1>5. ASSUME NEW c \in Clients, Between(c) PROVE PlacesInv'
  BY <1>0, <1>5, BetweenMoves DEF PlacesInv, listVars, BetweenPlaces
<1>6. ASSUME NEW c \in Clients, Done(c) PROVE PlacesInv'
  BY <1>0, <1>6 DEF PlacesInv, Done, Goes, listVars
<1>7. ASSUME NEW c \in Clients, FreeLink(c) PROVE PlacesInv'
  <2>1. ~reply[mine[c]] /\ mine[c] \in Requests
    BY <1>0, <1>7 DEF PlacesInv, FlightInv, Flight, FreeLink, Goes
  <2>2. nextFree' = [nextFree EXCEPT ![mine[c]] = freeList] /\ at' = [at EXCEPT ![c] = "unlock"]
    BY <1>7, <2>1 DEF FreeLink, Goes
  <2>3. nextFree'[mine[c]] = freeList
    BY <1>0, <2>1, <2>2 DEF TypeOK
  <2> QED
    BY <1>0, <1>7, <2>2, <2>3 DEF PlacesInv, FreeLink
<1>8. ASSUME NEW c \in Clients, FreeUnlock(c) PROVE PlacesInv'
  BY <1>0, <1>8 DEF PlacesInv, FreeUnlock, WritesHead, Meets, Goes
<1>9. ASSUME Master PROVE PlacesInv'
  BY <1>0, <1>9, MasterMoves DEF PlacesInv, listVars
<1> QED
  BY <1>1, <1>2, <1>3, <1>4, <1>5, <1>6, <1>7, <1>8, <1>9 DEF Next, Client, Between, Waits

LEMMA WaitingKept ==
  ASSUME EgelInv, Next
  PROVE  WaitingInv'
<1> USE DEF EgelInv, nil
<1>0. /\ WaitingInv /\ at \in [Clients -> ClientPlaces] /\ mine \in [Clients -> Requests \cup {nil}]
      /\ waiting \in [Requests -> Int]
  BY DEF TypeOK
<1>m. /\ Requests = 1 .. Slots /\ Slots \in Nat
      /\ \A c \in Clients : mine[c] = nil <=> at[c] \in {"idle", "alloc"}
      /\ \A c, d \in Clients : mine[c] = mine[d] /\ mine[c] # nil /\ at[c] # "unlink" => c = d
  BY SlotsOk DEF PlacesInv
<1>1. ASSUME NEW c \in Clients, Call(c) PROVE WaitingInv'
  BY <1>0, <1>m, <1>1 DEF WaitingInv, Call, Goes, rqstVars
<1>2. ASSUME NEW c \in Clients, AllocHead(c) PROVE WaitingInv'
  <2>1. CASE freeList = nil
    BY <1>0, <1>m, <1>2, <2>1 DEF WaitingInv, AllocHead, Goes, rqstVars
  <2>2. CASE freeList # nil
    <3>1. freeList \in Requests /\ \A d \in Clients : mine[d] = freeList => at[d] = "unlink"
      BY <2>2, HeadIsFree DEF Held
    <3>2. waiting[freeList] = 0
      BY <1>0, <1>m, <3>1, <2>2 DEF WaitingInv
    <3>3. mine' = [mine EXCEPT ![c] = freeList] /\ at' = [at EXCEPT ![c] = "unlink"] /\ waiting' = waiting
      BY <1>2, <2>2 DEF AllocHead, Goes, rqstVars
    <3> QED
      BY <1>0, <1>m, <1>2, <3>1, <3>2, <3>3 DEF WaitingInv, AllocHead
  <2> QED
    BY <2>1, <2>2
<1>3. ASSUME NEW c \in Clients, AllocUnlink(c) \/ Parse(c) \/ Done(c) \/ Put(c) \/ Kick(c) \/ Cast(c)
      PROVE WaitingInv'
  <2>1. \E p \in {"parse", "put", "link", "kick", "cast", "wait"} : at' = [at EXCEPT ![c] = p]
    BY <1>3 DEF AllocUnlink, Parse, Done, Put, Kick, Cast, Goes
  <2>2. UNCHANGED <<mine, waiting>> /\ at[c] \notin {"test", "doze", "asleep"}
    BY <1>3 DEF AllocUnlink, Parse, Done, Put, Kick, Cast, Goes, rqstVars
  <2> QED
    BY <1>0, <2>1, <2>2 DEF WaitingInv
<1>4. ASSUME NEW c \in Clients, Waits(c) PROVE WaitingInv'
  <2>1. mine[c] \in Requests /\ mine' = mine
    BY <1>0, <1>m, <1>4 DEF Waits, WaitBegins, WaitTest, WaitSleep, WaitSpurious, Goes
  <2>2. CASE WaitBegins(c)
    <3>0. at[c] = "wait" /\ waiting[mine[c]] = 0
      BY <1>0, <1>m, <2>1, <2>2 DEF WaitingInv, WaitBegins, Goes
    <3>1. waiting' = [waiting EXCEPT ![mine[c]] = 1] /\ at' = [at EXCEPT ![c] = "test"]
      BY <3>0, <2>2 DEF WaitBegins, Goes
    <3>2. \A d \in Clients : mine[d] = mine[c] => d = c
      BY <1>m, <2>1, <3>0
    <3> QED
      BY <1>0, <1>m, <2>1, <3>0, <3>1, <3>2 DEF WaitingInv
  <2>3. CASE WaitTest(c) /\ waiting' # waiting
    <3>0. at[c] = "test" /\ waiting[mine[c]] = 1
      BY <1>0, <1>m, <2>1, <2>3 DEF WaitingInv, WaitTest, Goes
    <3>1. waiting' = [waiting EXCEPT ![mine[c]] = 0] /\ at' = [at EXCEPT ![c] = "done"]
      BY <2>3, <3>0 DEF WaitTest, Goes
    <3>2. \A d \in Clients : mine[d] = mine[c] => d = c
      BY <1>m, <2>1, <3>0
    <3> QED
      BY <1>0, <1>m, <2>1, <3>0, <3>1, <3>2 DEF WaitingInv
  <2>4. CASE (WaitTest(c) /\ waiting' = waiting) \/ WaitSleep(c) \/ WaitSpurious(c)
    <3>1. waiting' = waiting /\ at[c] \in {"test", "doze", "asleep"}
      BY <2>4 DEF WaitTest, WaitSleep, WaitSpurious, Goes, rqstVars
    <3>2. \E p \in {"test", "doze", "asleep"} : at' = [at EXCEPT ![c] = p]
      <4>1. ~(waiting' = [waiting EXCEPT ![mine[c]] = @ - 1])
        BY <1>0, <1>m, <2>1, <3>1 DEF WaitingInv
      <4> QED
        BY <2>4, <4>1 DEF WaitTest, WaitSleep, WaitSpurious, Goes
    <3> QED
      BY <1>0, <2>1, <3>1, <3>2 DEF WaitingInv
  <2> QED
    BY <1>4, <2>2, <2>3, <2>4 DEF Waits
<1>5. ASSUME NEW c \in Clients, FreeLink(c) \/ FreeUnlock(c) PROVE WaitingInv'
  <2>1. CASE FreeLink(c)
    BY <1>0, <2>1 DEF WaitingInv, FreeLink, Goes, rqstVars
  <2>2. CASE FreeUnlock(c)
    BY <1>0, <1>m, <2>2 DEF WaitingInv, FreeUnlock, Goes, rqstVars
  <2> QED
    BY <1>5, <2>1, <2>2
<1>6. ASSUME Master PROVE WaitingInv'
  BY <1>0, <1>6, MasterMoves DEF WaitingInv
<1> QED
  BY <1>1, <1>2, <1>3, <1>4, <1>5, <1>6 DEF Next, Client, Waits

(***************************************************************************)
(* The free list holds the requests that nobody holds.                     *)
(***************************************************************************)
LEMMA SameFreeList ==
  ASSUME FreeListInv, UNCHANGED <<freeList, nextFree>>,
         \A r \in Requests : Held(r)' <=> Held(r)
  PROVE  FreeListInv'
<1>1. PICK n \in 0 .. Slots : \E s \in [1 .. n -> Requests] : IsFreeList(n, s)
  BY DEF FreeListInv
<1>2. PICK s \in [1 .. n -> Requests] : IsFreeList(n, s)
  BY <1>1
<1>3. IsFreeList(n, s)'
  BY <1>2 DEF IsFreeList
<1> QED
  BY <1>3 DEF FreeListInv

LEMMA FreeListKept ==
  ASSUME EgelInv, Next, ~raced'
  PROVE  FreeListInv'
<1> USE DEF EgelInv, nil
<1>0. /\ FreeListInv /\ at \in [Clients -> ClientPlaces] /\ mine \in [Clients -> Requests \cup {nil}]
      /\ nextFree \in [Requests -> Requests \cup {nil}]
  BY DEF TypeOK
<1>m. /\ Requests = 1 .. Slots /\ Slots \in Nat
      /\ \A c \in Clients : mine[c] = nil <=> at[c] \in {"idle", "alloc"}
      /\ \A c, d \in Clients : mine[c] = mine[d] /\ mine[c] # nil /\ at[c] # "unlink" => c = d
  BY SlotsOk DEF PlacesInv
<1>n. PICK n \in 0 .. Slots : \E s \in [1 .. n -> Requests] : IsFreeList(n, s)
  BY <1>0 DEF FreeListInv
<1>s. PICK s \in [1 .. n -> Requests] : IsFreeList(n, s)
  BY <1>n
<1>1. ASSUME NEW c \in Clients, AllocUnlink(c) PROVE FreeListInv'
  <2> DEFINE s1 == [i \in 1 .. n - 1 |-> s[i + 1]]
  <2>1. mine[c] = freeList /\ mine[c] \in Requests /\ n \in 1 .. Slots /\ s[1] = mine[c]
    BY <1>0, <1>m, <1>1, <1>s DEF AllocUnlink, Goes, IsFreeList, PlacesInv
  <2>2. s1 \in [1 .. n - 1 -> Requests] /\ n - 1 \in 0 .. Slots
    <3>1. \A i \in 1 .. n - 1 : i + 1 \in 1 .. n
      BY <2>1
    <3>2. \A i \in 1 .. n - 1 : s[i + 1] \in Requests
      BY <3>1
    <3>3. n - 1 \in 0 .. Slots
      BY <1>m, <2>1
    <3> QED
      BY <3>2, <3>3
  <2>3. \A r \in Requests : Held(r)' <=> (Held(r) \/ r = mine[c])
    BY <1>0, <1>1, <2>1 DEF AllocUnlink, Goes, Held
  <2>4. freeList' = IF n = 1 THEN nil ELSE s[2]
    BY <1>1, <1>s, <2>1 DEF AllocUnlink, WritesHead, IsFreeList
  <2>5. \A r \in Requests : (\A i \in 1 .. n - 1 : s1[i] # r) <=> (\A i \in 1 .. n : s[i] # r) \/ r = s[1]
    <3>1. \A i \in 1 .. n : i = 1 \/ (i - 1 \in 1 .. n - 1 /\ s1[i - 1] = s[i])
      BY <2>1
    <3>2. \A i \in 1 .. n - 1 : s1[i] = s[i + 1] /\ s[i + 1] # s[1]
      BY <2>1, <1>s DEF IsFreeList
    <3> QED
      BY <2>1, <3>1, <3>2
  <2>6. IsFreeList(n - 1, s1)'
    <3>1. \A i, j \in 1 .. n - 1 : s1[i] = s1[j] => i = j
      BY <1>s, <2>1 DEF IsFreeList
    <3>2. \A i \in 1 .. n - 1 : nextFree[s1[i]] = IF i = n - 1 THEN nil ELSE s1[i + 1]
      BY <1>s, <2>1 DEF IsFreeList
    <3>3. freeList' = IF n - 1 = 0 THEN nil ELSE s1[1]
      BY <2>1, <2>4
    <3>4. \A r \in Requests : Held(r)' <=> \A i \in 1 .. n - 1 : s1[i] # r
      BY <1>s, <2>1, <2>3, <2>5 DEF IsFreeList
    <3> HIDE DEF s1
    <3> QED
      BY <1>1, <3>1, <3>2, <3>3, <3>4 DEF IsFreeList, AllocUnlink
  <2> HIDE DEF s1
  <2> QED
    BY <2>2, <2>6 DEF FreeListInv
<1>2. ASSUME NEW c \in Clients, FreeLink(c) PROVE FreeListInv'
  <2>1. mine[c] \in Requests /\ Held(mine[c]) /\ ~reply[mine[c]]
    BY <1>0, <1>m, <1>2 DEF FreeLink, Goes, FlightInv, Flight, Held
  <2>2. \A r \in Requests : Held(r)' <=> Held(r)
    BY <1>0, <1>2 DEF FreeLink, Goes, Held
  <2>3. \A i \in 1 .. n : s[i] # mine[c]
    BY <1>s, <2>1 DEF IsFreeList
  <2>4. \A i \in 1 .. n : nextFree'[s[i]] = nextFree[s[i]]
    BY <1>0, <1>2, <2>1, <2>3 DEF FreeLink
  <2>5. IsFreeList(n, s)'
    BY <1>2, <1>s, <2>2, <2>4 DEF IsFreeList, FreeLink
  <2> QED
    BY <2>5 DEF FreeListInv
<1>3. ASSUME NEW c \in Clients, FreeUnlock(c) PROVE FreeListInv'
  <2>1. mine[c] \in Requests /\ Held(mine[c]) /\ nextFree[mine[c]] = freeList
    BY <1>0, <1>m, <1>3 DEF FreeUnlock, Goes, PlacesInv, Held
  <2>2. PICK s1 \in [1 .. n + 1 -> Requests] :
          s1 = [i \in 1 .. n + 1 |-> IF i = 1 THEN mine[c] ELSE s[i - 1]]
    <3>1. [i \in 1 .. n + 1 |-> IF i = 1 THEN mine[c] ELSE s[i - 1]] \in [1 .. n + 1 -> Requests]
      BY <1>s, <2>1
    <3> QED
      BY <3>1
  <2>3. \A r \in Requests : Held(r)' <=> Held(r) /\ r # mine[c]
    BY <1>0, <1>m, <1>3, <2>1 DEF FreeUnlock, Goes, Held
  <2>4. \A i \in 1 .. n : s[i] # mine[c]
    BY <1>s, <2>1 DEF IsFreeList
  <2>5. s1[1] = mine[c] /\ \A i \in 1 .. n : s1[i + 1] = s[i]
    BY <2>2
  <2>6. \A i \in 1 .. n + 1 : i = 1 \/ (i - 1 \in 1 .. n /\ s1[i] = s[i - 1])
    BY <2>2
  <2>7. \A i, j \in 1 .. n + 1 : s1[i] = s1[j] => i = j
    <3> SUFFICES ASSUME NEW i \in 1 .. n + 1, NEW j \in 1 .. n + 1, s1[i] = s1[j] PROVE i = j
      OBVIOUS
    <3>1. CASE i = 1
      BY <2>4, <2>5, <2>6, <3>1
    <3>2. CASE j = 1
      BY <2>4, <2>5, <2>6, <3>2
    <3>3. CASE i # 1 /\ j # 1
      <4>1. i - 1 = j - 1
        BY <1>s, <2>6, <3>3 DEF IsFreeList
      <4> QED
        BY <4>1
    <3> QED
      BY <3>1, <3>2, <3>3
  <2>8. n + 1 \in 0 .. Slots
    BY <2>7, NoMoreThanRequests, n + 1 \in Nat
  <2>9. IsFreeList(n + 1, s1)'
    <3>1. freeList' = s1[1]
      BY <1>3, <2>5 DEF FreeUnlock, WritesHead
    <3>2. nextFree' = nextFree
      BY <1>3 DEF FreeUnlock, WritesHead
    <3>3. \A i \in 1 .. n + 1 : nextFree[s1[i]] = IF i = n + 1 THEN nil ELSE s1[i + 1]
      <4> SUFFICES ASSUME NEW i \in 1 .. n + 1
                   PROVE nextFree[s1[i]] = IF i = n + 1 THEN nil ELSE s1[i + 1]
        OBVIOUS
      <4>1. CASE i = 1
        BY <1>s, <2>1, <2>5, <4>1 DEF IsFreeList
      <4>2. CASE i # 1
        BY <1>s, <2>5, <2>6, <4>2 DEF IsFreeList
      <4> QED
        BY <4>1, <4>2
    <3>4. \A r \in Requests : (\A i \in 1 .. n + 1 : s1[i] # r) <=> (\A i \in 1 .. n : s[i] # r) /\ r # mine[c]
      <4>1. 1 \in 1 .. n + 1 /\ \A i \in 1 .. n : i + 1 \in 1 .. n + 1
        OBVIOUS
      <4> QED
        BY <2>5, <2>6, <4>1
    <3>5. \A r \in Requests : Held(r)' <=> \A i \in 1 .. n + 1 : s1[i] # r
      BY <1>s, <2>3, <3>4 DEF IsFreeList
    <3> QED
      BY <3>1, <3>2, <3>3, <3>5, <2>7, <2>8 DEF IsFreeList
  <2> QED
    BY <2>8, <2>9 DEF FreeListInv
<1>4. ASSUME NEW c \in Clients, Call(c) \/ AllocHead(c) PROVE FreeListInv'
  <2>1. \A r \in Requests : Held(r)' <=> Held(r)
    BY <1>0, <1>m, <1>4 DEF Call, AllocHead, Goes, Held
  <2> QED
    BY <1>0, <1>4, <2>1, SameFreeList DEF Call, AllocHead
<1>5. ASSUME NEW c \in Clients, Parse(c) \/ Between(c) \/ Done(c) PROVE FreeListInv'
  <2>1. at[c] # "unlink" /\ \E p \in BetweenPlaces \cup {"link"} : at' = [at EXCEPT ![c] = p]
    BY <1>5, BetweenMoves DEF Parse, Done, Goes, BetweenPlaces
  <2>2. UNCHANGED <<mine, freeList, nextFree>>
    BY <1>5, BetweenMoves DEF Parse, Done, listVars
  <2>3. \A r \in Requests : Held(r)' <=> Held(r)
    BY <1>0, <2>1, <2>2 DEF Held, BetweenPlaces
  <2> QED
    BY <1>0, <2>2, <2>3, SameFreeList
<1>6. ASSUME Master PROVE FreeListInv'
  <2>1. \A r \in Requests : Held(r)' <=> Held(r)
    BY <1>0, <1>6, MasterMoves DEF Held
  <2> QED
    BY <1>0, <1>6, <2>1, MasterMoves, SameFreeList DEF listVars
<1> QED
  BY <1>1, <1>2, <1>3, <1>4, <1>5, <1>6 DEF Next, Client, Between, Waits

(***************************************************************************)
(* The ring.                                                               *)
(***************************************************************************)
\* While a client that does not ask holds a request, the next slot is free.
LEMMA SlotLeft ==
  ASSUME TypeOK, RingInv, NEW r \in Requests, ~InRing(r)
  PROVE  ring[Slot(put)] = nil /\ put - Consumed < Slots
<1> USE DEF nil
<1>0. /\ Slots \in Nat \ {0} /\ put \in Nat /\ Consumed \in Nat /\ Consumed <= put
      /\ put - Consumed <= Slots /\ ring \in [1 .. Slots -> Requests \cup {nil}]
  BY SlotsOk DEF RingInv, TypeOK
<1>1. put - Consumed < Slots
  <2> SUFFICES ASSUME put - Consumed = Slots PROVE FALSE
    BY <1>0
  <2>1. put - 1 = Consumed + Slots - 1
    BY <1>0
  <2>2. \A s \in 1 .. Slots : \E k \in Consumed .. put - 1 : Slot(k) = s
    BY <1>0, <2>1, EverySlotComes
  <2>3. \A s \in 1 .. Slots : ring[s] \in Requests
    BY <1>0, <2>2 DEF RingInv
  <2>4. ring \in [1 .. Slots -> Requests]
    BY <1>0, <2>3
  <2> QED
    <3>1. \A s \in 1 .. Slots : ring[s] # r
      BY DEF InRing
    <3>2. \A s, t \in 1 .. Slots : ring[s] = ring[t] => s = t
      BY <1>0, <2>2 DEF RingInv
    <3> QED
      BY <2>4, <3>1, <3>2, FreeSlotLeft
<1>2. ring[Slot(put)] = nil
  <2> SUFFICES ASSUME ring[Slot(put)] # nil PROVE FALSE
    OBVIOUS
  <2>1. Slot(put) \in 1 .. Slots
    BY <1>0, SlotType
  <2>2. PICK k \in Consumed .. put - 1 : Slot(k) = Slot(put)
    BY <2>1 DEF RingInv
  <2>3. k \in Nat /\ k < put /\ put - k < Slots
    BY <1>0, <1>1
  <2> QED
    BY <1>0, <2>2, <2>3, SlotsDiffer
<1> QED
  BY <1>1, <1>2

\* Nothing but a client that asks holds a request of the ring or of the master.
LEMMA UnaskedUnlessAsking ==
  ASSUME EgelInv, NEW c \in Clients, mine[c] # nil, at[c] \notin Asking
  PROVE  mine[c] \in Requests /\ Unasked(mine[c])
BY SlotsOk DEF EgelInv, TypeOK, PlacesInv, FlightInv, Unasked, InRing, Executing, nil

LEMMA SameRing ==
  ASSUME RingInv, UNCHANGED <<ring, put>>, Consumed' = Consumed
  PROVE  RingInv'
BY DEF RingInv

LEMMA RingKept ==
  ASSUME EgelInv, Next
  PROVE  RingInv'
<1> USE DEF EgelInv, nil
<1>0. /\ RingInv /\ Slots \in Nat \ {0} /\ Requests = 1 .. Slots
      /\ put \in Nat /\ took \in Nat /\ Consumed \in Nat /\ Consumed <= put
      /\ put - Consumed <= Slots /\ ring \in [1 .. Slots -> Requests \cup {nil}]
  BY SlotsOk DEF RingInv, TypeOK
<1>1. ASSUME NEW c \in Clients, Put(c) PROVE RingInv'
  <2>1. /\ at[c] = "put" /\ ring' = [ring EXCEPT ![Slot(put)] = mine[c]] /\ put' = put + 1
        /\ UNCHANGED <<took, master>>
    BY <1>1 DEF Put, Goes, masterVars
  <2>2. mine[c] \in Requests /\ mine[c] # nil /\ ~InRing(mine[c])
    BY <2>1, UnaskedUnlessAsking DEF PlacesInv, Asking, Unasked
  <2>3. ring[Slot(put)] = nil /\ put - Consumed < Slots /\ Slot(put) \in 1 .. Slots
    BY <1>0, <2>2, SlotLeft, SlotType
  <2>4. Consumed' = Consumed
    BY <2>1 DEF Consumed, InGet
  <2>5. \A s \in 1 .. Slots : ring'[s] # nil <=> \E k \in Consumed .. put : Slot(k) = s
    <3> SUFFICES ASSUME NEW s \in 1 .. Slots
                 PROVE ring'[s] # nil <=> \E k \in Consumed .. put : Slot(k) = s
      OBVIOUS
    <3>1. put \in Consumed .. put /\ \A k \in Consumed .. put : k = put \/ k \in Consumed .. put - 1
      BY <1>0
    <3>2. \A k \in Consumed .. put - 1 : k \in Consumed .. put
      BY <1>0
    <3>3. CASE s = Slot(put)
      BY <1>0, <2>1, <2>2, <3>1, <3>3
    <3>4. CASE s # Slot(put)
      BY <1>0, <2>1, <3>1, <3>2, <3>4 DEF RingInv
    <3> QED
      BY <3>3, <3>4
  <2>6. \A s, t \in 1 .. Slots : ring'[s] # nil /\ ring'[s] = ring'[t] => s = t
    BY <1>0, <2>1, <2>2, <2>3 DEF RingInv, InRing
  <2>7. put' - 1 = put /\ put' - Consumed' <= Slots /\ Consumed' <= put'
    BY <1>0, <2>1, <2>3, <2>4
  <2> QED
    BY <1>0, <2>4, <2>5, <2>6, <2>7 DEF RingInv
<1>2. ASSUME NEW c \in Clients, Client(c), ~Put(c) PROVE RingInv'
  <2>1. CASE Call(c) \/ AllocHead(c) \/ AllocUnlink(c) \/ Parse(c) \/ Kick(c) \/ Waits(c) \/ Done(c)
             \/ FreeLink(c) \/ FreeUnlock(c)
    <3>1. UNCHANGED <<ring, put, took, master>>
      BY <2>1 DEF Call, AllocHead, AllocUnlink, Parse, Kick, Waits, WaitBegins, WaitTest, WaitSleep, WaitSpurious,
                  Done, FreeLink, FreeUnlock, ringVars, masterVars
    <3> QED
      BY <1>0, <3>1, SameRing DEF Consumed, InGet
  <2>2. CASE Cast(c)
    BY <1>0, <2>2, SameRing DEF Cast, ringVars, Consumed, InGet
  <2> QED
    BY <1>2, <2>1, <2>2 DEF Client, Waits
<1>3. ASSUME MasterGet, ring[Mine] # nil PROVE RingInv'
  <2>1. InGet /\ ~InGet' /\ took' = took /\ put' = put /\ ring' = [ring EXCEPT ![Mine] = nil]
    BY <1>3 DEF MasterGet, MasterGoes, MasterKeeps, InGet
  <2>2. Consumed = took - 1 /\ Consumed' = Consumed + 1 /\ Mine = Slot(Consumed) /\ Mine \in 1 .. Slots
    BY <1>0, <2>1, MineIsSlot DEF Consumed
  <2>3. Consumed < put
    BY <1>0, <1>3, <2>2 DEF RingInv
  <2>4. \A k \in Consumed' .. put - 1 : Slot(k) # Mine
    <3> SUFFICES ASSUME NEW k \in Consumed + 1 .. put - 1 PROVE Slot(k) # Slot(Consumed)
      BY <2>2
    <3>1. k \in Nat /\ Consumed < k /\ k - Consumed < Slots
      BY <1>0
    <3> QED
      BY <1>0, <3>1, SlotsDiffer
  <2>5. \A s \in 1 .. Slots : ring'[s] # nil <=> \E k \in Consumed' .. put - 1 : Slot(k) = s
    <3> SUFFICES ASSUME NEW s \in 1 .. Slots
                 PROVE ring'[s] # nil <=> \E k \in Consumed' .. put - 1 : Slot(k) = s
      OBVIOUS
    <3>1. /\ \A k \in Consumed .. put - 1 : k = Consumed \/ k \in Consumed' .. put - 1
          /\ \A k \in Consumed' .. put - 1 : k \in Consumed .. put - 1
      BY <1>0, <2>2
    <3>2. CASE s = Mine
      BY <1>0, <2>1, <2>4, <3>2
    <3>3. CASE s # Mine
      BY <1>0, <2>1, <2>2, <3>1, <3>3 DEF RingInv
    <3> QED
      BY <3>2, <3>3
  <2>6. \A s, t \in 1 .. Slots : ring'[s] # nil /\ ring'[s] = ring'[t] => s = t
    BY <1>0, <2>1, <2>2 DEF RingInv
  <2>7. Consumed' \in Nat /\ Consumed' <= put' /\ put' - Consumed' <= Slots
    BY <1>0, <2>1, <2>2, <2>3
  <2> QED
    BY <2>1, <2>5, <2>6, <2>7 DEF RingInv
<1>4. ASSUME MasterGet, ring[Mine] = nil PROVE RingInv'
  <2>1. UNCHANGED <<ring, put, took>> /\ InGet /\ InGet'
    BY <1>4 DEF MasterGet, MasterGoes, MasterKeeps, InGet
  <2> QED
    BY <1>0, <2>1, SameRing DEF Consumed
<1>5. ASSUME Master, ~MasterGet PROVE RingInv'
  <2>1. ring' = ring /\ put' = put /\ Consumed' = Consumed
    <3>1. CASE MasterLoop
      BY <1>0, <3>1 DEF MasterLoop, MasterGoes, MasterKeeps, Consumed, InGet
    <3>2. CASE MasterWait \/ MasterSpurious
      BY <3>2 DEF MasterWait, MasterSpurious, MasterGoes, MasterKeeps, Consumed, InGet
    <3>3. CASE MasterExecute \/ MasterReply \/ MasterKick \/ MasterCast
      BY <3>3 DEF MasterExecute, MasterReply, MasterKick, MasterCast, MasterGoes, MasterKeeps, Consumed, InGet
    <3> QED
      BY <1>5, <3>1, <3>2, <3>3 DEF Master
  <2> QED
    BY <1>0, <2>1, SameRing
<1> QED
  BY <1>1, <1>2, <1>3, <1>4, <1>5 DEF Next

(***************************************************************************)
(* A request and its answer.                                               *)
(***************************************************************************)
\* A client is not concerned by what happens to other requests.
LEMMA FlightOfOthers ==
  ASSUME EgelInv, NEW d \in Clients,
         mine'[d] = mine[d], cmd'[d] = cmd[d],
         at'[d] = at[d] \/ (at[d] = "asleep" /\ at'[d] = "test"),
         mine[d] # nil =>
           /\ content'[mine[d]] = content[mine[d]]
           /\ reply'[mine[d]] = reply[mine[d]]
           /\ result'[mine[d]] = result[mine[d]]
           /\ InRing(mine[d])' <=> InRing(mine[d])
           /\ Executing(mine[d])' <=> Executing(mine[d])
           /\ Executed(mine[d])' <=> Executed(mine[d])
  PROVE  Flight(d)'
<1>1. Flight(d) /\ (mine[d] = nil => at[d] \in {"idle", "alloc"})
  BY DEF EgelInv, FlightInv, PlacesInv
<1>2. CASE mine[d] = nil
  BY <1>1, <1>2 DEF Flight, Asking
<1>3. CASE mine[d] # nil
  <2>1. (Pending(d)' <=> Pending(d)) /\ (Answered(d)' <=> Answered(d))
    BY <1>3 DEF Pending, Answered, Unasked
  <2> QED
    BY <1>1, <1>3, <2>1 DEF Flight, Asking
<1> QED
  BY <1>2, <1>3

\* A client that neither asks nor starts to ask changes only its own request.
LEMMA FlightKeptOutside ==
  ASSUME EgelInv, NEW c \in Clients, at[c] \notin Asking,
         \E p \in ClientPlaces \ Asking : at' = [at EXCEPT ![c] = p],
         \A d \in Clients \ {c} : mine'[d] = mine[d] /\ cmd'[d] = cmd[d],
         \A r \in Requests : r # mine[c] =>
           content'[r] = content[r] /\ reply'[r] = reply[r] /\ result'[r] = result[r],
         UNCHANGED <<ring, master, rqst>>,
         Flight(c)'
  PROVE  FlightInv'
<1> USE DEF nil
<1>0. /\ FlightInv /\ at \in [Clients -> ClientPlaces] /\ mine \in [Clients -> Requests \cup {nil}]
      /\ \A d, e \in Clients : mine[d] = mine[e] /\ mine[d] # nil /\ at[d] # "unlink" => d = e
      /\ 0 \notin Requests
      /\ ring \in [1 .. Slots -> Requests \cup {nil}]
  BY SlotsOk DEF EgelInv, TypeOK, PlacesInv
<1>1. \A d \in Clients : at[d] \in Asking => d # c /\ at'[d] \in Asking /\ mine'[d] = mine[d]
  BY <1>0
<1>2. ASSUME NEW d \in Clients PROVE Flight(d)'
  <2>1. CASE d = c
    BY <2>1
  <2>2. CASE d # c
    <3>1. at'[d] = at[d] /\ mine'[d] = mine[d]
      BY <1>0, <2>2
    <3>2. CASE at[d] = "unlink"
      BY <3>1, <3>2 DEF Flight, Asking
    <3>3. CASE at[d] # "unlink"
      <4>1. mine[d] # nil => mine[d] \in Requests /\ mine[d] # mine[c]
        BY <1>0, <2>2, <3>3
      <4>2. /\ InRing(mine[d])' <=> InRing(mine[d])
            /\ Executing(mine[d])' <=> Executing(mine[d])
            /\ Executed(mine[d])' <=> Executed(mine[d])
        BY <3>1 DEF InRing, Executing, Executed
      <4> QED
        BY <2>2, <3>1, <4>1, <4>2, FlightOfOthers
    <3> QED
      BY <3>2, <3>3
  <2> QED
    BY <2>1, <2>2
<1>3. master = "reply" => rqst \in Requests /\ rqst # mine[c]
  BY <1>0 DEF FlightInv
<1>4. \A s \in 1 .. Slots : ring[s] # nil => \E d \in Clients : mine'[d] = ring[s] /\ at'[d] \in Asking
  BY <1>0, <1>1 DEF FlightInv
<1>5. master \in {"execute", "reply"} => \E d \in Clients : mine'[d] = rqst /\ at'[d] \in Asking
  BY <1>0, <1>1 DEF FlightInv
<1> QED
  BY <1>0, <1>2, <1>3, <1>4, <1>5 DEF FlightInv

LEMMA FlightKeptByList ==
  ASSUME EgelInv, NEW c \in Clients,
         Call(c) \/ AllocHead(c) \/ AllocUnlink(c) \/ Parse(c) \/ Done(c) \/ FreeLink(c) \/ FreeUnlock(c)
  PROVE  FlightInv'
<1> USE DEF nil
<1>0. /\ at \in [Clients -> ClientPlaces] /\ mine \in [Clients -> Requests \cup {nil}]
      /\ cmd \in [Clients -> Commands]
      /\ content \in [Requests -> Commands \cup {"none"}] /\ reply \in [Requests -> BOOLEAN]
      /\ result \in [Requests -> {-1, 0, 1}]
      /\ \A d \in Clients : mine[d] = nil <=> at[d] \in {"idle", "alloc"}
      /\ Flight(c)
  BY DEF EgelInv, TypeOK, PlacesInv, FlightInv
<1>1. CASE Call(c)
  <2>1. Flight(c)'
    BY <1>0, <1>1 DEF Call, Goes, Flight, Asking
  <2> QED
    BY <1>0, <1>1, <2>1, FlightKeptOutside DEF Call, Goes, ClientPlaces, Asking, rqstVars, ringVars, masterVars
<1>2. CASE AllocHead(c)
  <2>1. \E p \in {"unlink", "idle"} : at' = [at EXCEPT ![c] = p]
    BY <1>2 DEF AllocHead, Goes
  <2>2. Flight(c)'
    BY <1>0, <2>1 DEF Flight, Asking
  <2> QED
    BY <1>0, <1>2, <2>1, <2>2, FlightKeptOutside
    DEF AllocHead, Goes, ClientPlaces, Asking, rqstVars, ringVars, masterVars
<1>3. CASE AllocUnlink(c)
  <2>1. mine[c] \in Requests
    BY <1>0, <1>3 DEF AllocUnlink, Goes
  <2>2. Flight(c)'
    BY <1>0, <1>3, <2>1 DEF AllocUnlink, Goes, Flight, Asking
  <2> QED
    BY <1>0, <1>3, <2>2, FlightKeptOutside
    DEF AllocUnlink, Goes, ClientPlaces, Asking, ringVars, masterVars
<1>4. CASE Parse(c)
  <2>1. mine[c] \in Requests
    BY <1>0, <1>4 DEF Parse, Goes
  <2>2. /\ \E p \in {"link", "put"} : at' = [at EXCEPT ![c] = p]
        /\ \A q \in Requests : q # mine[c] => content'[q] = content[q]
        /\ at[c] = "parse" /\ UNCHANGED <<cmd, mine, reply, result>>
    BY <1>0, <1>4 DEF Parse, Goes
  <2>3. Flight(c)'
    <3>1. at'[c] = "put" => content'[mine[c]] = cmd[c]
      BY <1>0, <1>4, <2>1 DEF Parse, Goes
    <3>2. at'[c] \in {"link", "put"} /\ ~reply[mine[c]] /\ result[mine[c]] = -1
      BY <1>0, <2>2 DEF Flight
    <3> QED
      BY <2>2, <3>1, <3>2 DEF Flight, Asking
  <2>4. UNCHANGED <<ring, master, rqst>>
    BY <1>4 DEF Parse, ringVars, masterVars
  <2> QED
    BY <1>0, <2>2, <2>3, <2>4, FlightKeptOutside DEF ClientPlaces, Asking
<1>5. CASE Done(c)
  <2>1. mine[c] \in Requests
    BY <1>0, <1>5 DEF Done, Goes
  <2>2. Flight(c)'
    BY <1>0, <1>5, <2>1 DEF Done, Goes, Flight, Asking
  <2> QED
    BY <1>0, <1>5, <2>2, FlightKeptOutside DEF Done, Goes, ClientPlaces, Asking, ringVars, masterVars
<1>6. CASE FreeLink(c)
  <2>1. ~reply[mine[c]] /\ at' = [at EXCEPT ![c] = "unlock"] /\ at[c] = "link"
    BY <1>0, <1>6 DEF FreeLink, Goes, Flight
  <2>2. Flight(c)'
    BY <1>0, <2>1 DEF Flight, Asking
  <2> QED
    BY <1>0, <1>6, <2>1, <2>2, FlightKeptOutside
    DEF FreeLink, ClientPlaces, Asking, rqstVars, ringVars, masterVars
<1>7. CASE FreeUnlock(c)
  <2>1. Flight(c)'
    BY <1>0, <1>7 DEF FreeUnlock, Goes, Flight, Asking
  <2> QED
    BY <1>0, <1>7, <2>1, FlightKeptOutside
    DEF FreeUnlock, Goes, ClientPlaces, Asking, rqstVars, ringVars, masterVars
<1> QED
  BY <1>1, <1>2, <1>3, <1>4, <1>5, <1>6, <1>7

LEMMA FlightKeptByPut ==
  ASSUME EgelInv, NEW c \in Clients, Put(c)
  PROVE  FlightInv'
<1> USE DEF nil
<1>0. /\ at \in [Clients -> ClientPlaces] /\ mine \in [Clients -> Requests \cup {nil}]
      /\ ring \in [1 .. Slots -> Requests \cup {nil}] /\ Slot(put) \in 1 .. Slots /\ 0 \notin Requests
      /\ \A d, e \in Clients : mine[d] = mine[e] /\ mine[d] # nil /\ at[d] # "unlink" => d = e
      /\ FlightInv /\ RingInv /\ TypeOK
  <2>1. TypeOK /\ put \in Nat
    BY DEF EgelInv, TypeOK
  <2>2. Slot(put) \in 1 .. Slots
    BY <2>1, SlotType
  <2> QED
    BY <2>1, <2>2, SlotsOk DEF EgelInv, TypeOK, PlacesInv
<1>1. /\ at[c] = "put" /\ at' = [at EXCEPT ![c] = "kick"]
      /\ ring' = [ring EXCEPT ![Slot(put)] = mine[c]]
      /\ UNCHANGED <<mine, cmd, content, reply, result, master, rqst>>
  BY DEF Put, Goes, rqstVars, masterVars
<1>2. mine[c] \in Requests /\ ~InRing(mine[c]) /\ ~Executing(mine[c])
  BY <1>1, UnaskedUnlessAsking DEF EgelInv, PlacesInv, Asking, Unasked
<1>3. ring[Slot(put)] = nil
  BY <1>0, <1>2, SlotLeft
<1>4. ASSUME NEW d \in Clients PROVE Flight(d)'
  <2>1. CASE d = c
    <3>1. InRing(mine[c])' /\ ~Executing(mine[c])'
      BY <1>0, <1>1, <1>2 DEF InRing, Executing
    <3>2. ~reply[mine[c]] /\ content[mine[c]] = cmd[c] /\ result[mine[c]] = -1
      BY <1>0, <1>1 DEF FlightInv, Flight
    <3> QED
      BY <1>0, <1>1, <2>1, <3>1, <3>2 DEF Flight, Pending, Asking
  <2>2. CASE d # c
    <3>1. at'[d] = at[d] /\ (mine[d] # nil => mine[d] # mine[c])
      BY <1>0, <1>1, <2>2
    <3>2. mine[d] # nil => (InRing(mine[d])' <=> InRing(mine[d]))
      BY <1>0, <1>1, <1>3, <3>1 DEF InRing
    <3>3. (Executing(mine[d])' <=> Executing(mine[d])) /\ (Executed(mine[d])' <=> Executed(mine[d]))
      BY <1>1 DEF Executing, Executed
    <3> QED
      BY <1>1, <3>1, <3>2, <3>3, FlightOfOthers
  <2> QED
    BY <2>1, <2>2
<1>5. \A d \in Clients : at[d] \in Asking => at'[d] \in Asking
  BY <1>0, <1>1 DEF Asking
<1>6. \A s \in 1 .. Slots : ring'[s] # nil => \E d \in Clients : mine[d] = ring'[s] /\ at'[d] \in Asking
  <2> SUFFICES ASSUME NEW s \in 1 .. Slots, ring'[s] # nil
               PROVE \E d \in Clients : mine[d] = ring'[s] /\ at'[d] \in Asking
    OBVIOUS
  <2>1. CASE s = Slot(put)
    BY <1>0, <1>1, <2>1 DEF Asking
  <2>2. CASE s # Slot(put)
    BY <1>0, <1>1, <1>5, <2>2 DEF FlightInv
  <2> QED
    BY <2>1, <2>2
<1> QED
  BY <1>0, <1>1, <1>4, <1>5, <1>6 DEF FlightInv

\* A step of a client that waits: its request stays where it is, and the client
\* leaves only with its answer.
LEMMA FlightKeptByWait ==
  ASSUME EgelInv, NEW c \in Clients, Kick(c) \/ Cast(c) \/ Waits(c)
  PROVE  FlightInv'
<1> USE DEF nil
<1>0. /\ at \in [Clients -> ClientPlaces] /\ mine \in [Clients -> Requests \cup {nil}]
      /\ ring \in [1 .. Slots -> Requests \cup {nil}] /\ 0 \notin Requests
      /\ \A d, e \in Clients : mine[d] = mine[e] /\ mine[d] # nil /\ at[d] # "unlink" => d = e
      /\ FlightInv /\ Flight(c)
  BY SlotsOk DEF EgelInv, TypeOK, PlacesInv, FlightInv
<1>1. /\ UNCHANGED <<mine, cmd, content, reply, result, ring, rqst>>
      /\ master' = master \/ (master = "asleep" /\ master' = "test")
  <2>1. CASE Kick(c) \/ Cast(c)
    BY <2>1 DEF Kick, Cast, rqstVars, ringVars, masterVars
  <2>2. CASE Waits(c)
    BY <2>2 DEF Waits, WaitBegins, WaitTest, WaitSleep, WaitSpurious, rqstVars, ringVars, masterVars
  <2> QED
    BY <2>1, <2>2
<1>2. /\ at[c] \in Asking
      /\ \E p \in Asking \cup {"done"} : at' = [at EXCEPT ![c] = p] /\ (p = "done" => reply[mine[c]])
  <2>1. CASE Kick(c) \/ Cast(c)
    BY <2>1 DEF Kick, Cast, Goes, Asking
  <2>2. CASE Waits(c)
    BY <2>2 DEF Waits, WaitBegins, WaitTest, WaitSleep, WaitSpurious, Goes, Asking
  <2> QED
    BY <2>1, <2>2
<1>3. PICK p \in Asking \cup {"done"} : at' = [at EXCEPT ![c] = p] /\ (p = "done" => reply[mine[c]])
  BY <1>2
<1>4. \A r : (InRing(r)' <=> InRing(r)) /\ (Executing(r)' <=> Executing(r)) /\ (Executed(r)' <=> Executed(r))
  BY <1>1 DEF InRing, Executing, Executed
<1>5. Pending(c) \/ Answered(c)
  BY <1>0, <1>2 DEF Flight
<1>6. p = "done" => Answered(c) /\ Unasked(mine[c])
  BY <1>3, <1>5 DEF Pending, Answered
<1>7. ASSUME NEW d \in Clients PROVE Flight(d)'
  <2>1. CASE d = c
    <3>1. (Pending(c)' <=> Pending(c)) /\ (Answered(c)' <=> Answered(c))
      BY <1>1, <1>4 DEF Pending, Answered, Unasked
    <3>2. at'[c] = p
      BY <1>0, <1>3
    <3> QED
      BY <1>0, <1>1, <1>2, <1>5, <1>6, <2>1, <3>1, <3>2 DEF Flight, Asking
  <2>2. CASE d # c
    BY <1>0, <1>1, <1>3, <1>4, <2>2, FlightOfOthers
  <2> QED
    BY <2>1, <2>2
<1>8. ASSUME NEW r \in Requests, ~Unasked(r), NEW d \in Clients, mine[d] = r, at[d] \in Asking
      PROVE \E e \in Clients : mine'[e] = r /\ at'[e] \in Asking
  <2>1. d = c => at'[d] = p /\ p # "done"
    BY <1>0, <1>3, <1>6, <1>8
  <2>2. d # c => at'[d] = at[d]
    BY <1>0, <1>3
  <2> QED
    BY <1>1, <1>3, <1>8, <2>1, <2>2
<1>9. \A s \in 1 .. Slots : ring[s] # nil => \E e \in Clients : mine'[e] = ring[s] /\ at'[e] \in Asking
  BY <1>0, <1>8 DEF FlightInv, InRing, Unasked
<1>10. master \in {"execute", "reply"} => \E e \in Clients : mine'[e] = rqst /\ at'[e] \in Asking
  BY <1>0, <1>8 DEF FlightInv, Executing, Unasked
<1> QED
  BY <1>0, <1>1, <1>7, <1>9, <1>10 DEF FlightInv

LEMMA FlightKeptByMaster ==
  ASSUME EgelInv, Master
  PROVE  FlightInv'
<1> USE DEF nil
<1>0. /\ at \in [Clients -> ClientPlaces] /\ mine \in [Clients -> Requests \cup {nil}]
      /\ ring \in [1 .. Slots -> Requests \cup {nil}] /\ 0 \notin Requests
      /\ reply \in [Requests -> BOOLEAN] /\ result \in [Requests -> {-1, 0, 1}]
      /\ \A d, e \in Clients : mine[d] = mine[e] /\ mine[d] # nil /\ at[d] # "unlink" => d = e
      /\ FlightInv /\ RingInv
  BY SlotsOk DEF EgelInv, TypeOK, PlacesInv
<1>m. /\ UNCHANGED <<cmd, mine, content>>
      /\ \A c \in Clients : at'[c] = at[c] \/ (at[c] = "asleep" /\ at'[c] = "test")
      /\ \A c \in Clients : at[c] \in Asking => at'[c] \in Asking
  BY MasterMoves DEF Asking, EgelInv
<1>1. ASSUME MasterGet, ring[Mine] # nil PROVE FlightInv'
  <2>1. /\ master = "get" /\ master' = "execute" /\ rqst' = ring[Mine] /\ ring' = [ring EXCEPT ![Mine] = nil]
        /\ UNCHANGED <<at, reply, result>> /\ Mine \in 1 .. Slots
    BY <1>1, MineIsSlot DEF MasterGet, MasterGoes, InGet
  <2>2. PICK r \in Requests : r = ring[Mine] /\ rqst' = r
    BY <1>0, <1>1, <2>1
  <2>3. PICK c \in Clients : mine[c] = r /\ at[c] \in Asking
    BY <1>0, <1>1, <2>1, <2>2 DEF FlightInv
  <2>4. InRing(r) /\ ~InRing(r)'
    <3>1. \A s \in 1 .. Slots : s # Mine => ring'[s] = ring[s] /\ ring[s] # r
      BY <1>0, <1>1, <2>1, <2>2 DEF RingInv
    <3>2. ring'[Mine] = nil /\ r # nil
      BY <1>0, <1>1, <2>1, <2>2
    <3> QED
      BY <2>1, <2>2, <3>1, <3>2 DEF InRing
  <2>5. Flight(c)'
    <3>1. Pending(c)
      BY <1>0, <2>3, <2>4 DEF FlightInv, Flight, Answered, Unasked
    <3>2. ~InRing(mine[c])' /\ Executing(mine[c])' /\ ~reply'[mine'[c]] /\ result'[mine'[c]] = -1
      <4>1. mine'[c] = r /\ mine[c] = r /\ reply' = reply /\ result' = result
        BY <1>m, <2>1, <2>3
      <4> QED
        BY <2>1, <2>2, <2>4, <3>1, <4>1 DEF Executing, Executed, InRing, Pending
    <3>3. Pending(c)'
      BY <1>m, <3>2 DEF Pending
    <3> QED
      BY <1>0, <1>m, <2>1, <2>3, <3>3 DEF FlightInv, Flight, Asking
  <2>6. ASSUME NEW d \in Clients, d # c PROVE Flight(d)'
    <3>1. mine[d] # r \/ mine[d] = nil
      BY <1>0, <2>3, <2>6 DEF Asking
    <3>2. mine[d] # nil =>
            /\ InRing(mine[d])' <=> InRing(mine[d])
            /\ ~Executing(mine[d]) /\ ~Executing(mine[d])' /\ ~Executed(mine[d]) /\ ~Executed(mine[d])'
      BY <1>0, <1>m, <2>1, <2>2, <3>1 DEF InRing, Executing, Executed
    <3> QED
      BY <1>m, <2>1, <3>2, FlightOfOthers
  <2>7. \A s \in 1 .. Slots : ring'[s] # nil => \E d \in Clients : mine[d] = ring'[s] /\ at[d] \in Asking
    BY <1>0, <2>1 DEF FlightInv
  <2>8. \A d \in Clients : Flight(d)'
    BY <2>5, <2>6
  <2> QED
    BY <1>m, <2>1, <2>2, <2>3, <2>7, <2>8 DEF FlightInv
<1>2. ASSUME MasterExecute PROVE FlightInv'
  <2>1. /\ master = "execute" /\ master' = "reply" /\ rqst \in Requests
        /\ \A q \in Requests : q # rqst => result'[q] = result[q]
        /\ UNCHANGED <<at, reply, ring, rqst>>
    BY <1>0, <1>2 DEF MasterExecute, MasterGoes, FlightInv
  <2>2. \A d \in Clients : mine[d] = rqst => at[d] \in Asking /\ Executing(mine[d]) /\ Pending(d)
    BY <1>0, <2>1 DEF FlightInv, Executing, Flight, Answered, Unasked, Asking
  <2>3. result'[rqst] = ResultOf(content[rqst])
    <3>1. PICK d \in Clients : mine[d] = rqst
      BY <1>0, <2>1 DEF FlightInv
    <3>2. result[rqst] = -1 /\ content[rqst] = cmd[d] /\ cmd[d] \in Commands
      BY <2>1, <2>2, <3>1 DEF Pending, Executed, EgelInv, TypeOK, FlightInv, Flight
    <3>3. content[rqst] \notin Commands \ {"unknown"} => content[rqst] = "unknown"
      BY <3>2
    <3>4. CASE content[rqst] = "unknown"
      BY <1>2, <3>2, <3>4 DEF MasterExecute, ResultOf
    <3>5. CASE content[rqst] \in Commands \ {"unknown"}
      BY <1>0, <1>2, <2>1, <3>5 DEF MasterExecute
    <3> QED
      BY <3>3, <3>4, <3>5
  <2>4. ASSUME NEW d \in Clients PROVE Flight(d)'
    <3>1. \A r : (InRing(r)' <=> InRing(r)) /\ (Executing(r)' <=> Executing(r))
      BY <2>1 DEF InRing, Executing
    <3>2. CASE mine[d] # rqst
      <4>1. ~Executed(mine[d]) /\ ~Executed(mine[d])'
        BY <1>m, <2>1, <3>2 DEF Executed
      <4>2. mine[d] # nil => result'[mine[d]] = result[mine[d]]
        BY <1>0, <2>1, <3>2
      <4> QED
        BY <1>m, <2>1, <3>1, <4>1, <4>2, FlightOfOthers
    <3>3. CASE mine[d] = rqst
      <4>1. at[d] \in Asking /\ Pending(d)
        BY <2>2, <3>3
      <4>2. Pending(d)'
        BY <1>m, <2>1, <3>1, <3>3, <4>1 DEF Pending, Executed
      <4> QED
        BY <1>0, <1>m, <2>1, <4>1, <4>2 DEF FlightInv, Flight, Asking
    <3> QED
      BY <3>2, <3>3
  <2> QED
    BY <1>0, <1>m, <2>1, <2>3, <2>4 DEF FlightInv
<1>3. ASSUME MasterReply PROVE FlightInv'
  <2>1. /\ master = "reply" /\ master' = "kick" /\ reply' = [reply EXCEPT ![rqst] = TRUE]
        /\ UNCHANGED <<at, result, ring, rqst>> /\ rqst \in Requests
        /\ result[rqst] = ResultOf(content[rqst])
    BY <1>0, <1>3 DEF MasterReply, MasterGoes, FlightInv
  <2>2. ASSUME NEW d \in Clients PROVE Flight(d)'
    <3>1. \A r : (InRing(r)' <=> InRing(r)) /\ ~Executing(r)' /\ (Executing(r) <=> r = rqst)
      BY <2>1 DEF InRing, Executing
    <3>2. CASE mine[d] # rqst
      <4>1. ~Executed(mine[d]) /\ ~Executed(mine[d])'
        BY <2>1, <3>2 DEF Executed
      <4> QED
        BY <1>0, <1>m, <2>1, <3>1, <3>2, <4>1, FlightOfOthers
    <3>3. CASE mine[d] = rqst
      <4>1. at[d] \in Asking /\ content[mine[d]] = cmd[d]
        BY <1>0, <2>1, <3>3 DEF FlightInv, Flight, Asking
      <4>2. Pending(d) /\ ~InRing(mine[d])
        BY <1>0, <3>1, <3>3, <4>1 DEF FlightInv, Flight, Answered, Unasked, Pending
      <4>3. Answered(d)'
        BY <1>0, <1>m, <2>1, <3>1, <3>3, <4>1, <4>2 DEF Answered, Unasked
      <4> QED
        BY <1>0, <1>m, <2>1, <4>1, <4>3 DEF Flight, Asking
    <3> QED
      BY <3>2, <3>3
  <2> QED
    BY <1>0, <1>m, <2>1, <2>2 DEF FlightInv
<1>4. ASSUME MasterLoop \/ (MasterGet /\ ring[Mine] = nil) \/ MasterWait \/ MasterSpurious \/ MasterKick \/ MasterCast
      PROVE FlightInv'
  <2>1. /\ UNCHANGED <<reply, result, ring>>
        /\ master \notin {"execute", "reply"} /\ master' \notin {"execute", "reply"}
        /\ master' \in {"kick", "cast"} => master \in {"kick", "cast"} /\ rqst' = rqst
    <3>1. CASE MasterLoop \/ (MasterGet /\ ring[Mine] = nil)
      BY <3>1 DEF MasterLoop, MasterGet, MasterGoes
    <3>2. CASE MasterWait \/ MasterSpurious
      BY <3>2 DEF MasterWait, MasterSpurious, MasterGoes
    <3>3. CASE MasterKick \/ MasterCast
      BY <3>3 DEF MasterKick, MasterCast, MasterGoes
    <3> QED
      BY <1>4, <3>1, <3>2, <3>3
  <2>2. \A r : (InRing(r)' <=> InRing(r)) /\ ~Executing(r) /\ ~Executing(r)' /\ ~Executed(r) /\ ~Executed(r)'
    BY <2>1 DEF InRing, Executing, Executed
  <2>3. \A d \in Clients : Flight(d)'
    BY <1>m, <2>1, <2>2, FlightOfOthers
  <2>4. \A s \in 1 .. Slots : ring[s] # nil => \E d \in Clients : mine'[d] = ring[s] /\ at'[d] \in Asking
    BY <1>0, <1>m DEF FlightInv
  <2> QED
    BY <1>0, <2>1, <2>3, <2>4 DEF FlightInv
<1> QED
  BY <1>1, <1>2, <1>3, <1>4 DEF Master

LEMMA AnswerKept ==
  ASSUME EgelInv, Next
  PROVE  OwnAnswer'
<1> USE DEF OwnAnswer
<1>0. at \in [Clients -> ClientPlaces] /\ got \in [Clients -> {-1, 0, 1}] /\ cmd \in [Clients -> Commands]
  BY DEF EgelInv, TypeOK
<1>1. ASSUME NEW c \in Clients, Call(c) \/ AllocHead(c) \/ AllocUnlink(c) PROVE OwnAnswer'
  BY <1>0, <1>1 DEF EgelInv, Call, AllocHead, AllocUnlink, Goes
<1>2. ASSUME NEW c \in Clients, Parse(c) PROVE OwnAnswer'
  BY <1>0, <1>2 DEF EgelInv, Parse, Goes, ResultOf
<1>3. ASSUME NEW c \in Clients, Between(c) PROVE OwnAnswer'
  BY <1>0, <1>3, BetweenMoves DEF EgelInv, BetweenPlaces
<1>4. ASSUME NEW c \in Clients, Done(c) PROVE OwnAnswer'
  BY <1>0, <1>4 DEF EgelInv, FlightInv, Flight, Answered, Done, Goes
<1>5. ASSUME NEW c \in Clients, FreeLink(c) \/ FreeUnlock(c) PROVE OwnAnswer'
  BY <1>0, <1>5 DEF EgelInv, FreeLink, FreeUnlock, Goes
<1>6. ASSUME Master PROVE OwnAnswer'
  BY <1>0, <1>6, MasterMoves DEF EgelInv
<1> QED
  BY <1>1, <1>2, <1>3, <1>4, <1>5, <1>6 DEF Next, Client, Between, Waits

LEMMA EgelKept ==
  ASSUME EgelInv, TypeOK', [Next]_vars, ~raced'
  PROVE  EgelInv'
<1>1. CASE Next
  <2>1. FlightInv'
    BY <1>1, FlightKeptByList, FlightKeptByPut, FlightKeptByWait, FlightKeptByMaster DEF Next, Client, Waits
  <2> QED
    BY <1>1, <2>1, PlacesKept, WaitingKept, FreeListKept, RingKept, AnswerKept DEF EgelInv
<1>2. CASE UNCHANGED vars
  <2>1. UNCHANGED <<at, cmd, mine, got, calls, freeList, nextFree, locked, content, reply, result, waiting,
                    ring, put, took, master, rqst, masterWaits, dpdkdone>>
    BY <1>2 DEF vars, clientVars, listVars, rqstVars, ringVars, masterVars
  <2>2. PlacesInv' /\ WaitingInv' /\ OwnAnswer'
    BY <2>1 DEF EgelInv, PlacesInv, WaitingInv, OwnAnswer
  <2>3. FreeListInv'
    BY <2>1, SameFreeList DEF EgelInv, Held
  <2>4. RingInv'
    BY <2>1, SameRing DEF EgelInv, Consumed, InGet
  <2>5. FlightInv'
    BY <2>1 DEF EgelInv, FlightInv, Flight, Pending, Answered, Unasked, InRing, Executing, Executed
  <2> QED
    BY <2>2, <2>3, <2>4, <2>5 DEF EgelInv
<1> QED
  BY <1>1, <1>2

\* What clients have raced for stays raced for.
LEMMA RacedStays ==
  ASSUME TypeOK, raced, [Next]_vars
  PROVE  raced'
<1>1. ASSUME NEW c \in Clients, Client(c) PROVE raced'
  <2>1. CASE AllocUnlink(c) \/ FreeUnlock(c)
    BY <2>1 DEF AllocUnlink, FreeUnlock, WritesHead
  <2>2. CASE Call(c) \/ AllocHead(c) \/ Parse(c) \/ Done(c) \/ FreeLink(c)
    BY <2>2 DEF Call, AllocHead, Parse, Done, FreeLink, listVars
  <2>3. CASE Between(c)
    BY <2>3, BetweenMoves DEF listVars
  <2> QED
    BY <1>1, <2>1, <2>2, <2>3 DEF Client, Between, Waits
<1>2. ASSUME Master PROVE raced'
  BY <1>2, MasterMoves DEF listVars
<1>3. CASE UNCHANGED vars
  BY <1>3 DEF vars, listVars
<1> QED
  BY <1>1, <1>2, <1>3 DEF Next

LEMMA EgelAlways == Spec => []TypesInv /\ [](raced \/ EgelInv)
<1>1. Init => TypesInv /\ EgelInv
  BY TypesInit, EgelInit
<1>2. TypesInv /\ [Next]_vars => TypesInv'
  BY TypesKept
<1>3. TypesInv /\ TypesInv' /\ (raced \/ EgelInv) /\ [Next]_vars => (raced \/ EgelInv)'
  BY EgelKept, RacedStays DEF TypesInv
<1> QED
  BY <1>1, <1>2, <1>3, PTL DEF Spec

\* The types of the clients, the requests, the ring and the free list, whether
\* clients race or not.
THEOREM EgelTypes == Spec => []TypeOK
<1>1. TypesInv => TypeOK
  BY DEF TypesInv
<1> QED
  BY <1>1, EgelAlways, PTL

\* Until clients race for the free list, qmput in dpdkrqst always finds a slot,
\* however many clients and requests there are.
THEOREM PutNeverWaits == Spec => []RingNeverFull
<1>1. EgelInv => RingNeverFull
  <2> SUFFICES ASSUME EgelInv, NEW c \in Clients, at[c] = "put" PROVE ring[Slot(put)] = nil
    BY DEF RingNeverFull
  <2>1. mine[c] \in Requests /\ ~InRing(mine[c])
    BY UnaskedUnlessAsking DEF EgelInv, PlacesInv, Asking, Unasked
  <2> QED
    BY <2>1, SlotLeft DEF EgelInv
<1>2. raced => RingNeverFull
  BY DEF RingNeverFull
<1> QED
  BY <1>1, <1>2, EgelAlways, PTL

\* Until clients race for the free list, dpdkrqst returns to its caller the
\* result of the caller's own command.
THEOREM AnswersAreOwn == Spec => []AnswerIsOwn
<1>1. raced \/ EgelInv => AnswerIsOwn
  BY DEF EgelInv, OwnAnswer, AnswerIsOwn
<1> QED
  BY <1>1, EgelAlways, PTL

\* Until clients race for the free list, the assertion of rqstfree holds.
THEOREM NothingAborts == Spec => []FreedHasNoReply
<1>1. raced \/ EgelInv => FreedHasNoReply
  BY DEF EgelInv, PlacesInv, FreedHasNoReply
<1> QED
  BY <1>1, EgelAlways, PTL

\* A walk along the free list visits exactly its requests.
LEMMA WalkOfFreeList ==
  ASSUME NEW n \in 0 .. Slots, NEW s \in [1 .. n -> Requests], IsFreeList(n, s)
  PROVE  FreeRequests = {s[i] : i \in 1 .. n}
<1> USE DEF nil
<1> DEFINE g == [k \in 0 .. Slots |-> IF k < n THEN s[k + 1] ELSE nil]
           Step(f) == [k \in 0 .. Slots |->
                         IF k = 0 THEN freeList ELSE IF f[k - 1] = nil THEN nil ELSE nextFree[f[k - 1]]]
<1>0. Slots \in Nat /\ 0 \notin Requests
  BY SlotsOk
<1>1. g = Step(g)
  <2>1. \A k \in 0 .. Slots : g[k] = Step(g)[k]
    <3> SUFFICES ASSUME NEW k \in 0 .. Slots PROVE g[k] = Step(g)[k]
      OBVIOUS
    <3>1. CASE k = 0
      BY <1>0, <3>1 DEF IsFreeList
    <3>2. CASE k # 0 /\ k - 1 < n
      <4>1. k - 1 \in 0 .. Slots /\ k \in 1 .. n
        BY <1>0, <3>2
      <4>2. g[k - 1] = s[k] /\ s[k] # nil
        BY <1>0, <3>2, <4>1
      <4>3. Step(g)[k] = nextFree[s[k]]
        BY <3>2, <4>2
      <4>4. nextFree[s[k]] = IF k = n THEN nil ELSE s[k + 1]
        BY <4>1 DEF IsFreeList
      <4>5. g[k] = IF k = n THEN nil ELSE s[k + 1]
        BY <3>2, <4>1
      <4> QED
        BY <4>3, <4>4, <4>5
    <3>3. CASE k # 0 /\ ~(k - 1 < n)
      <4>1. k - 1 \in 0 .. Slots /\ ~(k < n)
        BY <1>0, <3>3
      <4>2. g[k - 1] = nil /\ g[k] = nil
        BY <3>3, <4>1
      <4> QED
        BY <3>3, <4>2
    <3> QED
      BY <3>1, <3>2, <3>3
  <2> HIDE DEF g
  <2>2. DOMAIN g = 0 .. Slots /\ g = [k \in 0 .. Slots |-> g[k]]
    BY DEF g
  <2> QED
    BY <2>1, <2>2
<1> HIDE DEF g
<1>2. FreeAfter = Step(FreeAfter)
  <2>1. FreeAfter = CHOOSE f : f = Step(f)
    BY DEF FreeAfter
  <2> HIDE DEF Step
  <2> QED
    BY <1>1, <2>1
<1>3. \A k \in 0 .. Slots : FreeAfter[k] = g[k]
  <2> DEFINE Differ == {k \in 0 .. Slots : FreeAfter[k] # g[k]}
  <2> SUFFICES ASSUME Differ # {} PROVE FALSE
    OBVIOUS
  <2>1. PICK k \in Differ : \A j \in Differ : ~(<<j, k>> \in OpToRel(<, Nat))
    <3>1. Differ \subseteq Nat
      BY <1>0
    <3> HIDE DEF Differ
    <3> QED
      BY <3>1, NatLessThanWellFounded, WFMin
  <2>2. \A j \in Differ : ~(j < k)
    <3>1. \A j \in Differ : j \in Nat /\ k \in Nat
      BY <1>0
    <3>2. \A j \in Differ : j < k => <<j, k>> \in OpToRel(<, Nat)
      BY <3>1 DEF OpToRel
    <3> QED
      BY <2>1, <3>2
  <2>3. CASE k = 0
    <3>1. Step(FreeAfter)[0] = freeList /\ Step(g)[0] = freeList
      BY <1>0
    <3> QED
      BY <1>1, <1>2, <2>3, <3>1
  <2>4. CASE k # 0
    <3>1. k - 1 \in 0 .. Slots /\ k - 1 < k /\ k \in 0 .. Slots
      BY <1>0, <2>4
    <3>2. FreeAfter[k - 1] = g[k - 1]
      BY <2>2, <3>1
    <3>3. Step(FreeAfter)[k] = Step(g)[k]
      BY <2>4, <3>1, <3>2
    <3> QED
      BY <1>1, <1>2, <3>3
  <2> QED
    BY <2>3, <2>4
<1>4. \A i \in 1 .. n : i - 1 \in 0 .. Slots /\ g[i - 1] = s[i] /\ s[i] # nil
  BY <1>0 DEF g
<1>5. \A k \in 0 .. Slots : g[k] = nil \/ (k + 1 \in 1 .. n /\ g[k] = s[k + 1])
  BY <1>0 DEF g
<1> QED
  BY <1>3, <1>4, <1>5 DEF FreeRequests

LEMMA OnlyOneHolds ==
  ASSUME PlacesInv, NEW r \in Requests
  PROVE  Cardinality(HoldersOf(r)) = IF Held(r) THEN 1 ELSE 0
<1>0. r # nil
  BY SlotsOk DEF nil
<1>1. CASE Held(r)
  <2>1. PICK c \in Clients : mine[c] = r /\ at[c] # "unlink"
    BY <1>1 DEF Held
  <2>2. HoldersOf(r) = {c}
    BY <1>0, <2>1 DEF PlacesInv, HoldersOf
  <2> QED
    BY <1>1, <2>2, FS_Singleton
<1>2. CASE ~Held(r)
  <2>1. HoldersOf(r) = {}
    BY <1>2 DEF Held, HoldersOf
  <2> QED
    BY <1>2, <2>1, FS_EmptySet
<1> QED
  BY <1>1, <1>2

\* Until clients race for the free list, rqstalloc and rqstfree neither lose a
\* request nor give one to two clients.
THEOREM RequestsAreKept == Spec => []NoRequestLost
<1>1. EgelInv => NoRequestLost
  <2> SUFFICES ASSUME EgelInv, NEW r \in Requests
               PROVE Cardinality(HoldersOf(r)) = IF r \in FreeRequests THEN 0 ELSE 1
    BY DEF NoRequestLost
  <2>1. PICK n \in 0 .. Slots : \E s \in [1 .. n -> Requests] : IsFreeList(n, s)
    BY DEF EgelInv, FreeListInv
  <2>2. PICK s \in [1 .. n -> Requests] : IsFreeList(n, s)
    BY <2>1
  <2>3. FreeRequests = {s[i] : i \in 1 .. n}
    BY <2>2, WalkOfFreeList
  <2>4. r \in FreeRequests <=> ~Held(r)
    BY <2>2, <2>3 DEF IsFreeList
  <2> QED
    BY <2>4, OnlyOneHolds DEF EgelInv
<1>2. raced => NoRequestLost
  BY DEF NoRequestLost
<1> QED
  BY <1>1, <1>2, EgelAlways, PTL
=============================================================================
