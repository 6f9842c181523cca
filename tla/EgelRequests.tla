------------------------------ MODULE EgelRequests ------------------------------
(***************************************************************************)
(* The requests of libegel (dpdkrqst in master.c): a client takes a Rqst   *)
(* from a free list, puts it on a ring, kicks the master thread and waits  *)
(* for the reply; the master executes requests in order and kicks back.    *)
(* The waits are those of q.h: a thread counts itself in "waiting" and     *)
(* sleeps on a condition variable while its condition is false; qkick      *)
(* broadcasts, without the lock, to a thread that is counted.              *)
(* A step is an access to memory that another thread may change.           *)
(***************************************************************************)
EXTENDS Integers, FiniteSets

CONSTANTS
  Clients,              \* threads that call libegel
  Requests,             \* the NRQST requests, 1 .. NRQST
  Commands,             \* what a client may ask
  MaxCalls              \* bound of the model: calls of dpdkrqst

ASSUME EgelAssumption ==
  /\ IsFiniteSet(Clients) /\ IsFiniteSet(Requests)
  /\ Requests = 1 .. Cardinality(Requests) /\ Requests # {}
  /\ Commands \subseteq {"nic", "exit", "blank", "unknown"} /\ Commands # {}
  /\ MaxCalls \in Nat

VARIABLES
  at,                   \* where each client is
  cmd,                  \* the command it asks
  mine,                 \* its rqst, or nil
  got,                  \* what dpdkrqst returned to it
  calls,                \* calls so far
  freeList,             \* rqstfreelist
  nextFree,             \* per request: next
  locked,               \* reqstallocmutex
  raced,                \* history: a client wrote rqstfreelist between another's read and write of it
  content,              \* per request: the command parsed into argv, none while argc is 0
  reply,                \* per request: reply is set
  result,               \* per request: r
  waiting,              \* per request: q8->waiting
  ring,                 \* the slots of rqstq
  put,                  \* producer count of the ring
  took,                 \* consumer count of the ring
  master,               \* where the master thread is
  rqst,                 \* the request it executes, or nil
  masterWaits,          \* cq8->waiting
  dpdkdone

clientVars == <<at, cmd, mine, got, calls>>
listVars == <<freeList, nextFree, locked, raced>>
rqstVars == <<content, reply, result, waiting>>
ringVars == <<ring, put, took>>
masterVars == <<master, rqst, masterWaits, dpdkdone>>
vars == <<clientVars, listVars, rqstVars, ringVars, masterVars>>

nil == 0
Slots == Cardinality(Requests)
Slot(count) == (count % Slots) + 1

ClientPlaces == {"idle", "alloc", "unlink", "parse", "put", "kick", "cast", "wait",
                 "test", "doze", "asleep", "done", "link", "unlock", "aborted"}
MasterPlaces == {"loop", "get", "wait", "test", "doze", "asleep", "execute", "reply",
                 "kick", "cast", "ended"}

TypeOK ==
  /\ at \in [Clients -> ClientPlaces]
  /\ cmd \in [Clients -> Commands]
  /\ mine \in [Clients -> Requests \cup {nil}]
  /\ got \in [Clients -> {-1, 0, 1}]
  /\ calls \in 0 .. MaxCalls
  /\ freeList \in Requests \cup {nil}
  /\ nextFree \in [Requests -> Requests \cup {nil}]
  /\ locked \in BOOLEAN /\ raced \in BOOLEAN /\ dpdkdone \in BOOLEAN
  /\ content \in [Requests -> Commands \cup {"none"}]
  /\ reply \in [Requests -> BOOLEAN]
  /\ result \in [Requests -> {-1, 0, 1}]
  /\ waiting \in [Requests -> Int]
  /\ ring \in [1 .. Slots -> Requests \cup {nil}]
  /\ put \in Nat /\ took \in Nat
  /\ master \in MasterPlaces
  /\ rqst \in Requests \cup {nil}
  /\ masterWaits \in {0, 1}

\* dpdkcfginit has returned: rqstallocinit freed every request.
Init ==
  /\ at = [c \in Clients |-> "idle"]
  /\ cmd \in [Clients -> {CHOOSE x \in Commands : TRUE}]
  /\ mine = [c \in Clients |-> nil]
  /\ got = [c \in Clients |-> 0]
  /\ calls = 0
  /\ freeList = Slots
  /\ nextFree = [r \in Requests |-> r - 1]
  /\ locked = FALSE /\ raced = FALSE
  /\ content = [r \in Requests |-> "none"]
  /\ reply = [r \in Requests |-> FALSE]
  /\ result = [r \in Requests |-> 0]
  /\ waiting = [r \in Requests |-> 0]
  /\ ring = [s \in 1 .. Slots |-> nil]
  /\ put = 0 /\ took = 0
  /\ master = "loop" /\ rqst = nil /\ masterWaits = 0
  /\ dpdkdone = FALSE

(***************************************************************************)
(* A client in dpdkrqst.                                                   *)
(***************************************************************************)
Goes(c, from, to) == at[c] = from /\ at' = [at EXCEPT ![c] = to]

\* Another client has read the head of the free list and not yet written it.
Meets(c) == \E d \in Clients \ {c} : at[d] \in {"unlink", "unlock"}

\* c writes the head of the free list; nothing keeps the others out.
WritesHead(c, head) ==
  /\ freeList' = head
  /\ raced' = (raced \/ Meets(c))

\* rqstalloc takes the lock and reads the head of the list ...
Call(c) ==
  /\ calls < MaxCalls
  /\ ~locked
  /\ Goes(c, "idle", "alloc")
  /\ cmd' \in {[cmd EXCEPT ![c] = x] : x \in Commands}
  /\ calls' = calls + 1
  /\ locked' = TRUE
  /\ UNCHANGED <<mine, got, freeList, nextFree, raced, rqstVars, ringVars, masterVars>>

AllocHead(c) ==
  /\ at[c] = "alloc"
  /\ mine' = [mine EXCEPT ![c] = freeList]
  /\ \/ freeList # nil /\ Goes(c, "alloc", "unlink") /\ UNCHANGED <<locked, got>>
     \/ /\ freeList = nil
        /\ Goes(c, "alloc", "idle")
        /\ locked' = FALSE
        /\ got' = [got EXCEPT ![c] = -1]
  /\ UNCHANGED <<cmd, calls, freeList, nextFree, raced, rqstVars, ringVars, masterVars>>

\* ... then makes its successor the head.
\* Variant: the request stays on the list.
AllocKeepsHead(c) ==
  /\ Goes(c, "unlink", "parse")
  /\ reply' = [reply EXCEPT ![mine[c]] = FALSE]
  /\ result' = [result EXCEPT ![mine[c]] = -1]
  /\ content' = [content EXCEPT ![mine[c]] = "none"]
  /\ locked' = FALSE
  /\ UNCHANGED <<cmd, mine, got, calls, freeList, nextFree, raced, waiting, ringVars, masterVars>>

AllocUnlink(c) ==
  /\ Goes(c, "unlink", "parse")
  /\ WritesHead(c, nextFree[mine[c]])
  /\ reply' = [reply EXCEPT ![mine[c]] = FALSE]
  /\ result' = [result EXCEPT ![mine[c]] = -1]
  /\ content' = [content EXCEPT ![mine[c]] = "none"]
  /\ locked' = FALSE
  /\ UNCHANGED <<cmd, mine, got, calls, nextFree, waiting, ringVars, masterVars>>

\* A blank command is a success that nothing executes: argc is left as it is.
Parse(c) ==
  /\ \/ /\ cmd[c] = "blank"
        /\ Goes(c, "parse", "link")
        /\ got' = [got EXCEPT ![c] = 0]
        /\ UNCHANGED content
     \/ /\ cmd[c] # "blank"
        /\ Goes(c, "parse", "put")
        /\ content' = [content EXCEPT ![mine[c]] = cmd[c]]
        /\ UNCHANGED got
  /\ UNCHANGED <<cmd, mine, calls, listVars, reply, result, waiting, ringVars, masterVars>>

\* qmput waits for the next slot to be free.
Put(c) ==
  /\ Goes(c, "put", "kick")
  /\ ring[Slot(put)] = nil
  /\ ring' = [ring EXCEPT ![Slot(put)] = mine[c]]
  /\ put' = put + 1
  /\ UNCHANGED <<cmd, mine, got, calls, listVars, rqstVars, took, masterVars>>

\* qkick(rqstq->cq8)
Kick(c) ==
  /\ \/ masterWaits > 0 /\ Goes(c, "kick", "cast")
     \/ masterWaits = 0 /\ Goes(c, "kick", "wait")
  /\ UNCHANGED <<cmd, mine, got, calls, listVars, rqstVars, ringVars, masterVars>>

Cast(c) ==
  /\ Goes(c, "cast", "wait")
  /\ master' = IF master = "asleep" THEN "test" ELSE master
  /\ UNCHANGED <<cmd, mine, got, calls, listVars, rqstVars, ringVars, rqst, masterWaits, dpdkdone>>

\* qwait(rqst->q8, rqst->reply != nil)
WaitBegins(c) ==
  /\ Goes(c, "wait", "test")
  /\ waiting' = [waiting EXCEPT ![mine[c]] = @ + 1]
  /\ UNCHANGED <<cmd, mine, got, calls, listVars, content, reply, result, ringVars, masterVars>>

WaitTest(c) ==
  /\ at[c] = "test"
  /\ \/ /\ reply[mine[c]]
        /\ Goes(c, "test", "done")
        /\ waiting' = [waiting EXCEPT ![mine[c]] = @ - 1]
     \/ ~reply[mine[c]] /\ Goes(c, "test", "doze") /\ UNCHANGED waiting
  /\ UNCHANGED <<cmd, mine, got, calls, listVars, content, reply, result, ringVars, masterVars>>

WaitSleep(c) ==
  /\ Goes(c, "doze", "asleep")
  /\ UNCHANGED <<cmd, mine, got, calls, listVars, rqstVars, ringVars, masterVars>>

\* pthread_cond_wait may return by itself.
\* Variant: the condition is not tested again.
WaitOnce(c) ==
  /\ Goes(c, "asleep", "done")
  /\ waiting' = [waiting EXCEPT ![mine[c]] = @ - 1]
  /\ UNCHANGED <<cmd, mine, got, calls, listVars, content, reply, result, ringVars, masterVars>>

\* pthread_cond_wait may return by itself; the condition is tested again.
WaitSpurious(c) ==
  /\ Goes(c, "asleep", "test")
  /\ UNCHANGED <<cmd, mine, got, calls, listVars, rqstVars, ringVars, masterVars>>

\* Variant: the reply is left set.
DoneKeepsReply(c) ==
  /\ Goes(c, "done", "link")
  /\ got' = [got EXCEPT ![c] = result[mine[c]]]
  /\ UNCHANGED <<cmd, mine, calls, listVars, rqstVars, ringVars, masterVars>>

Done(c) ==
  /\ Goes(c, "done", "link")
  /\ got' = [got EXCEPT ![c] = result[mine[c]]]
  /\ reply' = [reply EXCEPT ![mine[c]] = FALSE]
  /\ UNCHANGED <<cmd, mine, calls, listVars, content, result, waiting, ringVars, masterVars>>

\* rqstfree does not take the lock, and gives it back all the same.  Its
\* assertion stops the program.
FreeLink(c) ==
  /\ at[c] = "link"
  /\ \/ /\ ~reply[mine[c]]
        /\ Goes(c, "link", "unlock")
        /\ nextFree' = [nextFree EXCEPT ![mine[c]] = freeList]
     \/ reply[mine[c]] /\ Goes(c, "link", "aborted") /\ UNCHANGED nextFree
  /\ UNCHANGED <<cmd, mine, got, calls, freeList, locked, raced, rqstVars, ringVars, masterVars>>

FreeUnlock(c) ==
  /\ Goes(c, "unlock", "idle")
  /\ WritesHead(c, mine[c])
  /\ mine' = [mine EXCEPT ![c] = nil]
  /\ locked' = FALSE
  /\ UNCHANGED <<cmd, got, calls, nextFree, rqstVars, ringVars, masterVars>>

Client(c) ==
  \/ Call(c) \/ AllocHead(c) \/ AllocUnlink(c) \/ Parse(c) \/ Put(c) \/ Kick(c) \/ Cast(c)
  \/ WaitBegins(c) \/ WaitTest(c) \/ WaitSleep(c) \/ WaitSpurious(c) \/ Done(c)
  \/ FreeLink(c) \/ FreeUnlock(c)

(***************************************************************************)
(* The master thread in dpdkthread.                                        *)
(***************************************************************************)
MasterGoes(from, to) == master = from /\ master' = to

MasterKeeps == UNCHANGED <<cmd, mine, got, calls, listVars, content, put>>

MasterLoop ==
  /\ \/ dpdkdone /\ MasterGoes("loop", "ended") /\ UNCHANGED took
     \/ ~dpdkdone /\ MasterGoes("loop", "get") /\ took' = took + 1
  /\ UNCHANGED <<at, reply, result, waiting, ring, rqst, masterWaits, dpdkdone>> /\ MasterKeeps

\* The slot this qsget is about: it counted itself before it looks.
Mine == Slot(took - 1)

\* Variant: the slot is not marked free.
MasterGetKeeps ==
  /\ \/ /\ MasterGoes("get", "execute")
        /\ ring[Mine] # nil
        /\ rqst' = ring[Mine]
     \/ MasterGoes("get", "wait") /\ ring[Mine] = nil /\ UNCHANGED rqst
  /\ UNCHANGED <<at, reply, result, waiting, ring, took, masterWaits, dpdkdone>> /\ MasterKeeps

MasterGet ==
  /\ \/ /\ MasterGoes("get", "execute")
        /\ ring[Mine] # nil
        /\ rqst' = ring[Mine]
        /\ ring' = [ring EXCEPT ![Mine] = nil]
     \/ MasterGoes("get", "wait") /\ ring[Mine] = nil /\ UNCHANGED <<rqst, ring>>
  /\ UNCHANGED <<at, reply, result, waiting, took, masterWaits, dpdkdone>> /\ MasterKeeps

\* qwait(q->cq8, Isoccupied(*p))
MasterWait ==
  /\ \/ MasterGoes("wait", "test") /\ masterWaits' = 1
     \/ MasterGoes("test", "get") /\ ring[Mine] # nil /\ masterWaits' = 0
     \/ MasterGoes("test", "doze") /\ ring[Mine] = nil /\ UNCHANGED masterWaits
     \/ MasterGoes("doze", "asleep") /\ UNCHANGED masterWaits
  /\ UNCHANGED <<at, reply, result, waiting, ring, took, rqst, dpdkdone>> /\ MasterKeeps

MasterSpurious ==
  /\ MasterGoes("asleep", "test")
  /\ UNCHANGED <<at, reply, result, waiting, ring, took, rqst, masterWaits, dpdkdone>>
  /\ MasterKeeps

\* rqstexecute: a command of the table has its result, an unknown one and a
\* request without arguments leave what rqstalloc set.
ResultOf(x) == CASE x = "nic" -> 1 [] x = "unknown" -> -1 [] OTHER -> 0

MasterExecute ==
  /\ MasterGoes("execute", "reply")
  /\ result' = IF content[rqst] \in Commands \ {"unknown"}
                THEN [result EXCEPT ![rqst] = ResultOf(content[rqst])]
                ELSE result
  /\ dpdkdone' = (dpdkdone \/ content[rqst] = "exit")
  /\ UNCHANGED <<at, reply, waiting, ring, took, rqst, masterWaits>> /\ MasterKeeps

MasterReply ==
  /\ MasterGoes("reply", "kick")
  /\ reply' = [reply EXCEPT ![rqst] = TRUE]
  /\ UNCHANGED <<at, result, waiting, ring, took, rqst, masterWaits, dpdkdone>> /\ MasterKeeps

\* qkick(rqst->q8)
MasterKick ==
  /\ \/ MasterGoes("kick", "cast") /\ waiting[rqst] > 0 /\ UNCHANGED rqst
     \/ MasterGoes("kick", "loop") /\ waiting[rqst] = 0 /\ rqst' = nil
  /\ UNCHANGED <<at, reply, result, waiting, ring, took, masterWaits, dpdkdone>> /\ MasterKeeps

MasterCast ==
  /\ MasterGoes("cast", "loop")
  /\ at' = [c \in Clients |->
              IF at[c] = "asleep" /\ mine[c] = rqst THEN "test" ELSE at[c]]
  /\ rqst' = nil
  /\ UNCHANGED <<reply, result, waiting, ring, took, masterWaits, dpdkdone>> /\ MasterKeeps

Master ==
  \/ MasterLoop \/ MasterGet \/ MasterWait \/ MasterSpurious \/ MasterExecute
  \/ MasterReply \/ MasterKick \/ MasterCast

Next == Master \/ \E c \in Clients : Client(c)

Spec == Init /\ [][Next]_vars

\* A thread that can run runs; nothing wakes a sleeper but a broadcast.
FairSpec ==
  /\ Spec
  /\ WF_vars(MasterLoop \/ MasterGet \/ MasterWait \/ MasterExecute
               \/ MasterReply \/ MasterKick \/ MasterCast)
  /\ \A c \in Clients :
       WF_vars(at[c] \notin {"idle", "asleep"} /\ Client(c))

(***************************************************************************)
(* Properties                                                              *)
(***************************************************************************)
\* The requests on the free list, from its head.
FreeAfter[n \in 0 .. Slots] ==
  IF n = 0 THEN freeList
  ELSE IF FreeAfter[n - 1] = nil THEN nil ELSE nextFree[FreeAfter[n - 1]]

FreeRequests == {FreeAfter[n] : n \in 0 .. Slots} \ {nil}

HoldersOf(r) == {c \in Clients : mine[c] = r /\ at[c] # "unlink"}

\* rqstfree writes the free list without the lock and gives back a lock that
\* another client may hold in rqstalloc.  The properties below hold until one
\* client writes the head of the list between the read and the write of another
\* (raced).  After that a request may be lost or given twice and answers mix.

\* A request is on the free list or in the hands of exactly one client, over
\* the steps of rqstalloc and rqstfree (none is lost, none is given twice).
NoRequestLost ==
  raced \/ \A r \in Requests :
    Cardinality(HoldersOf(r)) = IF r \in FreeRequests THEN 0 ELSE 1

\* dpdkrqst returns to a client what the master thread answered to the very
\* command of that client, and nothing before it was executed.
AnswerIsOwn ==
  raced \/ \A c \in Clients : at[c] \in {"link", "unlock"} => got[c] = ResultOf(cmd[c])

\* The assertion of rqstfree: no client gives back a request that the master
\* answers for somebody else.
FreedHasNoReply == raced \/ \A c \in Clients : at[c] # "aborted"

\* The ring has a slot for every request: qmput never waits for one.  It would
\* wait for ever, for qsget takes an item without a kick to the producers.
RingNeverFull == raced \/ \A c \in Clients : at[c] = "put" => ring[Slot(put)] = nil

\* dpdkrqst returns ("Send the rqst, wait for done, tidy up, free").
AnswersCome == \A c \in Clients : at[c] = "alloc" ~> at[c] = "idle"
=============================================================================
