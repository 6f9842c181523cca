------------------------------- MODULE EgelFlows -------------------------------
(***************************************************************************)
(* The flows of libegel.  A DPDK source asks the master thread for a flow  *)
(* of its address; the core of the card puts the packets of a flow on its  *)
(* recvq, the source reads them and gives them back on its freeq, and the  *)
(* core returns them to the pool when the next packet comes.  For flows of *)
(* a multicast address the core reports and leaves the group (IGMP).       *)
(* A source is named like the stream it asks for; flow q has queue q of    *)
(* the card.  Queues 0 (the rest) and 1 (IGMP) are made with the card.     *)
(***************************************************************************)
EXTENDS Integers, Sequences, FiniteSets, Functions

CONSTANTS
  Sources,      \* the DPDK sources of the process
  Multicast,    \* those of a multicast address
  Queues,       \* nrxqueue
  Slots,        \* nrxdesc, the slots of a recvq and of a freeq
  NbPkts,       \* packets a source takes at a time
  Pool,         \* buffers the card does not keep
  Mrts,         \* response times of queries
  MaxPackets,   \* bound: packets of all streams
  MaxTroubles   \* bound: odd packets, queries, closes and failures, together

ASSUME FlowAssumption ==
  /\ IsFiniteSet(Sources)
  /\ Multicast \subseteq Sources /\ Mrts \subseteq Nat
  /\ {Queues, Slots, NbPkts, Pool} \subseteq Nat \ {0} /\ Queues > 2
  /\ {MaxPackets, MaxTroubles} \subseteq Nat

VARIABLES
  nic,          \* "none", "marked" when addr is set and no core runs, "runs", "ended"
  flow,         \* of each UDP queue: address, whether nic is set, uri
  nextflow,
  rules,        \* of the card: pairs of a stream and its queue
  recvq, freeq, \* per queue
  timer,        \* per queue
  core,         \* "poll", or what it does with the timer of which queue
  told,         \* per queue: the last IGMP message sent
  asked,        \* history: queues whose group a query asked for, not reported since
  kept,         \* buffers kept for IGMP messages
  pool,         \* buffers in the mempool
  master,       \* the flow the master thread makes, and the step it is at
  done,         \* dpdkdone
  at,           \* where the thread of each source is: "out" of read; "nic" or "flow",
                \* waiting for a command; "get" or "put", in qsget or qsput, alone when
                \* it tests the slot, with doze before the sleep and asleep in it;
                \* with a packet to read, "have"
  open,         \* _slot_init
  handle,       \* the queue of _libegel_slot_handle, -1 for none
  cur,          \* the queue it is in qsget or qsput of
  hand,         \* packets of its burst not read yet
  ptr,          \* _libegel_pkts_ptr
  last,         \* history: the last packet read
  sent,         \* history: packets of each stream that were sent
  count,        \* history: the troubles of each kind
  lost,         \* history: buffers no one will give back
  crashed       \* the process ended

cardVars == <<nic, flow, nextflow, rules>>
queueVars == <<recvq, freeq, pool, kept, lost>>
igmpVars == <<timer, told, asked>>
srcVars == <<at, open, handle, cur, hand, ptr, last>>
vars == <<cardVars, queueVars, igmpVars, core, master, done, srcVars, sent, count, crashed>>

NONE == "none"
NIL == <<NONE, 0>>          \* a null packet, which has no buffer
UdpQueues == 2 .. Queues - 1
Idle == [step |-> "idle", s |-> NONE, q |-> 0]
Kinds == {"odd packet", "query", "close", "failure"}
Trouble(kind) ==
  /\ SumFunction(count) < MaxTroubles
  /\ count' = [count EXCEPT ![kind] = @ + 1]

Init ==
  /\ nic = "none" /\ nextflow = 0 /\ rules = {}
  /\ flow = [q \in UdpQueues |-> [addr |-> NONE, set |-> FALSE, uri |-> 0]]
  /\ recvq = [q \in UdpQueues |-> << >>] /\ freeq = [q \in UdpQueues |-> << >>]
  /\ timer = [q \in UdpQueues |-> "stop"] /\ told = [q \in UdpQueues |-> NONE] /\ asked = {}
  /\ core = [at |-> "poll", q |-> 0] /\ kept = 0 /\ pool = Pool /\ lost = 0
  /\ master = Idle /\ done = FALSE /\ crashed = FALSE
  /\ at = [s \in Sources |-> "out"] /\ open = [s \in Sources |-> FALSE]
  /\ handle = [s \in Sources |-> -1] /\ cur = [s \in Sources |-> 0]
  /\ hand = [s \in Sources |-> << >>] /\ ptr = [s \in Sources |-> 0]
  /\ last = [s \in Sources |-> <<s, 0>>] /\ sent = [s \in Sources |-> 0]
  /\ count = [k \in Kinds |-> 0]

(***************************************************************************)
(* The master thread: the commands nic and flow that make a slot.          *)
(***************************************************************************)
\* The places of the packets that have a buffer.
Buffers(packets) == {i \in DOMAIN packets : packets[i] # NIL}

\* The source is answered: it has a new slot, or one that gives nothing, and forgets
\* what it had.
Answer(s, q) ==
  /\ at' = [at EXCEPT ![s] = "out"] /\ open' = [open EXCEPT ![s] = TRUE]
  /\ handle' = [handle EXCEPT ![s] = q] /\ hand' = [hand EXCEPT ![s] = << >>]
  /\ ptr' = [ptr EXCEPT ![s] = 0]
  /\ lost' = lost + Cardinality(Buffers(hand[s]))
  /\ UNCHANGED <<cur, last>>

\* dpdknic: a card is made ready once; when its core cannot be launched the next
\* command finds it ready all the same.
MasterNic(s) ==
  /\ at[s] = "nic" /\ master = Idle /\ ~done
  /\ \/ /\ nic # "none" /\ at' = [at EXCEPT ![s] = "flow"]
        /\ UNCHANGED <<nic, nextflow, count, lost, open, handle, hand, ptr, cur, last>>
     \/ /\ nic = "none" /\ nic' = "runs" /\ nextflow' = 2 /\ at' = [at EXCEPT ![s] = "flow"]
        /\ UNCHANGED <<count, lost, open, handle, hand, ptr, cur, last>>
     \/ /\ nic = "none" /\ Trouble("failure") /\ Answer(s, -1)
        /\ \/ UNCHANGED <<nic, nextflow>>
           \/ nic' = "marked" /\ nextflow' = 2
  /\ UNCHANGED <<flow, rules, recvq, freeq, pool, kept, igmpVars, core, master, done, sent, crashed>>

\* dpdkflow looks at the flows that have no card: one with the address refuses the
\* request, one without is taken, or else the next.
Found(s) == \E q \in UdpQueues : q < nextflow /\ ~flow[q].set /\ flow[q].addr = s
Free(q) == q = nextflow

MasterFind(s) ==
  /\ at[s] = "flow" /\ master = Idle /\ ~done
  /\ \/ /\ ~Found(s)
        /\ \E q \in UdpQueues :
             /\ Free(q)
             /\ flow' = [flow EXCEPT ![q].addr = s]
             /\ nextflow' = q + 1 /\ master' = [step |-> "rule", s |-> s, q |-> q]
        /\ UNCHANGED <<srcVars, lost>>
     \/ /\ Found(s) \/ \A q \in UdpQueues : ~Free(q)
        /\ Answer(s, -1) /\ UNCHANGED <<flow, nextflow, master>>
  /\ UNCHANGED <<nic, rules, recvq, freeq, pool, kept, igmpVars, core, done, sent, count, crashed>>

\* Variant: the rule names the queue of the flow before.
MasterRuleBefore ==
  /\ master.step = "rule"
  /\ rules' = rules \cup {<<master.s, IF master.q - 1 \in UdpQueues THEN master.q - 1 ELSE master.q>>}
  /\ master' = [master EXCEPT !.step = "open"]
  /\ UNCHANGED <<nic, flow, nextflow, queueVars, igmpVars, core, done, srcVars, sent, count, crashed>>

\* flowudphandle: the card takes the rule, or refuses it and the flow keeps its address.
MasterRule ==
  /\ master.step = "rule"
  /\ \/ /\ rules' = rules \cup {<<master.s, master.q>>}
        /\ master' = [master EXCEPT !.step = "open"] /\ UNCHANGED <<srcVars, lost, count>>
     \/ /\ Trouble("failure") /\ Answer(master.s, -1) /\ master' = Idle /\ UNCHANGED rules
  /\ UNCHANGED <<nic, flow, nextflow, recvq, freeq, pool, kept, igmpVars, core, done, sent, crashed>>

\* The queues are made, then the flow is seen by the core ...
MasterOpen ==
  /\ master.step = "open"
  /\ flow' = [flow EXCEPT ![master.q].set = TRUE]
  /\ IF master.s \in Multicast THEN master' = [master EXCEPT !.step = "uri"] /\ UNCHANGED <<srcVars, lost>>
     ELSE master' = Idle /\ Answer(master.s, master.q)
  /\ UNCHANGED <<nic, nextflow, rules, recvq, freeq, pool, kept, igmpVars, core, done, sent, count, crashed>>

\* ... then it is to be reported, two more times after the first.
MasterUri ==
  /\ master.step = "uri"
  /\ flow' = [flow EXCEPT ![master.q].uri = 2] /\ master' = [master EXCEPT !.step = "timer"]
  /\ UNCHANGED <<nic, nextflow, rules, queueVars, igmpVars, core, done, srcVars, sent, count, crashed>>

\* Variant: the timer is not set.
MasterNoTimer ==
  /\ master.step = "timer" /\ Answer(master.s, master.q) /\ master' = Idle
  /\ UNCHANGED <<cardVars, recvq, freeq, pool, kept, igmpVars, core, done, sent, count, crashed>>

\* rte_timer_reset fails while another thread is in the callback; no one looks.
MasterTimer ==
  /\ master.step = "timer" /\ Answer(master.s, master.q) /\ master' = Idle
  /\ timer' = [timer EXCEPT ![master.q] = IF @ = "running" THEN @ ELSE "pending"]
  /\ UNCHANGED <<cardVars, recvq, freeq, pool, kept, told, asked, core, done, sent, count, crashed>>

\* The command exit: the master thread takes no more commands.
MasterExit ==
  /\ master = Idle /\ ~done /\ done' = TRUE
  /\ UNCHANGED <<cardVars, queueVars, igmpVars, core, master, srcVars, sent, count, crashed>>

Master == (\E s \in Sources : MasterNic(s) \/ MasterFind(s)) \/ MasterRule \/ MasterOpen \/ MasterUri \/ MasterTimer

(***************************************************************************)
(* The core of the card.                                                   *)
(***************************************************************************)
Polls == nic = "runs" /\ core.at = "poll"

\* The two queues wake who sleeps on them; a kick before the sleep is lost.
Woken(q) ==
  at' = [s \in Sources |-> IF cur[s] # q THEN at[s]
                           ELSE IF at[s] = "get asleep" THEN "get" ELSE IF at[s] = "put asleep" THEN "put" ELSE at[s]]

\* Variant: a packet that finds the queue full is forgotten.
PoolAfterLeaks(q, taken) == pool - 1 + Len(freeq[q])

\* The buffers given back are returned once the packet was put, or freed.
PoolAfter(q, taken) == pool - (IF taken THEN 1 ELSE 0) + Len(freeq[q])

\* dpdkflowudp: a packet that is no datagram is freed, and a null packet put for it;
\* with no room that null packet is freed too, which is a crash.
FlowUdp(q, p, odd) ==
  LET room == Len(recvq[q]) < Slots IN
  IF odd /\ ~room THEN crashed' = TRUE /\ UNCHANGED <<recvq, freeq, pool, at>>
  ELSE /\ recvq' = [recvq EXCEPT ![q] = IF room THEN Append(@, IF odd THEN NIL ELSE p) ELSE @]
       /\ freeq' = [freeq EXCEPT ![q] = << >>]
       /\ pool' = PoolAfter(q, room /\ ~odd)
       /\ Woken(q) /\ UNCHANGED crashed

\* A packet comes: to the queue of a rule for it, if there is a buffer to receive it.
\* With no rule, or before the flow is ready, it is freed at once.
CorePacket(s) ==
  /\ Polls /\ SumFunction(sent) < MaxPackets /\ sent' = [sent EXCEPT ![s] = @ + 1]
  /\ \E odd \in BOOLEAN :
       /\ IF odd THEN Trouble("odd packet") ELSE UNCHANGED count
       /\ \/ /\ \E rule \in rules : rule[1] = s /\ flow[rule[2]].set /\ pool > 0 /\ FlowUdp(rule[2], <<s, sent[s] + 1>>, odd)
          \/ /\ pool = 0 \/ (\A rule \in rules : rule[1] # s) \/ \E rule \in rules : rule[1] = s /\ ~flow[rule[2]].set
             /\ UNCHANGED <<recvq, freeq, pool, at, crashed>>
  /\ UNCHANGED <<cardVars, kept, lost, igmpVars, core, master, done, open, handle, cur, hand, ptr, last>>

\* igmpquery, general (NONE) or of one group.  A flow that is still to be reported by
\* itself is left alone; the time of the answer is taken modulo the response time.
CoreQuery(group, mrt) ==
  LET groups == {q \in UdpQueues : flow[q].set /\ flow[q].addr \in Multicast /\ group \in {NONE, flow[q].addr}}
      timed == {q \in groups : flow[q].uri = 0 /\ timer[q] # "running"}
  IN
  /\ Polls /\ Trouble("query")
  /\ asked' = asked \cup groups
  /\ timer' = [q \in UdpQueues |-> IF q \in timed THEN "pending" ELSE timer[q]]
  /\ crashed' = (mrt = 0 /\ timed # {})
  /\ UNCHANGED <<cardVars, queueVars, told, core, master, done, srcVars, sent>>

\* rte_timer_manage calls igmptimer.
CoreFire(q) ==
  /\ Polls /\ timer[q] = "pending"
  /\ timer' = [timer EXCEPT ![q] = "running"] /\ core' = [at |-> "report", q |-> q]
  /\ UNCHANGED <<cardVars, queueVars, told, asked, master, done, srcVars, sent, count, crashed>>

\* A message is a copy of one that is kept; there must be buffers for both.
Message(q, kind) == (IF told[q] = kind THEN 0 ELSE 1)
CoreReport ==
  LET q == core.q IN
  /\ core.at = "report"
  /\ IF pool <= Message(q, "report") THEN crashed' = TRUE /\ UNCHANGED <<told, asked, kept, pool, timer, flow, core>>
     ELSE /\ told' = [told EXCEPT ![q] = "report"] /\ asked' = asked \ {q}
          /\ kept' = kept + Message(q, "report") /\ pool' = pool - Message(q, "report")
          /\ timer' = [timer EXCEPT ![q] = IF flow[q].uri # 0 THEN "pending" ELSE @]
          /\ flow' = [flow EXCEPT ![q].uri = IF @ # 0 THEN @ - 1 ELSE 0]
          /\ core' = [core EXCEPT !.at = "after"] /\ UNCHANGED crashed
  /\ UNCHANGED <<nic, nextflow, rules, recvq, freeq, lost, master, done, srcVars, sent, count>>

\* Back in rte_timer_manage: a timer that was not set again is stopped.
CoreAfter ==
  /\ core.at = "after" /\ core' = [at |-> "poll", q |-> 0]
  /\ timer' = [timer EXCEPT ![core.q] = IF @ = "running" THEN "stop" ELSE @]
  /\ UNCHANGED <<cardVars, queueVars, told, asked, master, done, srcVars, sent, count, crashed>>

\* igmpshutdown: every group is left.
CoreEnd ==
  LET left == {q \in UdpQueues : flow[q].set /\ flow[q].addr \in Multicast} IN
  /\ Polls /\ done /\ nic' = "ended"
  /\ timer' = [q \in UdpQueues |-> IF q \in left THEN "stop" ELSE timer[q]]
  /\ told' = [q \in UdpQueues |-> IF q \in left THEN "leave" ELSE told[q]]
  /\ crashed' = (left # {} /\ pool <= Cardinality(left))
  /\ IF crashed' THEN UNCHANGED <<kept, pool>>
     ELSE kept' = kept + Cardinality(left) /\ pool' = pool - Cardinality(left)
  /\ UNCHANGED <<flow, nextflow, rules, recvq, freeq, lost, asked, core, master, done, srcVars, sent, count>>

Core == (\E s \in Sources : CorePacket(s))
        \/ (\E group \in Multicast \cup {NONE}, mrt \in Mrts : CoreQuery(group, mrt))
        \/ (\E q \in UdpQueues : CoreFire(q)) \/ CoreReport \/ CoreAfter \/ CoreEnd

(***************************************************************************)
(* The sources: read of CDPDKDataSource, and close by another thread.      *)
(***************************************************************************)
ReadConfig(s) ==
  /\ at[s] = "out" /\ ~open[s] /\ at' = [at EXCEPT ![s] = "nic"]
  /\ UNCHANGED <<cardVars, queueVars, igmpVars, core, master, done, open, handle, cur, hand, ptr, last, sent, count, crashed>>

\* A burst waits for a packet and takes those that follow.  With no slot it is of -1
\* packets, and so is every later read until the source is closed.
ReadBurst(s) ==
  /\ \/ at[s] = "out" /\ open[s] /\ ptr[s] = 0
     \/ at[s] = "get"
  /\ LET q == IF at[s] = "get" THEN cur[s] ELSE handle[s] IN
     \/ /\ q = -1 /\ ptr' = [ptr EXCEPT ![s] = -1] /\ UNCHANGED <<at, cur, hand, recvq>>
     \/ /\ q # -1 /\ recvq[q] = << >>
        /\ at' = [at EXCEPT ![s] = "get doze"] /\ cur' = [cur EXCEPT ![s] = q] /\ UNCHANGED <<hand, ptr, recvq>>
     \/ \E n \in 1 .. NbPkts :
          /\ q # -1 /\ n = IF Len(recvq[q]) < NbPkts THEN Len(recvq[q]) ELSE NbPkts
          /\ hand' = [hand EXCEPT ![s] = SubSeq(recvq[q], 1, n)] /\ ptr' = [ptr EXCEPT ![s] = n]
          /\ recvq' = [recvq EXCEPT ![q] = SubSeq(@, n + 1, Len(@))]
          /\ at' = [at EXCEPT ![s] = "have"] /\ UNCHANGED cur
  /\ UNCHANGED <<cardVars, freeq, pool, kept, lost, igmpVars, core, master, done, open, handle, last, sent, count, crashed>>

ReadSleep(s) ==
  /\ \/ at[s] = "get doze" /\ at' = [at EXCEPT ![s] = "get asleep"]
     \/ at[s] = "put doze" /\ at' = [at EXCEPT ![s] = "put asleep"]
  /\ UNCHANGED <<cardVars, queueVars, igmpVars, core, master, done, open, handle, cur, hand, ptr, last, sent, count, crashed>>

\* Later reads take the packets that are left of the burst.
ReadNext(s) ==
  /\ at[s] = "out" /\ open[s] /\ ptr[s] > 0 /\ at' = [at EXCEPT ![s] = "have"]
  /\ UNCHANGED <<cardVars, queueVars, igmpVars, core, master, done, open, handle, cur, hand, ptr, last, sent, count, crashed>>

\* A packet is copied, and given back: closed in the meantime the source has no queue
\* for it.  A null packet has the length -1: the copy of it ends the process.
ReadPacket(s) ==
  LET p == Head(hand[s])
      q == IF at[s] = "put" THEN cur[s] ELSE handle[s]
      full == q # -1 /\ Len(freeq[q]) = Slots
  IN
  /\ at[s] \in {"have", "put"}
  /\ IF p = NIL THEN crashed' = TRUE /\ UNCHANGED <<at, last, cur, hand, ptr, freeq, lost>>
     ELSE /\ last' = [last EXCEPT ![s] = p] /\ UNCHANGED crashed
          /\ IF full THEN at' = [at EXCEPT ![s] = "put doze"] /\ cur' = [cur EXCEPT ![s] = q] /\ UNCHANGED <<hand, ptr, freeq, lost>>
             ELSE /\ at' = [at EXCEPT ![s] = "out"] /\ UNCHANGED cur
                  /\ hand' = [hand EXCEPT ![s] = Tail(@)] /\ ptr' = [ptr EXCEPT ![s] = @ - 1]
                  /\ IF q = -1 THEN lost' = lost + 1 /\ UNCHANGED freeq
                     ELSE freeq' = [freeq EXCEPT ![q] = Append(@, p)] /\ UNCHANGED lost
  /\ UNCHANGED <<cardVars, recvq, pool, kept, igmpVars, core, master, done, open, handle, sent, count>>

\* The slot is not deleted, and the packets of the burst are not given back.
Close(s) ==
  /\ open[s] /\ Trouble("close")
  /\ open' = [open EXCEPT ![s] = FALSE] /\ handle' = [handle EXCEPT ![s] = -1]
  /\ UNCHANGED <<cardVars, queueVars, igmpVars, core, master, done, at, cur, hand, ptr, last, sent, crashed>>

Source(s) == ReadConfig(s) \/ ReadBurst(s) \/ ReadSleep(s) \/ ReadNext(s) \/ ReadPacket(s) \/ Close(s)

Next == ~crashed /\ (Master \/ MasterExit \/ Core \/ \E s \in Sources : Source(s))

Spec == Init /\ [][Next]_vars

\* The master thread has its commands, and the core polls its timers for ever.
FairSpec ==
  /\ Spec
  /\ WF_vars(~crashed /\ Master)
  /\ \A q \in UdpQueues : WF_vars(~crashed /\ CoreFire(q))
  /\ WF_vars(~crashed /\ (CoreReport \/ CoreAfter)) /\ WF_vars(~crashed /\ CoreEnd)

(***************************************************************************)
(* Properties.                                                             *)
(***************************************************************************)
\* The places of buffers in some queues, or in the hands of the sources.
Held(fifo) == UNION {{x} \X Buffers(fifo[x]) : x \in DOMAIN fifo}

\* Every buffer is in the pool, on a queue, with a source or kept for IGMP, whatever
\* the card, the master and the sources do at once; none is lost but by close.
MbufsKept ==
  /\ pool >= 0 /\ (count["close"] = 0 => lost = 0)
  /\ pool + kept + lost + Cardinality(Held(recvq)) + Cardinality(Held(freeq)) + Cardinality(Held(hand)) = Pool

\* A source reads packets of its own stream, each once and in the order they came, over
\* restarts too: no packet of another flow, of an earlier burst or of an older queue.
PacketsAreOwn == [][\A s \in Sources : last'[s] # last[s] => last'[s][1] = s /\ last'[s][2] > last[s][2]]_last

\* A group that was joined and never reported has a report to come: its timer is set,
\* or the master thread is about to set it, whatever the queries do to the timer.
JoinIsPending ==
  \A q \in UdpQueues :
    (nic = "runs" /\ flow[q].set /\ flow[q].addr \in Multicast /\ told[q] = NONE)
      => timer[q] # "stop" \/ (master.q = q /\ master.step \in {"uri", "timer"})

\* igmp.c: with reports to come, "a join/report is about to go out": a query of a group
\* that is joined is answered.
QueriesAnswered == \A q \in UdpQueues : (q \in asked) ~> (q \notin asked \/ crashed \/ done)

=============================================================================
