---------------------------- MODULE EgelFlows_proofs ----------------------------
(***************************************************************************)
(* For any sources, queues and buffers, and any troubles: a source reads   *)
(* packets of its own stream, each once and in the order they came, a      *)
(* group that was joined has a report to come, and no buffer of the pool   *)
(* is lost or given back twice.                                            *)
(***************************************************************************)
EXTENDS EgelFlows, FiniteSetTheorems, TLAPS

Packets == (Sources \X Nat) \cup {NIL}
Getting == {"get", "get doze", "get asleep"}
Putting == {"put", "put doze", "put asleep"}

FlowTypes ==
  /\ recvq \in [UdpQueues -> Seq(Packets)] /\ hand \in [Sources -> Seq(Packets)]
  /\ last \in [Sources -> Sources \X Nat] /\ sent \in [Sources -> Nat]
  /\ at \in [Sources -> {"out", "nic", "flow", "have"} \cup Getting \cup Putting]
  /\ handle \in [Sources -> UdpQueues \cup {-1}] /\ cur \in [Sources -> UdpQueues \cup {0}]
  /\ ptr \in [Sources -> Int] /\ open \in [Sources -> BOOLEAN]
  /\ flow \in [UdpQueues -> [addr : Sources \cup {NONE}, set : BOOLEAN, uri : Nat]]
  /\ nextflow \in Nat /\ rules \subseteq Sources \X UdpQueues
  /\ timer \in [UdpQueues -> {"stop", "pending", "running"}]
  /\ told \in [UdpQueues -> {NONE, "report", "leave"}]
  /\ core \in [at : {"poll", "report", "after"}, q : UdpQueues \cup {0}]
  /\ master \in [step : {"idle", "rule", "open", "uri", "timer"}, s : Sources \cup {NONE}, q : UdpQueues \cup {0}]

(***************************************************************************)
(* Which queue belongs to whom.  A queue is made for one source and never  *)
(* given to another; it is empty until the core sees its flow.             *)
(***************************************************************************)
FlowsInv ==
  /\ nic = "none" => nextflow = 0
  /\ \A q \in UdpQueues : (flow[q].set => q < nextflow) /\ (~flow[q].set => recvq[q] = << >>)
  /\ \A rule \in rules : rule[2] < nextflow /\ flow[rule[2]].addr = rule[1]

MasterInv ==
  /\ master.step # "idle" =>
       /\ master.s \in Sources /\ at[master.s] = "flow"
       /\ master.q \in UdpQueues /\ master.q < nextflow /\ flow[master.q].addr = master.s
  /\ master.step \in {"rule", "open"} => ~flow[master.q].set
  /\ master.step \in {"uri", "timer"} => flow[master.q].set

\* Queue q is the one source s reads from.
Owns(s, q) == flow[q].addr = s /\ flow[q].set

SourceInv(s) ==
  /\ handle[s] # -1 => Owns(s, handle[s])
  /\ at[s] \in Getting => cur[s] \in UdpQueues /\ Owns(s, cur[s]) /\ handle[s] \in {-1, cur[s]} /\ hand[s] = << >>
  /\ ptr[s] = Len(hand[s]) \/ (ptr[s] = -1 /\ hand[s] = << >>)
  /\ at[s] \in Putting \cup {"have"} => hand[s] # << >>

(***************************************************************************)
(* The packets of a stream that a source has not read, in order: those of  *)
(* its burst, then those of the queue it reads from or that the master     *)
(* thread makes for it.  Older queues of the source are not read again.    *)
(***************************************************************************)
Reads(s) == IF at[s] \in Getting THEN cur[s] ELSE handle[s]
Made(s, q) == master.s = s /\ master.q = q /\ master.step \in {"uri", "timer"}

Rising(w) == \A i, j \in 1 .. Len(w) : i < j /\ w[i] # NIL /\ w[j] # NIL => w[i][2] < w[j][2]

QueueOrder(q) ==
  /\ Rising(recvq[q])
  /\ \A j \in 1 .. Len(recvq[q]) : recvq[q][j] # NIL =>
       flow[q].addr \in Sources /\ recvq[q][j][1] = flow[q].addr /\ recvq[q][j][2] <= sent[flow[q].addr]

HandOrder(s) ==
  /\ Rising(hand[s])
  /\ \A j \in 1 .. Len(hand[s]) : hand[s][j] # NIL =>
       /\ hand[s][j][1] = s /\ hand[s][j][2] <= sent[s]
       /\ hand[s][j][2] > last[s][2] \/ (at[s] \in Putting /\ j = 1)
  /\ at[s] \in Putting => hand[s][1] = last[s] /\ last[s] # NIL
  /\ last[s][1] = s /\ last[s][2] <= sent[s]

NextOrder(s, q) ==
  /\ Reads(s) = q \/ Made(s, q) => \A j \in 1 .. Len(recvq[q]) : recvq[q][j] # NIL => recvq[q][j][2] > last[s][2]
  /\ Reads(s) = q => \A i \in 1 .. Len(hand[s]), j \in 1 .. Len(recvq[q]) :
       hand[s][i] # NIL /\ recvq[q][j] # NIL => hand[s][i][2] < recvq[q][j][2]

OrderInv ==
  /\ \A q \in UdpQueues : QueueOrder(q)
  /\ \A s \in Sources : HandOrder(s) /\ \A q \in UdpQueues : NextOrder(s, q)

\* The timer of a flow only ends its work after a report.
JoinInv ==
  JoinIsPending /\ (core.at # "poll" => core.q \in UdpQueues) /\ (core.at = "after" => told[core.q] # NONE)

EgelFlowInv ==
  FlowTypes /\ FlowsInv /\ MasterInv /\ (\A s \in Sources : SourceInv(s)) /\ OrderInv /\ JoinInv

(***************************************************************************)
(* What a step must not disturb.                                           *)
(***************************************************************************)
LEMMA Limits ==
  /\ UdpQueues \subseteq Nat /\ \A q \in UdpQueues : q > 1
  /\ Queues \in Nat /\ NbPkts \in Nat /\ Slots \in Nat
BY FlowAssumption DEF UdpQueues

\* A step that moves no packet but forgets a burst that the source will not read.
LEMMA OrderKept ==
  ASSUME EgelFlowInv, UNCHANGED <<recvq, sent, last>>,
         \A q \in UdpQueues : flow'[q].addr = flow[q].addr \/ recvq[q] = << >>,
         \A s \in Sources : \/ hand'[s] = << >> /\ at'[s] \notin Putting
                            \/ hand'[s] = hand[s] /\ (at'[s] \in Putting <=> at[s] \in Putting),
         \A s \in Sources, q \in UdpQueues : Reads(s)' = q =>
           \/ Reads(s) = q \/ recvq[q] = << >>
           \/ Made(s, q) /\ hand'[s] = << >>,
         \A s \in Sources, q \in UdpQueues : Made(s, q)' => Made(s, q) \/ recvq[q] = << >>
  PROVE  OrderInv'
<1>1. ASSUME NEW q \in UdpQueues PROVE QueueOrder(q)'
  <2>1. QueueOrder(q)
    BY DEF EgelFlowInv, OrderInv
  <2> QED
    BY <2>1 DEF QueueOrder, Rising
<1>2. ASSUME NEW s \in Sources PROVE HandOrder(s)'
  <2>1. HandOrder(s)
    BY DEF EgelFlowInv, OrderInv
  <2> QED
    BY <2>1 DEF HandOrder, Rising
<1>3. ASSUME NEW s \in Sources, NEW q \in UdpQueues PROVE NextOrder(s, q)'
  <2>1. NextOrder(s, q)
    BY DEF EgelFlowInv, OrderInv
  <2>2. CASE recvq[q] = << >>
    BY <2>2 DEF NextOrder
  <2>3. CASE recvq[q] # << >>
    <3>1. Reads(s)' = q \/ Made(s, q)' => Reads(s) = q \/ Made(s, q)
      BY <2>3
    <3>2. Reads(s)' = q => hand'[s] = << >> \/ (Reads(s) = q /\ hand'[s] = hand[s])
      BY <2>3
    <3> QED
      BY <2>1, <3>1, <3>2 DEF NextOrder
  <2> QED
    BY <2>2, <2>3
<1> QED
  BY <1>1, <1>2, <1>3 DEF OrderInv

LEMMA SourceKept ==
  ASSUME NEW s \in Sources, SourceInv(s), at'[s] \in Getting => at[s] \in Getting,
         at'[s] \in Putting \cup {"have"} => at[s] \in Putting \cup {"have"},
         handle'[s] = handle[s], cur'[s] = cur[s], hand'[s] = hand[s], ptr'[s] = ptr[s],
         \A q \in UdpQueues : flow[q].set => flow'[q].set /\ flow'[q].addr = flow[q].addr,
         handle[s] \in UdpQueues \cup {-1}
  PROVE  SourceInv(s)'
BY DEF SourceInv, Owns

LEMMA Facts ==
  ASSUME EgelFlowInv
  PROVE  /\ FlowTypes /\ FlowsInv /\ MasterInv /\ (\A s \in Sources : SourceInv(s)) /\ OrderInv /\ JoinInv
BY DEF EgelFlowInv

LEMMA FlowChanges ==
  ASSUME FlowTypes, NEW q \in UdpQueues, NEW x
  PROVE  /\ [flow EXCEPT ![q].addr = x] = [flow EXCEPT ![q] = [addr |-> x, set |-> flow[q].set, uri |-> flow[q].uri]]
         /\ [flow EXCEPT ![q].set = x] = [flow EXCEPT ![q] = [addr |-> flow[q].addr, set |-> x, uri |-> flow[q].uri]]
         /\ [flow EXCEPT ![q].uri = x] = [flow EXCEPT ![q] = [addr |-> flow[q].addr, set |-> flow[q].set, uri |-> x]]
<1>1. PICK f \in [addr : Sources \cup {NONE}, set : BOOLEAN, uri : Nat] : f = flow[q]
  BY DEF FlowTypes
<1>2. /\ [f EXCEPT !.addr = x] = [addr |-> x, set |-> f.set, uri |-> f.uri]
      /\ [f EXCEPT !.set = x] = [addr |-> f.addr, set |-> x, uri |-> f.uri]
      /\ [f EXCEPT !.uri = x] = [addr |-> f.addr, set |-> f.set, uri |-> x]
  OBVIOUS
<1> QED
  BY <1>1, <1>2

LEMMA EgelFlowInit == Init => EgelFlowInv
<1> SUFFICES ASSUME Init PROVE EgelFlowInv
  OBVIOUS
<1>1. \A S : << >> \in Seq(S) /\ Len(<< >>) = 0
  OBVIOUS
<1>2. FlowTypes
  <2>1. recvq \in [UdpQueues -> Seq(Packets)] /\ hand \in [Sources -> Seq(Packets)]
    BY <1>1 DEF Init
  <2>2. last \in [Sources -> Sources \X Nat] /\ sent \in [Sources -> Nat]
    BY DEF Init
  <2> QED
    BY <2>1, <2>2 DEF Init, FlowTypes, Idle
<1>3. FlowsInv /\ MasterInv /\ \A s \in Sources : SourceInv(s)
  BY <1>1 DEF Init, FlowsInv, MasterInv, SourceInv, Owns, Idle, Getting, Putting
<1>4. OrderInv
  BY <1>1 DEF Init, OrderInv, QueueOrder, HandOrder, NextOrder, Rising, Putting
<1>5. JoinInv
  BY DEF Init, JoinInv, JoinIsPending
<1> QED
  BY <1>2, <1>3, <1>4, <1>5 DEF EgelFlowInv

(***************************************************************************)
(* The master thread.                                                      *)
(***************************************************************************)
\* The source that is answered reads from the queue made for it, or from none.
LEMMA Answered ==
  ASSUME EgelFlowInv, NEW s \in Sources, NEW q \in UdpQueues \cup {-1}, Answer(s, q),
         at[s] \in {"nic", "flow"}, UNCHANGED <<recvq, sent>>, master' = Idle,
         \A r \in UdpQueues : flow'[r].addr = flow[r].addr /\ (flow[r].set => flow'[r].set),
         q # -1 => flow'[q].set /\ flow[q].addr = s /\ (Made(s, q) \/ recvq[q] = << >>)
  PROVE  /\ OrderInv' /\ (\A t \in Sources : SourceInv(t)') /\ MasterInv'
         /\ hand' \in [Sources -> Seq(Packets)] /\ last' \in [Sources -> Sources \X Nat]
         /\ at' \in [Sources -> {"out", "nic", "flow", "have"} \cup Getting \cup Putting]
         /\ handle' \in [Sources -> UdpQueues \cup {-1}] /\ cur' \in [Sources -> UdpQueues \cup {0}]
         /\ ptr' \in [Sources -> Int] /\ open' \in [Sources -> BOOLEAN]
<1>1. FlowTypes /\ \A t \in Sources : SourceInv(t)
  BY DEF EgelFlowInv
<1>2. /\ at' = [at EXCEPT ![s] = "out"] /\ open' = [open EXCEPT ![s] = TRUE]
      /\ handle' = [handle EXCEPT ![s] = q] /\ hand' = [hand EXCEPT ![s] = << >>]
      /\ ptr' = [ptr EXCEPT ![s] = 0] /\ cur' = cur /\ last' = last
  BY DEF Answer
<1>3. << >> \in Seq(Packets) /\ Len(<< >>) = 0
  OBVIOUS
<1>4. /\ hand' \in [Sources -> Seq(Packets)] /\ last' \in [Sources -> Sources \X Nat]
      /\ at' \in [Sources -> {"out", "nic", "flow", "have"} \cup Getting \cup Putting]
      /\ handle' \in [Sources -> UdpQueues \cup {-1}] /\ cur' \in [Sources -> UdpQueues \cup {0}]
      /\ ptr' \in [Sources -> Int] /\ open' \in [Sources -> BOOLEAN]
  <2>1. hand' \in [Sources -> Seq(Packets)] /\ last' \in [Sources -> Sources \X Nat]
    BY <1>1, <1>2, <1>3 DEF FlowTypes
  <2>2. /\ at' \in [Sources -> {"out", "nic", "flow", "have"} \cup Getting \cup Putting]
        /\ open' \in [Sources -> BOOLEAN]
    BY <1>1, <1>2 DEF FlowTypes
  <2>3. handle' \in [Sources -> UdpQueues \cup {-1}] /\ cur' \in [Sources -> UdpQueues \cup {0}]
    BY <1>1, <1>2 DEF FlowTypes
  <2>4. ptr' \in [Sources -> Int]
    BY <1>1, <1>2 DEF FlowTypes
  <2> QED
    BY <2>1, <2>2, <2>3, <2>4
<1>5. /\ at'[s] = "out" /\ handle'[s] = q /\ hand'[s] = << >> /\ ptr'[s] = 0
      /\ \A t \in Sources : t # s => /\ at'[t] = at[t] /\ handle'[t] = handle[t] /\ hand'[t] = hand[t]
                                     /\ ptr'[t] = ptr[t] /\ cur'[t] = cur[t]
  BY <1>1, <1>2 DEF FlowTypes
<1>6. ASSUME NEW t \in Sources PROVE SourceInv(t)'
  <2>1. CASE t = s
    BY <1>3, <1>5, <2>1 DEF SourceInv, Owns, Getting, Putting
  <2>2. CASE t # s
    BY <1>1, <1>5, <2>2, SourceKept DEF FlowTypes
  <2> QED
    BY <2>1, <2>2
<1>7. MasterInv'
  BY DEF MasterInv, Idle
<1>8. OrderInv'
  <2>1. \A t \in Sources : \/ hand'[t] = << >> /\ at'[t] \notin Putting
                           \/ hand'[t] = hand[t] /\ (at'[t] \in Putting <=> at[t] \in Putting)
    BY <1>5 DEF Putting
  <2>2. \A t \in Sources, r \in UdpQueues : Reads(t)' = r =>
           \/ Reads(t) = r \/ recvq[r] = << >>
           \/ Made(t, r) /\ hand'[t] = << >>
    <3> SUFFICES ASSUME NEW t \in Sources, NEW r \in UdpQueues, Reads(t)' = r
                 PROVE  \/ Reads(t) = r \/ recvq[r] = << >>
                        \/ Made(t, r) /\ hand'[t] = << >>
      OBVIOUS
    <3>1. CASE t = s
      <4>1. q = r
        BY <1>5, <3>1 DEF Reads, Getting
      <4> QED
        BY <1>5, <3>1, <4>1, Limits
    <3>2. CASE t # s
      BY <1>5, <3>2 DEF Reads
    <3> QED
      BY <3>1, <3>2
  <2>3. \A t \in Sources, r \in UdpQueues : ~Made(t, r)'
    BY DEF Made, Idle
  <2> QED
    BY <1>2, <2>1, <2>2, <2>3, OrderKept
<1> QED
  BY <1>4, <1>6, <1>7, <1>8

\* A step of the master thread that answers no one.
LEMMA NotAnswered ==
  ASSUME EgelFlowInv, UNCHANGED <<recvq, sent, last, hand, handle, cur, ptr, open>>,
         at' = at \/ (\E s \in Sources : at[s] \in {"out", "nic"} /\ at' = [at EXCEPT ![s] = "flow"])
                  \/ (\E s \in Sources : at[s] = "out" /\ at' = [at EXCEPT ![s] = "nic"]),
         \A q \in UdpQueues : /\ flow'[q].addr = flow[q].addr \/ (recvq[q] = << >> /\ ~flow[q].set)
                              /\ flow[q].set => flow'[q].set,
         \A s \in Sources, q \in UdpQueues : Made(s, q)' => Made(s, q) \/ recvq[q] = << >>
  PROVE  /\ OrderInv' /\ (\A t \in Sources : SourceInv(t)')
         /\ hand' \in [Sources -> Seq(Packets)] /\ last' \in [Sources -> Sources \X Nat]
         /\ at' \in [Sources -> {"out", "nic", "flow", "have"} \cup Getting \cup Putting]
         /\ handle' \in [Sources -> UdpQueues \cup {-1}] /\ cur' \in [Sources -> UdpQueues \cup {0}]
         /\ ptr' \in [Sources -> Int] /\ open' \in [Sources -> BOOLEAN]
<1>1. FlowTypes /\ \A t \in Sources : SourceInv(t)
  BY DEF EgelFlowInv
<1>2. /\ at' \in [Sources -> {"out", "nic", "flow", "have"} \cup Getting \cup Putting]
      /\ \A t \in Sources : at'[t] = at[t] \/ (at[t] \in {"out", "nic"} /\ at'[t] \in {"nic", "flow"})
  <2>1. at \in [Sources -> {"out", "nic", "flow", "have"} \cup Getting \cup Putting]
    BY <1>1 DEF FlowTypes
  <2>2. CASE at' = at
    BY <2>1, <2>2
  <2>3. CASE \E s \in Sources : at[s] \in {"out", "nic"} /\ at' = [at EXCEPT ![s] = "flow"]
    <3>1. PICK s \in Sources : at[s] \in {"out", "nic"} /\ at' = [at EXCEPT ![s] = "flow"]
      BY <2>3
    <3> QED
      BY <2>1, <3>1
  <2>4. CASE \E s \in Sources : at[s] = "out" /\ at' = [at EXCEPT ![s] = "nic"]
    <3>1. PICK s \in Sources : at[s] = "out" /\ at' = [at EXCEPT ![s] = "nic"]
      BY <2>4
    <3> QED
      BY <2>1, <3>1
  <2> QED
    BY <2>2, <2>3, <2>4
<1>3. \A t \in Sources : /\ at'[t] \in Getting <=> at[t] \in Getting
                         /\ at'[t] \in Putting <=> at[t] \in Putting
                         /\ at'[t] \in Putting \cup {"have"} <=> at[t] \in Putting \cup {"have"}
  BY <1>2 DEF Getting, Putting
<1>4. \A t \in Sources : SourceInv(t)'
  BY <1>1, <1>3, SourceKept DEF FlowTypes
<1>5. \A t \in Sources : Reads(t)' = Reads(t)
  BY <1>3 DEF Reads
<1>6. OrderInv'
  BY <1>3, <1>5, OrderKept
<1> QED
  BY <1>1, <1>2, <1>4, <1>6 DEF FlowTypes

LEMMA MasterSteps ==
  ASSUME EgelFlowInv,
         (\E s \in Sources : MasterNic(s)) \/ (\E s \in Sources : MasterFind(s))
           \/ MasterRule \/ MasterOpen \/ MasterUri \/ MasterTimer
  PROVE  EgelFlowInv'
<1>1. FlowTypes /\ FlowsInv /\ MasterInv /\ (\A s \in Sources : SourceInv(s)) /\ OrderInv /\ JoinInv
  BY Facts
<1>2. UdpQueues \subseteq Nat /\ (\A q \in UdpQueues : q > 1) /\ -1 \notin UdpQueues
  BY Limits
<1>3. ASSUME NEW s \in Sources, MasterNic(s) PROVE EgelFlowInv'
  <2>1. /\ at[s] = "nic" /\ master = Idle /\ master' = master /\ core' = core
        /\ UNCHANGED <<flow, rules, recvq, timer, told, sent>>
    BY <1>3 DEF MasterNic, igmpVars
  <2>2. (nic' = nic /\ nextflow' = nextflow) \/ (nic = "none" /\ nic' # "none" /\ nextflow' = 2)
    BY <1>3 DEF MasterNic
  <2>3. FlowsInv'
    <3>1. CASE nic' = nic /\ nextflow' = nextflow
      BY <1>1, <2>1, <3>1 DEF FlowsInv
    <3>2. CASE nic = "none" /\ nic' # "none" /\ nextflow' = 2
      <4>1. nextflow = 0
        BY <1>1, <3>2 DEF FlowsInv
      <4>2. \A q \in UdpQueues : ~(q < nextflow)
        BY <1>2, <4>1
      <4>3. \A rule \in rules : rule[2] \in UdpQueues
        BY <1>1 DEF FlowTypes
      <4>4. rules = {} /\ \A q \in UdpQueues : ~flow[q].set /\ recvq[q] = << >>
        BY <1>1, <4>2, <4>3 DEF FlowsInv
      <4> QED
        BY <2>1, <3>2, <4>4 DEF FlowsInv
    <3> QED
      BY <2>2, <3>1, <3>2
  <2>4. JoinInv'
    <3>1. nic' = nic \/ \A q \in UdpQueues : ~flow[q].set
      BY <1>1, <1>2, <2>2 DEF FlowsInv
    <3> QED
      BY <1>1, <2>1, <3>1 DEF JoinInv, JoinIsPending
  <2>5. MasterInv'
    BY <2>1 DEF MasterInv, Idle
  <2>6. nextflow' \in Nat
    BY <1>1, <2>2 DEF FlowTypes
  <2>7. CASE at' = [at EXCEPT ![s] = "flow"] /\ UNCHANGED <<open, handle, hand, ptr, cur, last>>
    <3>1. /\ OrderInv' /\ (\A t \in Sources : SourceInv(t)')
          /\ hand' \in [Sources -> Seq(Packets)] /\ last' \in [Sources -> Sources \X Nat]
          /\ at' \in [Sources -> {"out", "nic", "flow", "have"} \cup Getting \cup Putting]
          /\ handle' \in [Sources -> UdpQueues \cup {-1}] /\ cur' \in [Sources -> UdpQueues \cup {0}]
          /\ ptr' \in [Sources -> Int] /\ open' \in [Sources -> BOOLEAN]
      BY <2>1, <2>7, NotAnswered DEF Made
    <3> QED
      BY <1>1, <2>1, <2>3, <2>4, <2>5, <2>6, <3>1 DEF EgelFlowInv, FlowTypes
  <2>8. CASE Answer(s, -1)
    <3>1. /\ OrderInv' /\ (\A t \in Sources : SourceInv(t)')
          /\ hand' \in [Sources -> Seq(Packets)] /\ last' \in [Sources -> Sources \X Nat]
          /\ at' \in [Sources -> {"out", "nic", "flow", "have"} \cup Getting \cup Putting]
          /\ handle' \in [Sources -> UdpQueues \cup {-1}] /\ cur' \in [Sources -> UdpQueues \cup {0}]
          /\ ptr' \in [Sources -> Int] /\ open' \in [Sources -> BOOLEAN]
      BY <2>1, <2>8, Answered
    <3> QED
      BY <1>1, <2>1, <2>3, <2>4, <2>5, <2>6, <3>1 DEF EgelFlowInv, FlowTypes
  <2> QED
    BY <1>3, <2>7, <2>8 DEF MasterNic
<1>4. ASSUME NEW s \in Sources, MasterFind(s) PROVE EgelFlowInv'
  <2>1. /\ at[s] = "flow" /\ master = Idle
        /\ UNCHANGED <<nic, rules, recvq, timer, told, core, sent>>
    BY <1>4 DEF MasterFind, igmpVars
  <2>2. CASE Answer(s, -1) /\ UNCHANGED <<flow, nextflow, master>>
    <3>1. /\ OrderInv' /\ (\A t \in Sources : SourceInv(t)') /\ MasterInv'
          /\ hand' \in [Sources -> Seq(Packets)] /\ last' \in [Sources -> Sources \X Nat]
          /\ at' \in [Sources -> {"out", "nic", "flow", "have"} \cup Getting \cup Putting]
          /\ handle' \in [Sources -> UdpQueues \cup {-1}] /\ cur' \in [Sources -> UdpQueues \cup {0}]
          /\ ptr' \in [Sources -> Int] /\ open' \in [Sources -> BOOLEAN]
      BY <2>1, <2>2, Answered
    <3>2. FlowsInv'
      BY <1>1, <2>1, <2>2 DEF FlowsInv
    <3>3. JoinInv'
      BY <1>1, <2>1, <2>2 DEF JoinInv, JoinIsPending
    <3> QED
      BY <1>1, <2>1, <2>2, <3>1, <3>2, <3>3 DEF EgelFlowInv, FlowTypes
  <2>3. ASSUME NEW q \in UdpQueues, Free(q), flow' = [flow EXCEPT ![q].addr = s], nextflow' = q + 1,
               master' = [step |-> "rule", s |-> s, q |-> q], UNCHANGED srcVars
        PROVE  EgelFlowInv'
    <3>1. q = nextflow /\ ~flow[q].set /\ recvq[q] = << >> /\ nic # "none" /\ q \in Nat
      BY <1>1, <1>2, <2>3 DEF Free, FlowsInv
    <3>2. UNCHANGED <<at, open, handle, cur, hand, ptr, last>>
      BY <2>3 DEF srcVars
    <3>3. flow' = [flow EXCEPT ![q] = [addr |-> s, set |-> flow[q].set, uri |-> flow[q].uri]]
      BY <1>1, <2>3, FlowChanges
    <3>4. /\ flow'[q].addr = s /\ flow'[q].set = flow[q].set
          /\ flow' \in [UdpQueues -> [addr : Sources \cup {NONE}, set : BOOLEAN, uri : Nat]]
          /\ \A r \in UdpQueues : r # q => flow'[r] = flow[r]
      BY <1>1, <3>3 DEF FlowTypes
    <3>5. master'.step = "rule" /\ master'.s = s /\ master'.q = q
      BY <2>3
    <3>6. OrderInv' /\ \A t \in Sources : SourceInv(t)'
      <4>1. \A r \in UdpQueues : /\ flow'[r].addr = flow[r].addr \/ (recvq[r] = << >> /\ ~flow[r].set)
                                 /\ flow[r].set => flow'[r].set
        BY <3>1, <3>4
      <4>2. \A t \in Sources, r \in UdpQueues : ~Made(t, r)'
        BY <3>5 DEF Made
      <4> QED
        BY <2>1, <3>2, <4>1, <4>2, NotAnswered
    <3>7. FlowsInv'
      <4>1. \A r \in UdpQueues : (flow'[r].set => r < nextflow') /\ (~flow'[r].set => recvq'[r] = << >>)
        BY <1>1, <1>2, <2>1, <2>3, <3>1, <3>4 DEF FlowsInv
      <4>2. \A rule \in rules' : rule[2] < nextflow' /\ flow'[rule[2]].addr = rule[1]
        <5>1. \A rule \in rules : rule[2] \in UdpQueues /\ rule[2] < nextflow /\ flow[rule[2]].addr = rule[1]
          BY <1>1 DEF FlowsInv, FlowTypes
        <5>2. \A r \in UdpQueues : r < nextflow => r # q /\ r < q + 1
          <6> SUFFICES ASSUME NEW r \in UdpQueues, r < nextflow PROVE r # q /\ r < q + 1
            OBVIOUS
          <6>1. r \in Nat /\ q \in Nat /\ r < q
            BY <1>2, <3>1
          <6> QED
            BY <6>1
        <5>3. \A rule \in rules : rule[2] \in UdpQueues /\ rule[2] # q /\ rule[2] < nextflow'
          BY <2>3, <5>1, <5>2
        <5> QED
          BY <2>1, <3>4, <5>1, <5>3
      <4> QED
        BY <2>1, <3>1, <4>1, <4>2 DEF FlowsInv
    <3>8. MasterInv'
      BY <2>1, <2>3, <3>1, <3>2, <3>4, <3>5 DEF MasterInv
    <3>9. JoinInv'
      <4>1. \A r \in UdpQueues : flow'[r].set = flow[r].set /\ (flow[r].set => flow'[r] = flow[r])
        BY <3>1, <3>4
      <4>2. master.step = "idle"
        BY <2>1 DEF Idle
      <4> QED
        BY <1>1, <2>1, <4>1, <4>2 DEF JoinInv, JoinIsPending
    <3>10. FlowTypes'
      <4>1. nextflow' \in Nat /\ master' \in [step : {"idle", "rule", "open", "uri", "timer"}, s : Sources \cup {NONE}, q : UdpQueues \cup {0}]
        BY <2>3, <3>1
      <4> QED
        BY <1>1, <2>1, <3>2, <3>4, <4>1 DEF FlowTypes
    <3> QED
      BY <3>6, <3>7, <3>8, <3>9, <3>10 DEF EgelFlowInv
  <2> QED
    BY <1>4, <2>2, <2>3 DEF MasterFind
<1>5. CASE MasterRule
  <2>1. /\ master.step = "rule" /\ UNCHANGED <<nic, flow, nextflow, recvq, timer, told, core, sent>>
    BY <1>5 DEF MasterRule, igmpVars
  <2>2. /\ master.s \in Sources /\ at[master.s] = "flow" /\ master.q \in UdpQueues
        /\ master.q < nextflow /\ flow[master.q].addr = master.s /\ ~flow[master.q].set
    BY <1>1, <2>1 DEF MasterInv
  <2>3. JoinInv'
    BY <1>1, <2>1 DEF JoinInv, JoinIsPending
  <2>4. CASE rules' = rules \cup {<<master.s, master.q>>} /\ master' = [master EXCEPT !.step = "open"] /\ UNCHANGED srcVars
    <3>1. UNCHANGED <<at, open, handle, cur, hand, ptr, last>>
      BY <2>4 DEF srcVars
    <3>2. master' = [step |-> "open", s |-> master.s, q |-> master.q]
      BY <1>1, <2>4 DEF FlowTypes
    <3>3. master'.step = "open" /\ master'.s = master.s /\ master'.q = master.q
      BY <3>2
    <3>4. OrderInv' /\ \A t \in Sources : SourceInv(t)'
      <4>1. \A t \in Sources, r \in UdpQueues : ~Made(t, r)'
        BY <3>3 DEF Made
      <4> QED
        BY <2>1, <3>1, <4>1, NotAnswered
    <3>5. FlowsInv'
      BY <1>1, <2>1, <2>2, <2>4 DEF FlowsInv
    <3>6. MasterInv'
      BY <2>1, <2>2, <3>1, <3>3 DEF MasterInv
    <3>7. FlowTypes'
      <4>1. rules' \subseteq Sources \X UdpQueues
        BY <1>1, <2>2, <2>4 DEF FlowTypes
      <4>2. master' \in [step : {"idle", "rule", "open", "uri", "timer"}, s : Sources \cup {NONE}, q : UdpQueues \cup {0}]
        BY <2>2, <3>2
      <4> QED
        BY <1>1, <2>1, <3>1, <4>1, <4>2 DEF FlowTypes
    <3> QED
      BY <2>3, <3>4, <3>5, <3>6, <3>7 DEF EgelFlowInv
  <2>5. CASE Answer(master.s, -1) /\ master' = Idle /\ UNCHANGED rules
    <3>1. PICK s \in Sources : s = master.s
      BY <2>2
    <3>2. /\ OrderInv' /\ (\A t \in Sources : SourceInv(t)') /\ MasterInv'
          /\ hand' \in [Sources -> Seq(Packets)] /\ last' \in [Sources -> Sources \X Nat]
          /\ at' \in [Sources -> {"out", "nic", "flow", "have"} \cup Getting \cup Putting]
          /\ handle' \in [Sources -> UdpQueues \cup {-1}] /\ cur' \in [Sources -> UdpQueues \cup {0}]
          /\ ptr' \in [Sources -> Int] /\ open' \in [Sources -> BOOLEAN]
      BY <2>1, <2>2, <2>5, <3>1, Answered
    <3>3. FlowsInv'
      BY <1>1, <2>1, <2>5 DEF FlowsInv
    <3>4. FlowTypes'
      BY <1>1, <2>1, <2>5, <3>2 DEF FlowTypes, Idle
    <3> QED
      BY <2>3, <3>2, <3>3, <3>4 DEF EgelFlowInv
  <2> QED
    BY <1>5, <2>4, <2>5 DEF MasterRule
<1>6. CASE MasterOpen
  <2>1. /\ master.step = "open" /\ UNCHANGED <<nic, nextflow, rules, recvq, timer, told, core, sent>>
        /\ flow' = [flow EXCEPT ![master.q].set = TRUE]
    BY <1>6 DEF MasterOpen, igmpVars
  <2>2. PICK s \in Sources, q \in UdpQueues : /\ s = master.s /\ q = master.q /\ at[s] = "flow"
                                              /\ q < nextflow /\ flow[q].addr = s /\ ~flow[q].set
    BY <1>1, <2>1 DEF MasterInv
  <2>3. flow' = [flow EXCEPT ![q] = [addr |-> flow[q].addr, set |-> TRUE, uri |-> flow[q].uri]]
    BY <1>1, <2>1, <2>2, FlowChanges
  <2>4. /\ flow'[q].addr = s /\ flow'[q].set
        /\ flow' \in [UdpQueues -> [addr : Sources \cup {NONE}, set : BOOLEAN, uri : Nat]]
        /\ \A r \in UdpQueues : r # q => flow'[r] = flow[r]
    BY <1>1, <2>2, <2>3 DEF FlowTypes
  <2>5. recvq[q] = << >> /\ nic # "none"
    BY <1>1, <1>2, <2>2 DEF FlowsInv, FlowTypes
  <2>6. FlowsInv'
    <3>1. \A r \in UdpQueues : (flow'[r].set => r < nextflow') /\ (~flow'[r].set => recvq'[r] = << >>)
      BY <1>1, <2>1, <2>2, <2>4 DEF FlowsInv
    <3>2. \A rule \in rules' : rule[2] < nextflow' /\ flow'[rule[2]].addr = rule[1]
      BY <1>1, <2>1, <2>2, <2>4 DEF FlowsInv, FlowTypes
    <3> QED
      BY <2>1, <2>5, <3>1, <3>2 DEF FlowsInv
  <2>7. \A r \in UdpQueues : flow'[r].addr = flow[r].addr /\ (flow[r].set => flow'[r].set)
    BY <2>2, <2>4
  <2>8. CASE s \in Multicast /\ master' = [master EXCEPT !.step = "uri"] /\ UNCHANGED srcVars
    <3>1. UNCHANGED <<at, open, handle, cur, hand, ptr, last>>
      BY <2>8 DEF srcVars
    <3>2. master' = [step |-> "uri", s |-> s, q |-> q]
      BY <1>1, <2>2, <2>8 DEF FlowTypes
    <3>3. master'.step = "uri" /\ master'.s = s /\ master'.q = q
      BY <3>2
    <3>4. OrderInv' /\ \A t \in Sources : SourceInv(t)'
      <4>1. \A t \in Sources, r \in UdpQueues : Made(t, r)' => recvq[r] = << >>
        BY <2>5, <3>3 DEF Made
      <4> QED
        BY <2>1, <2>7, <3>1, <4>1, NotAnswered
    <3>5. MasterInv'
      BY <2>1, <2>2, <2>4, <3>1, <3>3 DEF MasterInv
    <3>6. JoinInv'
      <4>1. \A r \in UdpQueues : r # q => flow'[r] = flow[r]
        BY <2>4
      <4> QED
        BY <1>1, <2>1, <3>3, <4>1 DEF JoinInv, JoinIsPending
    <3>7. FlowTypes'
      BY <1>1, <2>1, <2>4, <3>1, <3>2 DEF FlowTypes
    <3> QED
      BY <2>6, <3>4, <3>5, <3>6, <3>7 DEF EgelFlowInv
  <2>9. CASE s \notin Multicast /\ master' = Idle /\ Answer(s, q)
    <3>1. /\ OrderInv' /\ (\A t \in Sources : SourceInv(t)') /\ MasterInv'
          /\ hand' \in [Sources -> Seq(Packets)] /\ last' \in [Sources -> Sources \X Nat]
          /\ at' \in [Sources -> {"out", "nic", "flow", "have"} \cup Getting \cup Putting]
          /\ handle' \in [Sources -> UdpQueues \cup {-1}] /\ cur' \in [Sources -> UdpQueues \cup {0}]
          /\ ptr' \in [Sources -> Int] /\ open' \in [Sources -> BOOLEAN]
      BY <2>1, <2>2, <2>4, <2>5, <2>7, <2>9, Answered
    <3>2. JoinInv'
      <4>1. ASSUME NEW r \in UdpQueues, flow'[r].set /\ flow'[r].addr \in Multicast
            PROVE  flow[r].set /\ flow[r].addr \in Multicast
        BY <2>2, <2>4, <2>9, <4>1
      <4> QED
        BY <1>1, <2>1, <4>1 DEF JoinInv, JoinIsPending
    <3>3. FlowTypes'
      BY <1>1, <2>1, <2>4, <2>9, <3>1 DEF FlowTypes, Idle
    <3> QED
      BY <2>6, <3>1, <3>2, <3>3 DEF EgelFlowInv
  <2> QED
    BY <1>6, <2>2, <2>8, <2>9 DEF MasterOpen
<1>7. CASE MasterUri
  <2>1. /\ master.step = "uri" /\ UNCHANGED <<nic, nextflow, rules, recvq, timer, told, core, sent>>
        /\ flow' = [flow EXCEPT ![master.q].uri = 2] /\ master' = [master EXCEPT !.step = "timer"]
        /\ UNCHANGED <<at, open, handle, cur, hand, ptr, last>>
    BY <1>7 DEF MasterUri, queueVars, igmpVars, srcVars
  <2>2. PICK s \in Sources, q \in UdpQueues : /\ s = master.s /\ q = master.q /\ at[s] = "flow"
                                              /\ q < nextflow /\ flow[q].addr = s /\ flow[q].set
    BY <1>1, <2>1 DEF MasterInv
  <2>3. flow' = [flow EXCEPT ![q] = [addr |-> flow[q].addr, set |-> flow[q].set, uri |-> 2]]
    <3>1. flow' = [flow EXCEPT ![q].uri = 2]
      BY <2>1, <2>2
    <3> QED
      BY <1>1, <3>1, FlowChanges
  <2>4. /\ flow' \in [UdpQueues -> [addr : Sources \cup {NONE}, set : BOOLEAN, uri : Nat]]
        /\ \A r \in UdpQueues : flow'[r].addr = flow[r].addr /\ flow'[r].set = flow[r].set
    BY <1>1, <2>2, <2>3 DEF FlowTypes
  <2>5. master' = [step |-> "timer", s |-> s, q |-> q]
    BY <1>1, <2>1, <2>2 DEF FlowTypes
  <2>6. master'.step = "timer" /\ master'.s = s /\ master'.q = q
    BY <2>5
  <2>7. OrderInv' /\ \A t \in Sources : SourceInv(t)'
    <3>1. \A t \in Sources, r \in UdpQueues : Made(t, r)' => Made(t, r)
      BY <2>1, <2>2, <2>6 DEF Made
    <3> QED
      BY <2>1, <2>4, <3>1, NotAnswered
  <2>8. FlowsInv'
    BY <1>1, <2>1, <2>4 DEF FlowsInv, FlowTypes
  <2>9. MasterInv'
    BY <2>1, <2>2, <2>4, <2>6 DEF MasterInv
  <2>10. JoinInv'
    BY <1>1, <2>1, <2>2, <2>4, <2>6 DEF JoinInv, JoinIsPending
  <2>11. FlowTypes'
    BY <1>1, <2>1, <2>4, <2>5 DEF FlowTypes
  <2> QED
    BY <2>7, <2>8, <2>9, <2>10, <2>11 DEF EgelFlowInv
<1>8. CASE MasterTimer
  <2>1. /\ master.step = "timer" /\ master' = Idle /\ UNCHANGED <<nic, flow, nextflow, rules, recvq, told, core, sent>>
        /\ Answer(master.s, master.q)
        /\ timer' = [timer EXCEPT ![master.q] = IF @ = "running" THEN @ ELSE "pending"]
    BY <1>8 DEF MasterTimer, cardVars
  <2>2. PICK s \in Sources, q \in UdpQueues : /\ s = master.s /\ q = master.q /\ at[s] = "flow"
                                              /\ q < nextflow /\ flow[q].addr = s /\ flow[q].set
    BY <1>1, <2>1 DEF MasterInv
  <2>3. /\ timer' \in [UdpQueues -> {"stop", "pending", "running"}] /\ timer'[q] # "stop"
        /\ \A r \in UdpQueues : r # q => timer'[r] = timer[r]
    BY <1>1, <2>1, <2>2 DEF FlowTypes
  <2>4. Made(s, q)
    BY <2>1, <2>2 DEF Made
  <2>5. /\ OrderInv' /\ (\A t \in Sources : SourceInv(t)') /\ MasterInv'
        /\ hand' \in [Sources -> Seq(Packets)] /\ last' \in [Sources -> Sources \X Nat]
        /\ at' \in [Sources -> {"out", "nic", "flow", "have"} \cup Getting \cup Putting]
        /\ handle' \in [Sources -> UdpQueues \cup {-1}] /\ cur' \in [Sources -> UdpQueues \cup {0}]
        /\ ptr' \in [Sources -> Int] /\ open' \in [Sources -> BOOLEAN]
    BY <2>1, <2>2, <2>4, Answered
  <2>6. FlowsInv'
    BY <1>1, <2>1 DEF FlowsInv
  <2>7. JoinInv'
    BY <1>1, <2>1, <2>2, <2>3 DEF JoinInv, JoinIsPending
  <2>8. FlowTypes'
    BY <1>1, <2>1, <2>3, <2>5 DEF FlowTypes, Idle
  <2> QED
    BY <2>5, <2>6, <2>7, <2>8 DEF EgelFlowInv
<1> QED
  BY <1>3, <1>4, <1>5, <1>6, <1>7, <1>8

(***************************************************************************)
(* The core of the card.                                                   *)
(***************************************************************************)
\* A source that is woken tests its queue again.
LEMMA WokenKept ==
  ASSUME FlowTypes, at' = at \/ \E q \in UdpQueues : Woken(q)
  PROVE  /\ at' \in [Sources -> {"out", "nic", "flow", "have"} \cup Getting \cup Putting]
         /\ \A t \in Sources : /\ at'[t] \in Getting <=> at[t] \in Getting
                               /\ at'[t] \in Putting <=> at[t] \in Putting
                               /\ at'[t] \in Putting \cup {"have"} <=> at[t] \in Putting \cup {"have"}
                               /\ at'[t] = "flow" <=> at[t] = "flow"
<1>1. at \in [Sources -> {"out", "nic", "flow", "have"} \cup Getting \cup Putting]
  BY DEF FlowTypes
<1>2. CASE at' = at
  BY <1>1, <1>2
<1>3. CASE \E q \in UdpQueues : Woken(q)
  <2>1. PICK q \in UdpQueues : Woken(q)
    BY <1>3
  <2> QED
    BY <1>1, <2>1 DEF Woken, Getting, Putting
<1> QED
  BY <1>2, <1>3

\* What a packet of s puts on a queue.
Puts(s) == {NIL, <<s, sent[s] + 1>>}
Put(s, q) == flow[q].addr = s /\ flow[q].set /\ \E p \in Puts(s) : recvq' = [recvq EXCEPT ![q] = Append(@, p)]

LEMMA PutOn ==
  ASSUME FlowTypes, NEW s \in Sources, recvq' = recvq \/ \E q \in UdpQueues : Put(s, q)
  PROVE  /\ recvq' \in [UdpQueues -> Seq(Packets)]
         /\ \A q \in UdpQueues : recvq'[q] = recvq[q] \/ (flow[q].addr = s /\ flow[q].set)
         /\ \A q \in UdpQueues : \A j \in 1 .. Len(recvq'[q]) :
              \/ j \in 1 .. Len(recvq[q]) /\ recvq'[q][j] = recvq[q][j]
              \/ /\ j = Len(recvq[q]) + 1 /\ flow[q].addr = s /\ flow[q].set
                 /\ recvq'[q][j] \in Puts(s)
<1>1. recvq \in [UdpQueues -> Seq(Packets)] /\ sent[s] \in Nat
  BY DEF FlowTypes
<1>2. CASE recvq' = recvq
  BY <1>1, <1>2
<1>3. CASE \E q \in UdpQueues : Put(s, q)
  <2>1. PICK q \in UdpQueues, p \in Puts(s) : /\ flow[q].addr = s /\ flow[q].set
                                              /\ recvq' = [recvq EXCEPT ![q] = Append(@, p)]
    BY <1>3 DEF Put
  <2>2. p \in Packets
    BY <1>1 DEF Puts, Packets
  <2>3. /\ recvq[q] \in Seq(Packets) /\ Append(recvq[q], p) \in Seq(Packets)
        /\ Len(Append(recvq[q], p)) = Len(recvq[q]) + 1 /\ Len(recvq[q]) \in Nat
        /\ \A j \in 1 .. Len(recvq[q]) + 1 :
             Append(recvq[q], p)[j] = IF j = Len(recvq[q]) + 1 THEN p ELSE recvq[q][j]
    BY <1>1, <2>2
  <2>4. recvq'[q] = Append(recvq[q], p) /\ \A r \in UdpQueues : r # q => recvq'[r] = recvq[r]
    BY <1>1, <2>1
  <2>5. recvq' \in [UdpQueues -> Seq(Packets)]
    BY <1>1, <2>1, <2>3
  <2>6. ASSUME NEW j \in 1 .. Len(recvq'[q])
        PROVE  \/ j \in 1 .. Len(recvq[q]) /\ recvq'[q][j] = recvq[q][j]
               \/ j = Len(recvq[q]) + 1 /\ recvq'[q][j] = p
    BY <2>3, <2>4
  <2> QED
    BY <2>1, <2>4, <2>5, <2>6
<1> QED
  BY <1>2, <1>3

LEMMA CorePacketStep == ASSUME EgelFlowInv, NEW s \in Sources, CorePacket(s) PROVE EgelFlowInv'
<1>1. FlowTypes /\ FlowsInv /\ MasterInv /\ (\A t \in Sources : SourceInv(t)) /\ OrderInv /\ JoinInv
  BY Facts
<1>2. /\ sent' = [sent EXCEPT ![s] = @ + 1]
      /\ UNCHANGED <<nic, flow, nextflow, rules, timer, told, core, master, open, handle, cur, hand, ptr, last>>
  BY DEF CorePacket, cardVars, igmpVars
<1>3. /\ sent' \in [Sources -> Nat] /\ sent'[s] = sent[s] + 1
      /\ \A t \in Sources : sent[t] \in Nat /\ sent'[t] \in Nat /\ sent'[t] >= sent[t]
  BY <1>1, <1>2 DEF FlowTypes
<1>4. (at' = at /\ recvq' = recvq) \/ \E q \in UdpQueues : (at' = at \/ Woken(q)) /\ (recvq' = recvq \/ Put(s, q))
  <2>1. CASE at' = at /\ recvq' = recvq
    BY <2>1
  <2>2. ASSUME NEW odd \in BOOLEAN, NEW rule \in rules, rule[1] = s, flow[rule[2]].set,
               FlowUdp(rule[2], <<s, sent[s] + 1>>, odd)
        PROVE  \E q \in UdpQueues : (at' = at \/ Woken(q)) /\ (recvq' = recvq \/ Put(s, q))
    <3>1. PICK q \in UdpQueues : q = rule[2] /\ flow[q].addr = s /\ flow[q].set
      BY <1>1, <2>2 DEF FlowTypes, FlowsInv
    <3>2. FlowUdp(q, <<s, sent[s] + 1>>, odd)
      BY <2>2, <3>1
    <3>3. at' = at \/ Woken(q)
      BY <3>2 DEF FlowUdp
    <3>4. CASE odd /\ ~(Len(recvq[q]) < Slots)
      BY <3>2, <3>3, <3>4 DEF FlowUdp
    <3>5. CASE ~(odd /\ ~(Len(recvq[q]) < Slots)) /\ Len(recvq[q]) < Slots
      <4>1. recvq' = [recvq EXCEPT ![q] = Append(@, IF odd THEN NIL ELSE <<s, sent[s] + 1>>)]
        BY <3>2, <3>5 DEF FlowUdp
      <4>2. (IF odd THEN NIL ELSE <<s, sent[s] + 1>>) \in Puts(s)
        BY DEF Puts
      <4> QED
        BY <3>1, <3>3, <4>1, <4>2 DEF Put
    <3>6. CASE ~(odd /\ ~(Len(recvq[q]) < Slots)) /\ ~(Len(recvq[q]) < Slots)
      <4>1. recvq' = [recvq EXCEPT ![q] = @]
        BY <3>2, <3>6 DEF FlowUdp
      <4> QED
        BY <1>1, <3>3, <4>1 DEF FlowTypes
    <3> QED
      BY <3>4, <3>5, <3>6
  <2> QED
    BY <2>1, <2>2 DEF CorePacket
<1>5. /\ at' \in [Sources -> {"out", "nic", "flow", "have"} \cup Getting \cup Putting]
      /\ \A t \in Sources : /\ at'[t] \in Getting <=> at[t] \in Getting
                            /\ at'[t] \in Putting <=> at[t] \in Putting
                            /\ at'[t] \in Putting \cup {"have"} <=> at[t] \in Putting \cup {"have"}
                            /\ at'[t] = "flow" <=> at[t] = "flow"
  BY <1>1, <1>4, WokenKept
<1>6. /\ recvq' \in [UdpQueues -> Seq(Packets)]
      /\ \A q \in UdpQueues : recvq'[q] = recvq[q] \/ (flow[q].addr = s /\ flow[q].set)
      /\ \A q \in UdpQueues : \A j \in 1 .. Len(recvq'[q]) :
           \/ j \in 1 .. Len(recvq[q]) /\ recvq'[q][j] = recvq[q][j]
           \/ /\ j = Len(recvq[q]) + 1 /\ flow[q].addr = s /\ flow[q].set
              /\ recvq'[q][j] \in Puts(s)
  BY <1>1, <1>4, PutOn
<1>7. ASSUME NEW q \in UdpQueues, NEW j \in 1 .. Len(recvq'[q]), recvq'[q][j] # NIL
      PROVE  \/ /\ j \in 1 .. Len(recvq[q]) /\ recvq'[q][j] = recvq[q][j]
                /\ flow[q].addr \in Sources /\ recvq[q][j][1] = flow[q].addr
                /\ recvq[q][j][2] \in Nat /\ recvq[q][j][2] <= sent[flow[q].addr]
             \/ /\ j = Len(recvq[q]) + 1 /\ flow[q].addr = s /\ flow[q].set
                /\ recvq'[q][j][1] = s /\ recvq'[q][j][2] = sent[s] + 1
  <2>1. CASE j \in 1 .. Len(recvq[q]) /\ recvq'[q][j] = recvq[q][j]
    <3>1. flow[q].addr \in Sources /\ recvq[q][j][1] = flow[q].addr /\ recvq[q][j][2] <= sent[flow[q].addr]
      BY <1>1, <1>7, <2>1 DEF OrderInv, QueueOrder
    <3>2. recvq[q] \in Seq(Packets)
      BY <1>1 DEF FlowTypes
    <3>3. recvq[q][j] \in Packets
      BY <2>1, <3>2
    <3>4. recvq[q][j][2] \in Nat
      BY <1>7, <2>1, <3>3 DEF Packets
    <3> QED
      BY <2>1, <3>1, <3>4
  <2>2. CASE j = Len(recvq[q]) + 1 /\ flow[q].addr = s /\ flow[q].set /\ recvq'[q][j] \in Puts(s)
    BY <1>7, <2>2 DEF Puts
  <2> QED
    BY <1>6, <2>1, <2>2
<1>8. OrderInv'
  <2>1. ASSUME NEW q \in UdpQueues PROVE QueueOrder(q)'
    <3>1. \A j \in 1 .. Len(recvq'[q]) : recvq'[q][j] # NIL =>
            flow[q].addr \in Sources /\ recvq'[q][j][1] = flow[q].addr /\ recvq'[q][j][2] <= sent'[flow[q].addr]
      <4> SUFFICES ASSUME NEW j \in 1 .. Len(recvq'[q]), recvq'[q][j] # NIL
                   PROVE  flow[q].addr \in Sources /\ recvq'[q][j][1] = flow[q].addr /\ recvq'[q][j][2] <= sent'[flow[q].addr]
        OBVIOUS
      <4>1. CASE flow[q].addr \in Sources /\ recvq[q][j][2] \in Nat /\ recvq[q][j][2] <= sent[flow[q].addr]
                 /\ recvq'[q][j] = recvq[q][j] /\ recvq[q][j][1] = flow[q].addr
        <5>1. sent[flow[q].addr] \in Nat /\ sent'[flow[q].addr] \in Nat /\ sent'[flow[q].addr] >= sent[flow[q].addr]
          BY <1>3, <4>1
        <5> QED
          BY <4>1, <5>1
      <4>2. CASE flow[q].addr = s /\ recvq'[q][j][1] = s /\ recvq'[q][j][2] = sent[s] + 1
        BY <1>3, <4>2
      <4> QED
        BY <1>7, <4>1, <4>2
    <3>2. Rising(recvq'[q])
      <4> SUFFICES ASSUME NEW i \in 1 .. Len(recvq'[q]), NEW j \in 1 .. Len(recvq'[q]),
                          i < j, recvq'[q][i] # NIL, recvq'[q][j] # NIL
                   PROVE  recvq'[q][i][2] < recvq'[q][j][2]
        BY DEF Rising
      <4>1. Len(recvq[q]) \in Nat
        BY <1>1 DEF FlowTypes
      <4>2. i \in 1 .. Len(recvq[q])
        BY <1>7, <4>1
      <4>3. recvq'[q][i] = recvq[q][i] /\ recvq[q][i][2] \in Nat /\ recvq[q][i][2] <= sent[flow[q].addr] /\ flow[q].addr \in Sources
        BY <1>7, <4>1, <4>2
      <4>4. CASE j \in 1 .. Len(recvq[q])
        <5>1. recvq'[q][j] = recvq[q][j]
          BY <1>7, <4>1, <4>4
        <5>2. Rising(recvq[q])
          BY <1>1 DEF OrderInv, QueueOrder
        <5> QED
          BY <4>2, <4>3, <4>4, <5>1, <5>2 DEF Rising
      <4>5. CASE j \notin 1 .. Len(recvq[q])
        <5>1. flow[q].addr = s /\ recvq'[q][j][2] = sent[s] + 1
          BY <1>7, <4>5
        <5> QED
          BY <1>3, <4>3, <5>1
      <4> QED
        BY <4>4, <4>5
    <3> QED
      BY <1>2, <3>1, <3>2 DEF QueueOrder
  <2>2. ASSUME NEW t \in Sources PROVE HandOrder(t)'
    <3>1. HandOrder(t) /\ hand[t] \in Seq(Packets) /\ last[t][2] \in Nat
      BY <1>1 DEF OrderInv, FlowTypes
    <3>2. \A j \in 1 .. Len(hand[t]) : hand[t][j] # NIL => hand[t][j][2] \in Nat
      <4> SUFFICES ASSUME NEW j \in 1 .. Len(hand[t]), hand[t][j] # NIL PROVE hand[t][j][2] \in Nat
        OBVIOUS
      <4>1. hand[t][j] \in Packets
        BY <3>1
      <4> QED
        BY <4>1 DEF Packets
    <3>3. \A n \in Nat : n <= sent[t] => n <= sent'[t]
      BY <1>3
    <3> QED
      BY <1>2, <1>5, <3>1, <3>2, <3>3 DEF HandOrder
  <2>3. ASSUME NEW t \in Sources, NEW q \in UdpQueues PROVE NextOrder(t, q)'
    <3>1. NextOrder(t, q) /\ last[t][2] \in Nat /\ last[t][2] <= sent[t] /\ hand[t] \in Seq(Packets)
      BY <1>1 DEF OrderInv, HandOrder, FlowTypes
    <3>2. (Reads(t)' = q <=> Reads(t) = q) /\ (Made(t, q)' <=> Made(t, q))
      BY <1>2, <1>5 DEF Reads, Made
    <3>3. Reads(t) = q \/ Made(t, q) => flow[q].addr = t
      BY <1>1, Limits DEF Reads, Made, SourceInv, MasterInv, Owns
    <3>4. ASSUME NEW j \in 1 .. Len(recvq'[q]), recvq'[q][j] # NIL, Reads(t) = q \/ Made(t, q)
          PROVE  recvq'[q][j][2] > last[t][2]
      <4>1. CASE j \in 1 .. Len(recvq[q]) /\ recvq'[q][j] = recvq[q][j]
        BY <3>1, <3>4, <4>1 DEF NextOrder
      <4>2. CASE flow[q].addr = s /\ recvq'[q][j][2] = sent[s] + 1
        BY <1>3, <3>1, <3>3, <3>4, <4>2
      <4> QED
        BY <1>7, <3>4, <4>1, <4>2
    <3>5. ASSUME NEW i \in 1 .. Len(hand[t]), NEW j \in 1 .. Len(recvq'[q]),
                 hand[t][i] # NIL, recvq'[q][j] # NIL, Reads(t) = q
          PROVE  hand[t][i][2] < recvq'[q][j][2]
      <4>1. CASE j \in 1 .. Len(recvq[q]) /\ recvq'[q][j] = recvq[q][j]
        BY <3>1, <3>5, <4>1 DEF NextOrder
      <4>2. CASE flow[q].addr = s /\ recvq'[q][j][2] = sent[s] + 1
        <5>1. hand[t][i] \in Packets
          BY <3>1
        <5>2. hand[t][i][2] \in Nat
          BY <3>5, <5>1 DEF Packets
        <5>3. hand[t][i][2] <= sent[t] /\ t = s
          BY <1>1, <3>3, <3>5, <4>2 DEF OrderInv, HandOrder
        <5> QED
          BY <1>3, <4>2, <5>2, <5>3
      <4> QED
        BY <1>7, <3>5, <4>1, <4>2
    <3> QED
      BY <1>2, <3>2, <3>4, <3>5 DEF NextOrder
  <2> QED
    BY <2>1, <2>2, <2>3 DEF OrderInv
<1>9. FlowsInv'
  BY <1>1, <1>2, <1>6 DEF FlowsInv
<1>10. MasterInv'
  BY <1>1, <1>2, <1>5 DEF MasterInv
<1>11. \A t \in Sources : SourceInv(t)'
  BY <1>1, <1>2, <1>5, SourceKept DEF FlowTypes
<1>12. JoinInv'
  BY <1>1, <1>2 DEF JoinInv, JoinIsPending
<1>13. FlowTypes'
  BY <1>1, <1>2, <1>3, <1>5, <1>6 DEF FlowTypes
<1> QED
  BY <1>8, <1>9, <1>10, <1>11, <1>12, <1>13 DEF EgelFlowInv

\* Steps that move nothing between the queues and the sources.
LEMMA NothingMoves ==
  ASSUME EgelFlowInv, UNCHANGED <<nextflow, recvq, sent, at, open, handle, cur, hand, ptr, last, master>>,
         \A q \in UdpQueues : flow'[q].addr = flow[q].addr /\ flow'[q].set = flow[q].set
  PROVE  OrderInv' /\ (\A s \in Sources : SourceInv(s)') /\ MasterInv'
<1>1. FlowTypes /\ MasterInv /\ \A s \in Sources : SourceInv(s)
  BY Facts
<1>2. \A s \in Sources, q \in UdpQueues : (Made(s, q)' <=> Made(s, q)) /\ (Reads(s)' = q <=> Reads(s) = q)
  BY DEF Made, Reads
<1>3. OrderInv'
  BY <1>2, OrderKept
<1>4. \A s \in Sources : SourceInv(s)'
  BY <1>1, SourceKept DEF FlowTypes
<1>5. MasterInv'
  BY <1>1 DEF MasterInv
<1> QED
  BY <1>3, <1>4, <1>5

LEMMA CoreSteps ==
  ASSUME EgelFlowInv, Core
  PROVE  EgelFlowInv'
<1>1. FlowTypes /\ FlowsInv /\ MasterInv /\ (\A t \in Sources : SourceInv(t)) /\ OrderInv /\ JoinInv
  BY Facts
<1>2. ASSUME NEW group \in Multicast \cup {NONE}, NEW mrt \in Mrts, CoreQuery(group, mrt) PROVE EgelFlowInv'
  <2>1. /\ UNCHANGED <<nic, flow, nextflow, rules, recvq, told, core, master, sent>>
        /\ UNCHANGED <<at, open, handle, cur, hand, ptr, last>>
    BY <1>2 DEF CoreQuery, cardVars, queueVars, srcVars
  <2>2. /\ timer' \in [UdpQueues -> {"stop", "pending", "running"}]
        /\ \A q \in UdpQueues : timer'[q] = timer[q] \/ timer'[q] = "pending"
    BY <1>1, <1>2 DEF CoreQuery, FlowTypes
  <2>3. JoinInv'
    BY <1>1, <2>1, <2>2 DEF JoinInv, JoinIsPending
  <2>4. FlowsInv' /\ FlowTypes'
    BY <1>1, <2>1, <2>2 DEF FlowsInv, FlowTypes
  <2> QED
    BY <2>1, <2>3, <2>4, NothingMoves DEF EgelFlowInv
<1>3. ASSUME NEW q \in UdpQueues, CoreFire(q) PROVE EgelFlowInv'
  <2>1. /\ UNCHANGED <<nic, flow, nextflow, rules, recvq, told, master, sent>>
        /\ UNCHANGED <<at, open, handle, cur, hand, ptr, last>>
        /\ timer' = [timer EXCEPT ![q] = "running"] /\ core' = [at |-> "report", q |-> q]
    BY <1>3 DEF CoreFire, cardVars, queueVars, srcVars
  <2>2. /\ timer' \in [UdpQueues -> {"stop", "pending", "running"}]
        /\ \A r \in UdpQueues : timer'[r] = timer[r] \/ timer'[r] = "running"
    BY <1>1, <2>1 DEF FlowTypes
  <2>3. JoinInv'
    BY <1>1, <2>1, <2>2 DEF JoinInv, JoinIsPending
  <2>4. FlowsInv' /\ FlowTypes'
    BY <1>1, <2>1, <2>2 DEF FlowsInv, FlowTypes
  <2> QED
    BY <2>1, <2>3, <2>4, NothingMoves DEF EgelFlowInv
<1>4. CASE CoreReport
  <2>1. /\ core.at = "report" /\ UNCHANGED <<nic, nextflow, rules, recvq, master, sent>>
        /\ UNCHANGED <<at, open, handle, cur, hand, ptr, last>>
    BY <1>4 DEF CoreReport, srcVars
  <2>2. PICK q \in UdpQueues : q = core.q
    BY <1>1, <2>1 DEF JoinInv
  <2>3. CASE UNCHANGED <<told, timer, flow, core>>
    <3>1. FlowsInv' /\ FlowTypes' /\ JoinInv'
      BY <1>1, <2>1, <2>3 DEF FlowsInv, FlowTypes, JoinInv, JoinIsPending
    <3> QED
      BY <2>1, <2>3, <3>1, NothingMoves DEF EgelFlowInv
  <2>4. CASE /\ told' = [told EXCEPT ![q] = "report"]
             /\ timer' = [timer EXCEPT ![q] = IF flow[q].uri # 0 THEN "pending" ELSE @]
             /\ flow' = [flow EXCEPT ![q].uri = IF @ # 0 THEN @ - 1 ELSE 0]
             /\ core' = [core EXCEPT !.at = "after"]
    <3>1. PICK n \in Nat : flow' = [flow EXCEPT ![q].uri = n]
      <4>1. flow[q].uri \in Nat
        BY <1>1 DEF FlowTypes
      <4>2. (IF flow[q].uri # 0 THEN flow[q].uri - 1 ELSE 0) \in Nat
        BY <4>1
      <4> QED
        BY <2>4, <4>2
    <3>2. flow' = [flow EXCEPT ![q] = [addr |-> flow[q].addr, set |-> flow[q].set, uri |-> n]]
      BY <1>1, <3>1, FlowChanges
    <3>3. /\ flow' \in [UdpQueues -> [addr : Sources \cup {NONE}, set : BOOLEAN, uri : Nat]]
          /\ \A r \in UdpQueues : flow'[r].addr = flow[r].addr /\ flow'[r].set = flow[r].set
      BY <1>1, <3>2 DEF FlowTypes
    <3>4. core' = [at |-> "after", q |-> q]
      BY <1>1, <2>2, <2>4 DEF FlowTypes
    <3>5. /\ timer' \in [UdpQueues -> {"stop", "pending", "running"}]
          /\ told' \in [UdpQueues -> {NONE, "report", "leave"}] /\ told'[q] = "report"
          /\ \A r \in UdpQueues : r # q => timer'[r] = timer[r] /\ told'[r] = told[r]
      BY <1>1, <2>4 DEF FlowTypes
    <3>6. JoinInv'
      <4>1. core'.at = "after" /\ core'.q = q /\ told'[q] # NONE
        BY <3>4, <3>5 DEF NONE
      <4>2. JoinIsPending'
        BY <1>1, <2>1, <3>3, <3>5, <4>1 DEF JoinInv, JoinIsPending
      <4> QED
        BY <4>1, <4>2 DEF JoinInv
    <3>7. FlowTypes'
      BY <1>1, <2>1, <3>3, <3>4, <3>5 DEF FlowTypes
    <3>8. FlowsInv'
      BY <1>1, <2>1, <3>3 DEF FlowsInv, FlowTypes
    <3> QED
      BY <2>1, <3>3, <3>6, <3>7, <3>8, NothingMoves DEF EgelFlowInv
  <2> QED
    BY <1>4, <2>2, <2>3, <2>4 DEF CoreReport
<1>5. CASE CoreAfter
  <2>1. /\ core.at = "after" /\ core' = [at |-> "poll", q |-> 0]
        /\ UNCHANGED <<nic, flow, nextflow, rules, recvq, told, master, sent>>
        /\ UNCHANGED <<at, open, handle, cur, hand, ptr, last>>
        /\ timer' = [timer EXCEPT ![core.q] = IF @ = "running" THEN "stop" ELSE @]
    BY <1>5 DEF CoreAfter, cardVars, queueVars, srcVars
  <2>2. core.q \in UdpQueues /\ told[core.q] # NONE
    BY <1>1, <2>1 DEF JoinInv
  <2>3. /\ timer' \in [UdpQueues -> {"stop", "pending", "running"}]
        /\ \A r \in UdpQueues : r # core.q => timer'[r] = timer[r]
    BY <1>1, <2>1 DEF FlowTypes
  <2>4. JoinInv'
    BY <1>1, <2>1, <2>2, <2>3 DEF JoinInv, JoinIsPending
  <2>5. FlowsInv' /\ FlowTypes'
    BY <1>1, <2>1, <2>3 DEF FlowsInv, FlowTypes
  <2> QED
    BY <2>1, <2>4, <2>5, NothingMoves DEF EgelFlowInv
<1>6. CASE CoreEnd
  <2>1. /\ nic' = "ended" /\ core.at = "poll" /\ UNCHANGED <<flow, nextflow, rules, recvq, core, master, sent>>
        /\ UNCHANGED <<at, open, handle, cur, hand, ptr, last>>
    BY <1>6 DEF CoreEnd, Polls, srcVars
  <2>2. timer' \in [UdpQueues -> {"stop", "pending", "running"}] /\ told' \in [UdpQueues -> {NONE, "report", "leave"}]
    BY <1>1, <1>6 DEF CoreEnd, FlowTypes
  <2>3. JoinInv'
    BY <2>1 DEF JoinInv, JoinIsPending
  <2>4. FlowsInv' /\ FlowTypes'
    BY <1>1, <2>1, <2>2 DEF FlowsInv, FlowTypes
  <2> QED
    BY <2>1, <2>3, <2>4, NothingMoves DEF EgelFlowInv
<1> QED
  BY <1>2, <1>3, <1>4, <1>5, <1>6, CorePacketStep DEF Core

(***************************************************************************)
(* The sources.                                                            *)
(***************************************************************************)
\* What a source does itself leaves the card, the flows and the other sources alone.
LEMMA Alone ==
  ASSUME EgelFlowInv, NEW s \in Sources, at[s] # "flow", at'[s] # "flow",
         UNCHANGED <<nic, flow, nextflow, rules, timer, told, core, master, sent>>,
         \A t \in Sources : t # s =>
           /\ at'[t] = at[t] /\ handle'[t] = handle[t] /\ cur'[t] = cur[t]
           /\ hand'[t] = hand[t] /\ ptr'[t] = ptr[t]
  PROVE  /\ MasterInv' /\ JoinInv'
         /\ \A t \in Sources : t # s => SourceInv(t)'
         /\ (\A q \in UdpQueues : recvq[q] = << >> => recvq'[q] = << >>) => FlowsInv'
<1>1. FlowTypes /\ FlowsInv /\ MasterInv /\ (\A t \in Sources : SourceInv(t)) /\ JoinInv
  BY Facts
<1>2. \A t \in Sources : at'[t] = "flow" <=> at[t] = "flow"
  OBVIOUS
<1>3. MasterInv'
  BY <1>1, <1>2 DEF MasterInv
<1>4. JoinInv'
  BY <1>1 DEF JoinInv, JoinIsPending
<1>5. ASSUME NEW t \in Sources, t # s PROVE SourceInv(t)'
  BY <1>1, <1>5, SourceKept DEF FlowTypes
<1>6. ASSUME \A q \in UdpQueues : recvq[q] = << >> => recvq'[q] = << >> PROVE FlowsInv'
  BY <1>1, <1>6 DEF FlowsInv
<1> QED
  BY <1>3, <1>4, <1>5, <1>6

\* The first n of a queue, and the rest of it.
LEMMA Taken ==
  ASSUME NEW w \in Seq(Packets), NEW n \in 1 .. Len(w)
  PROVE  /\ SubSeq(w, 1, n) \in Seq(Packets) /\ Len(SubSeq(w, 1, n)) = n /\ SubSeq(w, 1, n) # << >>
         /\ \A i \in 1 .. n : SubSeq(w, 1, n)[i] = w[i] /\ i \in 1 .. Len(w)
         /\ SubSeq(w, n + 1, Len(w)) \in Seq(Packets) /\ Len(SubSeq(w, n + 1, Len(w))) = Len(w) - n
         /\ \A j \in 1 .. Len(w) - n : SubSeq(w, n + 1, Len(w))[j] = w[n + j] /\ n + j \in 1 .. Len(w) /\ n < n + j
<1>1. Len(w) \in Nat /\ n \in Nat /\ 1 <= n /\ n <= Len(w)
  OBVIOUS
<1>2. /\ SubSeq(w, 1, n) \in Seq(Packets) /\ Len(SubSeq(w, 1, n)) = n
      /\ \A i \in 1 .. n : SubSeq(w, 1, n)[i] = w[i]
  BY <1>1
<1>3. /\ SubSeq(w, n + 1, Len(w)) \in Seq(Packets) /\ Len(SubSeq(w, n + 1, Len(w))) = Len(w) - n
      /\ \A j \in 1 .. Len(w) - n : SubSeq(w, n + 1, Len(w))[j] = w[n + j]
  BY <1>1
<1>4. SubSeq(w, 1, n) # << >>
  BY <1>1, <1>2
<1>5. ASSUME NEW i \in 1 .. n PROVE i \in 1 .. Len(w)
  BY <1>1
<1>6. ASSUME NEW j \in 1 .. Len(w) - n PROVE n + j \in 1 .. Len(w) /\ n < n + j
  BY <1>1
<1> QED
  BY <1>2, <1>3, <1>4, <1>5, <1>6

LEMMA Rest ==
  ASSUME NEW w \in Seq(Packets), w # << >>
  PROVE  /\ w[1] \in Packets /\ Head(w) = w[1] /\ 1 \in 1 .. Len(w)
         /\ Tail(w) \in Seq(Packets) /\ Len(Tail(w)) = Len(w) - 1 /\ (Len(w) = 1 => Tail(w) = << >>)
         /\ \A j \in 1 .. Len(Tail(w)) : Tail(w)[j] = w[j + 1] /\ j + 1 \in 1 .. Len(w) /\ 1 < j + 1
<1>1. Len(w) \in Nat /\ Len(w) > 0
  OBVIOUS
<1>2. /\ Head(w) = w[1] /\ w[1] \in Packets /\ Tail(w) \in Seq(Packets) /\ Len(Tail(w)) = Len(w) - 1
      /\ \A j \in 1 .. Len(Tail(w)) : Tail(w)[j] = w[j + 1]
  BY <1>1
<1> QED
  BY <1>1, <1>2

LEMMA ReadBurstStep ==
  ASSUME EgelFlowInv, NEW s \in Sources, ReadBurst(s)
  PROVE  EgelFlowInv' /\ last' = last
<1>1. FlowTypes /\ FlowsInv /\ MasterInv /\ (\A t \in Sources : SourceInv(t)) /\ OrderInv /\ JoinInv
  BY Facts
<1>2. UNCHANGED <<nic, flow, nextflow, rules, timer, told, core, master, open, handle, last, sent>>
  BY DEF ReadBurst, cardVars, igmpVars
<1> DEFINE q == IF at[s] = "get" THEN cur[s] ELSE handle[s]
<1>3. /\ at[s] \in {"out", "get"} /\ hand[s] = << >>
      /\ q \in UdpQueues \cup {-1} /\ (at[s] = "get" => q # -1)
      /\ q # -1 => q \in UdpQueues /\ Owns(s, q) /\ handle[s] \in {-1, q} /\ Reads(s) = q
  <2>1. CASE at[s] = "out" /\ ptr[s] = 0
    <3>1. hand[s] = << >> /\ q = handle[s]
      BY <1>1, <2>1 DEF SourceInv, FlowTypes
    <3> QED
      BY <1>1, <2>1, <3>1 DEF SourceInv, Reads, Getting, FlowTypes
  <2>2. CASE at[s] = "get"
    <3>1. cur[s] \in UdpQueues /\ Owns(s, cur[s]) /\ handle[s] \in {-1, cur[s]} /\ hand[s] = << >>
      BY <1>1, <2>2 DEF SourceInv, Getting
    <3> QED
      BY <2>2, <3>1, Limits DEF Reads, Getting
  <2> QED
    BY <2>1, <2>2 DEF ReadBurst
<1>4. CASE q = -1 /\ ptr' = [ptr EXCEPT ![s] = -1] /\ UNCHANGED <<at, cur, hand, recvq>>
  <2>1. ptr' \in [Sources -> Int] /\ ptr'[s] = -1 /\ \A t \in Sources : t # s => ptr'[t] = ptr[t]
    BY <1>1, <1>4 DEF FlowTypes
  <2>2. OrderInv'
    <3>1. \A t \in Sources, r \in UdpQueues : (Reads(t)' = r <=> Reads(t) = r) /\ (Made(t, r)' <=> Made(t, r))
      BY <1>2, <1>4 DEF Reads, Made
    <3> QED
      BY <1>2, <1>4, <3>1, OrderKept
  <2>3. SourceInv(s)'
    BY <1>1, <1>2, <1>3, <1>4, <2>1 DEF SourceInv, Owns
  <2>4. MasterInv' /\ JoinInv' /\ FlowsInv' /\ \A t \in Sources : t # s => SourceInv(t)'
    BY <1>2, <1>3, <1>4, <2>1, Alone
  <2>5. FlowTypes'
    BY <1>1, <1>2, <1>4, <2>1 DEF FlowTypes
  <2> QED
    BY <1>2, <2>2, <2>3, <2>4, <2>5 DEF EgelFlowInv
<1>5. CASE /\ q # -1 /\ at' = [at EXCEPT ![s] = "get doze"] /\ cur' = [cur EXCEPT ![s] = q]
           /\ UNCHANGED <<hand, ptr, recvq>>
  <2>1. /\ at' \in [Sources -> {"out", "nic", "flow", "have"} \cup Getting \cup Putting]
        /\ cur' \in [Sources -> UdpQueues \cup {0}] /\ at'[s] = "get doze" /\ cur'[s] = q
        /\ \A t \in Sources : t # s => at'[t] = at[t] /\ cur'[t] = cur[t]
    BY <1>1, <1>3, <1>5 DEF FlowTypes, Getting
  <2>2. OrderInv'
    <3>1. \A t \in Sources, r \in UdpQueues : Reads(t)' = r => Reads(t) = r
      BY <1>2, <1>3, <1>5, <2>1 DEF Reads, Getting
    <3>2. \A t \in Sources, r \in UdpQueues : Made(t, r)' <=> Made(t, r)
      BY <1>2 DEF Made
    <3>3. \A t \in Sources : at'[t] \in Putting <=> at[t] \in Putting
      BY <1>3, <2>1 DEF Putting
    <3> QED
      BY <1>2, <1>5, <3>1, <3>2, <3>3, OrderKept
  <2>3. SourceInv(s)'
    <3>1. at'[s] \in Getting /\ at'[s] \notin Putting \cup {"have"}
      BY <2>1 DEF Getting, Putting
    <3>2. flow'[cur'[s]].addr = s /\ flow'[cur'[s]].set /\ cur'[s] \in UdpQueues
      BY <1>2, <1>3, <1>5, <2>1 DEF Owns
    <3>3. handle'[s] \in {-1, cur'[s]} /\ hand'[s] = << >>
      BY <1>2, <1>3, <1>5, <2>1
    <3>4. ptr'[s] = Len(hand'[s]) \/ (ptr'[s] = -1 /\ hand'[s] = << >>)
      BY <1>1, <1>5 DEF SourceInv
    <3> QED
      BY <3>1, <3>2, <3>3, <3>4 DEF SourceInv, Owns
  <2>4. MasterInv' /\ JoinInv' /\ FlowsInv' /\ \A t \in Sources : t # s => SourceInv(t)'
    BY <1>2, <1>3, <1>5, <2>1, Alone
  <2>5. FlowTypes'
    BY <1>1, <1>2, <1>5, <2>1 DEF FlowTypes
  <2> QED
    BY <1>2, <2>2, <2>3, <2>4, <2>5 DEF EgelFlowInv
<1>6. ASSUME NEW n \in 1 .. NbPkts, q # -1,
             n = IF Len(recvq[q]) < NbPkts THEN Len(recvq[q]) ELSE NbPkts,
             hand' = [hand EXCEPT ![s] = SubSeq(recvq[q], 1, n)], ptr' = [ptr EXCEPT ![s] = n],
             recvq' = [recvq EXCEPT ![q] = SubSeq(@, n + 1, Len(@))],
             at' = [at EXCEPT ![s] = "have"], cur' = cur
      PROVE  EgelFlowInv'
  <2>1. PICK r \in UdpQueues : r = q /\ flow[r].addr = s /\ flow[r].set /\ handle[s] \in {-1, r} /\ Reads(s) = r
    BY <1>3, <1>6 DEF Owns
  <2> HIDE DEF q
  <2>2. PICK w \in Seq(Packets) : w = recvq[r]
    BY <1>1 DEF FlowTypes
  <2>3. n \in 1 .. Len(w)
    <3>1. n \in Nat /\ 1 <= n /\ Len(w) \in Nat /\ NbPkts \in Nat
      BY Limits
    <3> QED
      BY <1>6, <2>1, <2>2, <3>1
  <2>4. PICK b \in Seq(Packets), c \in Seq(Packets) :
          /\ b = SubSeq(w, 1, n) /\ c = SubSeq(w, n + 1, Len(w)) /\ Len(b) = n /\ b # << >> /\ Len(c) = Len(w) - n
          /\ \A i \in 1 .. Len(b) : b[i] = w[i] /\ i \in 1 .. Len(w)
          /\ \A j \in 1 .. Len(c) : c[j] = w[n + j] /\ n + j \in 1 .. Len(w) /\ n < n + j
    <3>1. /\ SubSeq(w, 1, n) \in Seq(Packets) /\ Len(SubSeq(w, 1, n)) = n /\ SubSeq(w, 1, n) # << >>
          /\ \A i \in 1 .. n : SubSeq(w, 1, n)[i] = w[i] /\ i \in 1 .. Len(w)
      BY <2>3, Taken
    <3>2. /\ SubSeq(w, n + 1, Len(w)) \in Seq(Packets) /\ Len(SubSeq(w, n + 1, Len(w))) = Len(w) - n
          /\ \A j \in 1 .. Len(w) - n : SubSeq(w, n + 1, Len(w))[j] = w[n + j] /\ n + j \in 1 .. Len(w) /\ n < n + j
      BY <2>3, Taken
    <3>3. PICK b \in Seq(Packets) : /\ b = SubSeq(w, 1, n) /\ Len(b) = n /\ b # << >>
                                    /\ \A i \in 1 .. Len(b) : b[i] = w[i] /\ i \in 1 .. Len(w)
      BY <3>1
    <3>4. PICK c \in Seq(Packets) : /\ c = SubSeq(w, n + 1, Len(w)) /\ Len(c) = Len(w) - n
                                    /\ \A j \in 1 .. Len(c) : c[j] = w[n + j] /\ n + j \in 1 .. Len(w) /\ n < n + j
      BY <3>2
    <3> QED
      BY <3>3, <3>4
  <2>5. /\ hand' = [hand EXCEPT ![s] = b] /\ recvq' = [recvq EXCEPT ![r] = c]
    BY <1>6, <2>1, <2>2, <2>4
  <2>6. /\ hand' \in [Sources -> Seq(Packets)] /\ recvq' \in [UdpQueues -> Seq(Packets)] /\ ptr' \in [Sources -> Int]
        /\ at' \in [Sources -> {"out", "nic", "flow", "have"} \cup Getting \cup Putting]
        /\ hand'[s] = b /\ ptr'[s] = n /\ at'[s] = "have" /\ recvq'[r] = c
        /\ \A t \in Sources : t # s => at'[t] = at[t] /\ hand'[t] = hand[t] /\ ptr'[t] = ptr[t]
        /\ \A x \in UdpQueues : x # r => recvq'[x] = recvq[x]
    <3>1. n \in Int
      BY <2>3
    <3>2. /\ hand' \in [Sources -> Seq(Packets)] /\ hand'[s] = b
          /\ \A t \in Sources : t # s => hand'[t] = hand[t]
      BY <1>1, <2>5 DEF FlowTypes
    <3>3. /\ recvq' \in [UdpQueues -> Seq(Packets)] /\ recvq'[r] = c
          /\ \A x \in UdpQueues : x # r => recvq'[x] = recvq[x]
      BY <1>1, <2>5 DEF FlowTypes
    <3>4. /\ ptr' \in [Sources -> Int] /\ ptr'[s] = n
          /\ \A t \in Sources : t # s => ptr'[t] = ptr[t]
      BY <1>1, <1>6, <3>1 DEF FlowTypes
    <3>5. /\ at' \in [Sources -> {"out", "nic", "flow", "have"} \cup Getting \cup Putting] /\ at'[s] = "have"
          /\ \A t \in Sources : t # s => at'[t] = at[t]
      BY <1>1, <1>6 DEF FlowTypes
    <3> QED
      BY <3>2, <3>3, <3>4, <3>5
  <2>7. /\ Rising(w)
        /\ \A j \in 1 .. Len(w) : w[j] # NIL => w[j][1] = s /\ w[j][2] <= sent[s] /\ w[j][2] > last[s][2]
    BY <1>1, <2>1, <2>2 DEF OrderInv, QueueOrder, NextOrder
  <2>8. Rising(b) /\ Rising(c) /\ \A i \in 1 .. Len(b), j \in 1 .. Len(c) : b[i] # NIL /\ c[j] # NIL => b[i][2] < c[j][2]
    <3>1. Rising(b)
      BY <2>4, <2>7 DEF Rising
    <3>2. \A i, j \in 1 .. Len(w) : i < j /\ w[i] # NIL /\ w[j] # NIL => w[i][2] < w[j][2]
      BY <2>7 DEF Rising
    <3>3. Rising(c)
      <4> SUFFICES ASSUME NEW i \in 1 .. Len(c), NEW j \in 1 .. Len(c), i < j, c[i] # NIL, c[j] # NIL
                   PROVE  c[i][2] < c[j][2]
        BY DEF Rising
      <4>1. /\ c[i] = w[n + i] /\ n + i \in 1 .. Len(w) /\ c[j] = w[n + j] /\ n + j \in 1 .. Len(w)
            /\ n + i < n + j
        BY <2>4
      <4> QED
        BY <3>2, <4>1
    <3>4. ASSUME NEW i \in 1 .. Len(b), NEW j \in 1 .. Len(c), b[i] # NIL, c[j] # NIL PROVE b[i][2] < c[j][2]
      <4>1. b[i] = w[i] /\ i \in 1 .. Len(w) /\ c[j] = w[n + j] /\ n + j \in 1 .. Len(w)
        BY <2>4
      <4>2. i < n + j
        BY <2>3, <2>4
      <4> QED
        BY <3>2, <3>4, <4>1, <4>2
    <3> QED
      BY <3>1, <3>3, <3>4
  <2>9. \A x \in UdpQueues : x # r \/ x = r
    OBVIOUS
  <2>10. ASSUME NEW x \in UdpQueues PROVE QueueOrder(x)'
    <3>1. CASE x # r
      <4>1. recvq'[x] = recvq[x] /\ QueueOrder(x)
        BY <1>1, <2>6, <3>1 DEF OrderInv
      <4> QED
        BY <1>2, <4>1 DEF QueueOrder
    <3>2. CASE x = r
      <4>1. \A j \in 1 .. Len(c) : c[j] # NIL => c[j][1] = s /\ c[j][2] <= sent[s]
        BY <2>4, <2>7
      <4>2. recvq'[x] = c /\ flow'[x].addr = s /\ sent' = sent
        BY <1>2, <2>1, <2>6, <3>2
      <4> QED
        BY <2>8, <4>1, <4>2 DEF QueueOrder
    <3> QED
      BY <3>1, <3>2
  <2>11. ASSUME NEW t \in Sources PROVE HandOrder(t)'
    <3>1. CASE t # s
      <4>1. hand'[t] = hand[t] /\ at'[t] = at[t] /\ HandOrder(t)
        BY <1>1, <2>6, <3>1 DEF OrderInv
      <4> QED
        BY <1>2, <4>1 DEF HandOrder
    <3>2. CASE t = s
      <4>1. last[s][1] = s /\ last[s][2] <= sent[s]
        BY <1>1 DEF OrderInv, HandOrder
      <4>2. at'[s] \notin Putting
        BY <2>6 DEF Putting
      <4> QED
        <5>1. \A j \in 1 .. Len(b) : b[j] # NIL => b[j][1] = s /\ b[j][2] <= sent[s] /\ b[j][2] > last[s][2]
          BY <2>4, <2>7
        <5>2. hand'[t] = b /\ last' = last /\ sent' = sent /\ at'[t] \notin Putting
          BY <1>2, <2>6, <3>2, <4>2
        <5> QED
          BY <2>8, <3>2, <4>1, <5>1, <5>2 DEF HandOrder
    <3> QED
      BY <3>1, <3>2
  <2>12. ASSUME NEW t \in Sources, NEW x \in UdpQueues PROVE NextOrder(t, x)'
    <3>1. NextOrder(t, x) /\ (Made(t, x)' <=> Made(t, x))
      BY <1>1, <1>2 DEF OrderInv, Made
    <3>2. CASE t # s
      <4>1. Reads(t)' = Reads(t)
        BY <1>2, <1>6, <2>6, <3>2 DEF Reads
      <4>2. CASE x # r
        <5>1. hand'[t] = hand[t] /\ recvq'[x] = recvq[x] /\ last' = last
          BY <1>2, <2>6, <3>2, <4>2
        <5> QED
          BY <3>1, <4>1, <5>1 DEF NextOrder
      <4>3. CASE x = r
        <5>1. hand'[t] = hand[t] /\ recvq'[x] = c /\ last' = last /\ recvq[x] = w
          BY <1>2, <2>2, <2>6, <3>2, <4>3
        <5>2. Reads(t) = x \/ Made(t, x) => \A j \in 1 .. Len(c) : c[j] # NIL => c[j][2] > last[t][2]
          BY <2>4, <3>1, <5>1 DEF NextOrder
        <5>3. Reads(t) = x => \A i \in 1 .. Len(hand[t]), j \in 1 .. Len(c) :
                hand[t][i] # NIL /\ c[j] # NIL => hand[t][i][2] < c[j][2]
          BY <2>4, <3>1, <5>1 DEF NextOrder
        <5> QED
          BY <3>1, <4>1, <5>1, <5>2, <5>3 DEF NextOrder
      <4> QED
        BY <4>2, <4>3
    <3>3. CASE t = s
      <4>1. Reads(s)' = handle[s]
        BY <1>2, <2>6 DEF Reads, Getting
      <4>2. Reads(s)' = x => x = r
        BY <2>1, <4>1, Limits
      <4>3. CASE x # r
        BY <1>2, <2>6, <3>1, <3>3, <4>2, <4>3 DEF NextOrder
      <4>4. CASE x = r
        <5>1. \A j \in 1 .. Len(c) : c[j] # NIL => c[j][2] > last[s][2]
          BY <2>4, <2>7
        <5>2. hand'[t] = b /\ recvq'[x] = c /\ last' = last
          BY <1>2, <2>6, <3>3, <4>4
        <5> QED
          BY <2>8, <3>3, <5>1, <5>2 DEF NextOrder
      <4> QED
        BY <4>3, <4>4
    <3> QED
      BY <3>2, <3>3
  <2>13. SourceInv(s)'
    <3>1. at'[s] \notin Getting
      BY <2>6 DEF Getting
    <3>2. handle'[s] # -1 => flow'[handle'[s]].addr = s /\ flow'[handle'[s]].set
      BY <1>2, <2>1
    <3>3. hand'[s] # << >> /\ ptr'[s] = Len(hand'[s])
      BY <2>4, <2>6
    <3> QED
      BY <3>1, <3>2, <3>3 DEF SourceInv, Owns
  <2>14. MasterInv' /\ JoinInv' /\ FlowsInv' /\ \A t \in Sources : t # s => SourceInv(t)'
    <3>1. recvq[r] # << >>
      BY <2>2, <2>3
    <3>2. \A x \in UdpQueues : recvq[x] = << >> => recvq'[x] = << >>
      BY <2>6, <3>1
    <3> QED
      BY <1>2, <1>3, <1>6, <2>6, <3>2, Alone
  <2>15. FlowTypes'
    BY <1>1, <1>2, <1>6, <2>6 DEF FlowTypes
  <2> QED
    BY <2>10, <2>11, <2>12, <2>13, <2>14, <2>15 DEF EgelFlowInv, OrderInv
<1> QED
  BY <1>2, <1>4, <1>5, <1>6 DEF ReadBurst

\* A packet is read, and the source may keep it until there is room to give it back.
LEMMA ReadPacketStep ==
  ASSUME EgelFlowInv, NEW s \in Sources, ReadPacket(s)
  PROVE  /\ EgelFlowInv'
         /\ \A t \in Sources : last'[t] # last[t] => last'[t][1] = t /\ last'[t][2] > last[t][2]
<1>1. FlowTypes /\ FlowsInv /\ MasterInv /\ (\A t \in Sources : SourceInv(t)) /\ OrderInv /\ JoinInv
  BY Facts
<1>2. UNCHANGED <<nic, flow, nextflow, rules, recvq, timer, told, core, master, open, handle, sent>>
  BY DEF ReadPacket, cardVars, igmpVars
<1>3. /\ at[s] \in {"have", "put"} /\ at[s] # "flow"
      /\ at[s] \notin Getting /\ at[s] \in Putting \cup {"have"} /\ Reads(s) = handle[s]
  BY DEF ReadPacket, Getting, Putting, Reads
<1>4. PICK w \in Seq(Packets) : w = hand[s] /\ w # << >>
  BY <1>1, <1>3 DEF FlowTypes, SourceInv
<1>5. PICK p \in Packets, c \in Seq(Packets) :
        /\ p = w[1] /\ p = Head(w) /\ 1 \in 1 .. Len(w) /\ c = Tail(w)
        /\ Len(c) = Len(w) - 1 /\ (Len(w) = 1 => c = << >>)
        /\ \A j \in 1 .. Len(c) : c[j] = w[j + 1] /\ j + 1 \in 1 .. Len(w) /\ 1 < j + 1
  BY <1>4, Rest
<1>6. HandOrder(s) /\ \A q \in UdpQueues : NextOrder(s, q)
  BY <1>1 DEF OrderInv
<1>7. CASE p = NIL
  <2>1. UNCHANGED <<at, last, cur, hand, ptr>>
    BY <1>4, <1>5, <1>7 DEF ReadPacket
  <2>2. FlowsInv' /\ FlowTypes' /\ JoinInv'
    BY <1>1, <1>2, <2>1 DEF FlowsInv, FlowTypes, JoinInv, JoinIsPending
  <2> QED
    BY <1>2, <2>1, <2>2, NothingMoves DEF EgelFlowInv
<1>8. CASE p # NIL
  <2>1. last' = [last EXCEPT ![s] = p]
    BY <1>4, <1>5, <1>8 DEF ReadPacket
  <2>2. p \in Sources \X Nat
    BY <1>8 DEF Packets
  <2>3. /\ last' \in [Sources -> Sources \X Nat] /\ last'[s] = p
        /\ \A t \in Sources : t # s => last'[t] = last[t]
    BY <1>1, <2>1, <2>2 DEF FlowTypes
  <2>4. /\ p[1] = s /\ p[2] <= sent[s] /\ p[2] \in Nat
        /\ p[2] > last[s][2] \/ p = last[s]
    BY <1>4, <1>5, <1>6, <1>8, <2>2 DEF HandOrder
  <2>5. \A t \in Sources : last'[t] # last[t] => last'[t][1] = t /\ last'[t][2] > last[t][2]
    BY <2>3, <2>4
  <2>6. Rising(w) /\ \A j \in 1 .. Len(w) : w[j] # NIL => w[j][1] = s /\ w[j][2] <= sent[s] /\ (1 < j => p[2] < w[j][2])
    BY <1>4, <1>5, <1>6, <1>8 DEF HandOrder, Rising
  <2>7. \A q \in UdpQueues : Reads(s) = q =>
          /\ \A j \in 1 .. Len(recvq[q]) : recvq[q][j] # NIL => recvq[q][j][2] > p[2]
          /\ \A i \in 1 .. Len(w), j \in 1 .. Len(recvq[q]) :
               w[i] # NIL /\ recvq[q][j] # NIL => w[i][2] < recvq[q][j][2]
    <3> SUFFICES ASSUME NEW q \in UdpQueues, Reads(s) = q
                 PROVE  /\ \A j \in 1 .. Len(recvq[q]) : recvq[q][j] # NIL => recvq[q][j][2] > p[2]
                        /\ \A i \in 1 .. Len(w), j \in 1 .. Len(recvq[q]) :
                             w[i] # NIL /\ recvq[q][j] # NIL => w[i][2] < recvq[q][j][2]
      OBVIOUS
    <3>1. \A i \in 1 .. Len(w), j \in 1 .. Len(recvq[q]) :
             w[i] # NIL /\ recvq[q][j] # NIL => w[i][2] < recvq[q][j][2]
      BY <1>4, <1>6 DEF NextOrder
    <3>2. \A j \in 1 .. Len(recvq[q]) : recvq[q][j] # NIL => recvq[q][j][2] > p[2]
      <4> SUFFICES ASSUME NEW j \in 1 .. Len(recvq[q]), recvq[q][j] # NIL PROVE recvq[q][j][2] > p[2]
        OBVIOUS
      <4>1. recvq[q] \in Seq(Packets)
        BY <1>1 DEF FlowTypes
      <4>2. recvq[q][j] \in Packets
        BY <4>1
      <4>3. recvq[q][j][2] \in Nat
        BY <4>2 DEF Packets
      <4> QED
        BY <1>5, <1>8, <2>4, <3>1, <4>3
    <3> QED
      BY <3>1, <3>2
  <2>8. \A q \in UdpQueues : ~Made(s, q)
    BY <1>1, <1>3 DEF Made, MasterInv
  <2>9. ASSUME NEW q \in UdpQueues PROVE QueueOrder(q)'
    <3>1. QueueOrder(q)
      BY <1>1 DEF OrderInv
    <3> QED
      BY <1>2, <3>1 DEF QueueOrder
  <2>10. ASSUME \A t \in Sources : t # s => at'[t] = at[t] /\ hand'[t] = hand[t] /\ cur'[t] = cur[t],
                HandOrder(s)', \A q \in UdpQueues : NextOrder(s, q)'
         PROVE  OrderInv'
    <3>1. ASSUME NEW t \in Sources, t # s PROVE HandOrder(t)' /\ \A q \in UdpQueues : NextOrder(t, q)'
      <4>1. /\ HandOrder(t) /\ at'[t] = at[t] /\ hand'[t] = hand[t] /\ last'[t] = last[t] /\ sent' = sent
        BY <1>1, <1>2, <2>3, <2>10, <3>1 DEF OrderInv
      <4>2. HandOrder(t)'
        BY <4>1 DEF HandOrder
      <4>3. ASSUME NEW q \in UdpQueues PROVE NextOrder(t, q)'
        <5>1. NextOrder(t, q) /\ recvq'[q] = recvq[q] /\ Reads(t)' = Reads(t) /\ (Made(t, q)' <=> Made(t, q))
          BY <1>1, <1>2, <2>10, <3>1 DEF OrderInv, Reads, Made
        <5> QED
          BY <4>1, <5>1 DEF NextOrder
      <4> QED
        BY <4>2, <4>3
    <3> QED
      BY <2>9, <2>10, <3>1 DEF OrderInv
  <2>11. ASSUME NEW q, q = (IF at[s] = "put" THEN cur[s] ELSE handle[s]), q \in UdpQueues \cup {0},
                at' = [at EXCEPT ![s] = "put doze"], cur' = [cur EXCEPT ![s] = q], UNCHANGED <<hand, ptr>>
         PROVE  EgelFlowInv'
    <3>1. /\ at' \in [Sources -> {"out", "nic", "flow", "have"} \cup Getting \cup Putting]
          /\ cur' \in [Sources -> UdpQueues \cup {0}] /\ at'[s] = "put doze"
          /\ \A t \in Sources : t # s => at'[t] = at[t] /\ cur'[t] = cur[t]
      BY <1>1, <2>11 DEF FlowTypes, Putting
    <3>2. at'[s] \in Putting /\ at'[s] \notin Getting /\ at'[s] # "flow"
      BY <3>1 DEF Putting, Getting
    <3>3. HandOrder(s)'
      <4>1. hand'[s] = w /\ last'[s] = p /\ sent' = sent
        BY <1>2, <1>4, <2>3, <2>11
      <4>2. \A j \in 1 .. Len(w) : w[j] # NIL => w[j][2] > p[2] \/ j = 1
        <5> SUFFICES ASSUME NEW j \in 1 .. Len(w), w[j] # NIL, j # 1 PROVE w[j][2] > p[2]
          OBVIOUS
        <5>1. w[j] \in Packets
          BY <1>4
        <5>2. w[j][2] \in Nat /\ 1 < j
          BY <5>1 DEF Packets
        <5> QED
          BY <2>4, <2>6, <5>2
      <4> QED
        BY <1>5, <1>8, <2>4, <2>6, <3>2, <4>1, <4>2 DEF HandOrder
    <3>4. ASSUME NEW r \in UdpQueues PROVE NextOrder(s, r)'
      <4>1. hand'[s] = w /\ last'[s] = p /\ recvq' = recvq /\ Reads(s)' = Reads(s) /\ ~Made(s, r)'
        BY <1>2, <1>3, <1>4, <2>3, <2>8, <2>11, <3>2 DEF Reads, Made
      <4> QED
        BY <2>7, <4>1 DEF NextOrder
    <3>5. SourceInv(s)'
      <4>1. handle'[s] # -1 => flow'[handle'[s]].addr = s /\ flow'[handle'[s]].set
        BY <1>1, <1>2 DEF SourceInv, Owns
      <4>2. hand'[s] # << >> /\ (ptr'[s] = Len(hand'[s]) \/ (ptr'[s] = -1 /\ hand'[s] = << >>))
        BY <1>1, <1>4, <2>11 DEF SourceInv
      <4> QED
        BY <3>2, <4>1, <4>2 DEF SourceInv, Owns
    <3>6. OrderInv'
      BY <2>10, <2>11, <3>1, <3>3, <3>4
    <3>7. MasterInv' /\ JoinInv' /\ FlowsInv' /\ \A t \in Sources : t # s => SourceInv(t)'
      BY <1>2, <1>3, <2>11, <3>1, <3>2, Alone
    <3>8. FlowTypes'
      BY <1>1, <1>2, <2>3, <2>11, <3>1 DEF FlowTypes
    <3> QED
      BY <3>5, <3>6, <3>7, <3>8 DEF EgelFlowInv
  <2>12. ASSUME at' = [at EXCEPT ![s] = "out"], cur' = cur,
                hand' = [hand EXCEPT ![s] = Tail(@)], ptr' = [ptr EXCEPT ![s] = @ - 1]
         PROVE  EgelFlowInv'
    <3>1. /\ at' \in [Sources -> {"out", "nic", "flow", "have"} \cup Getting \cup Putting] /\ at'[s] = "out"
          /\ \A t \in Sources : t # s => at'[t] = at[t]
      BY <1>1, <2>12 DEF FlowTypes
    <3>2. hand' = [hand EXCEPT ![s] = c]
      BY <1>4, <1>5, <2>12
    <3>3. /\ hand' \in [Sources -> Seq(Packets)] /\ hand'[s] = c
          /\ \A t \in Sources : t # s => hand'[t] = hand[t]
      BY <1>1, <3>2 DEF FlowTypes
    <3>4. /\ ptr' \in [Sources -> Int] /\ ptr'[s] = ptr[s] - 1
          /\ \A t \in Sources : t # s => ptr'[t] = ptr[t]
      BY <1>1, <2>12 DEF FlowTypes
    <3>5. at'[s] \notin Putting /\ at'[s] \notin Getting /\ at'[s] # "flow" /\ at'[s] \notin Putting \cup {"have"}
      BY <3>1 DEF Putting, Getting
    <3>6. Rising(c) /\ \A j \in 1 .. Len(c) : c[j] # NIL => c[j][1] = s /\ c[j][2] <= sent[s] /\ c[j][2] > p[2]
      <4>1. Rising(c)
        <5>1. \A i, j \in 1 .. Len(c) : i < j => i + 1 < j + 1
          OBVIOUS
        <5> QED
          BY <1>5, <2>6, <5>1 DEF Rising
      <4>2. ASSUME NEW j \in 1 .. Len(c), c[j] # NIL PROVE c[j][1] = s /\ c[j][2] <= sent[s] /\ c[j][2] > p[2]
        <5>1. c[j] \in Packets /\ c[j] = w[j + 1] /\ j + 1 \in 1 .. Len(w) /\ 1 < j + 1
          BY <1>5
        <5>2. c[j][2] \in Nat
          BY <4>2, <5>1 DEF Packets
        <5>3. c[j][1] = s /\ c[j][2] <= sent[s] /\ p[2] < c[j][2]
          BY <2>6, <4>2, <5>1
        <5> QED
          BY <2>4, <5>2, <5>3
      <4> QED
        BY <4>1, <4>2
    <3>7. HandOrder(s)'
      <4>1. last'[s] = p /\ sent' = sent
        BY <1>2, <2>3
      <4> QED
        BY <2>4, <3>3, <3>5, <3>6, <4>1 DEF HandOrder
    <3>8. ASSUME NEW r \in UdpQueues PROVE NextOrder(s, r)'
      <4>1. hand'[s] = c /\ last'[s] = p /\ recvq' = recvq /\ Reads(s)' = Reads(s) /\ ~Made(s, r)'
        BY <1>2, <1>3, <2>3, <2>8, <3>3, <3>5 DEF Reads, Made
      <4>2. Reads(s) = r => \A i \in 1 .. Len(c), j \in 1 .. Len(recvq[r]) :
              c[i] # NIL /\ recvq[r][j] # NIL => c[i][2] < recvq[r][j][2]
        BY <1>5, <2>7
      <4> QED
        BY <2>7, <4>1, <4>2 DEF NextOrder
    <3>9. SourceInv(s)'
      <4>1. handle'[s] # -1 => flow'[handle'[s]].addr = s /\ flow'[handle'[s]].set
        BY <1>1, <1>2 DEF SourceInv, Owns
      <4>2. ptr'[s] = Len(hand'[s])
        BY <1>1, <1>4, <1>5, <3>3, <3>4 DEF SourceInv
      <4> QED
        BY <3>5, <4>1, <4>2 DEF SourceInv, Owns
    <3>10. OrderInv'
      BY <2>10, <2>12, <3>1, <3>3, <3>7, <3>8
    <3>11. MasterInv' /\ JoinInv' /\ FlowsInv' /\ \A t \in Sources : t # s => SourceInv(t)'
      BY <1>2, <1>3, <2>12, <3>1, <3>3, <3>4, <3>5, Alone
    <3>12. FlowTypes'
      BY <1>1, <1>2, <2>3, <2>12, <3>1, <3>3, <3>4 DEF FlowTypes
    <3> QED
      BY <3>9, <3>10, <3>11, <3>12 DEF EgelFlowInv
  <2>13. EgelFlowInv'
    <3> DEFINE q == IF at[s] = "put" THEN cur[s] ELSE handle[s]
               full == q # -1 /\ Len(freeq[q]) = Slots
    <3>1. Head(hand[s]) # NIL
      BY <1>4, <1>5, <1>8
    <3>2. CASE full
      <4>1. q \in UdpQueues \cup {0}
        BY <1>1, <3>2 DEF FlowTypes
      <4>2. at' = [at EXCEPT ![s] = "put doze"] /\ cur' = [cur EXCEPT ![s] = q] /\ UNCHANGED <<hand, ptr>>
        BY <3>1, <3>2 DEF ReadPacket
      <4> QED
        BY <2>11, <4>1, <4>2
    <3>3. CASE ~full
      <4>1. /\ at' = [at EXCEPT ![s] = "out"] /\ cur' = cur
            /\ hand' = [hand EXCEPT ![s] = Tail(@)] /\ ptr' = [ptr EXCEPT ![s] = @ - 1]
        BY <3>1, <3>3 DEF ReadPacket
      <4> QED
        BY <2>12, <4>1
    <3> QED
      BY <3>2, <3>3
  <2> QED
    BY <2>5, <2>13
<1> QED
  BY <1>7, <1>8

LEMMA SourceSteps ==
  ASSUME EgelFlowInv, NEW s \in Sources, ReadConfig(s) \/ ReadSleep(s) \/ ReadNext(s) \/ Close(s)
  PROVE  EgelFlowInv' /\ last' = last
<1>1. FlowTypes /\ FlowsInv /\ MasterInv /\ (\A t \in Sources : SourceInv(t)) /\ OrderInv /\ JoinInv
  BY Facts
<1>2. UNCHANGED <<nic, flow, nextflow, rules, recvq, timer, told, core, master, sent, cur, hand, ptr, last>>
  BY DEF ReadConfig, ReadSleep, ReadNext, Close, cardVars, queueVars, igmpVars
<1>3. \A t \in Sources, q \in UdpQueues : Made(t, q)' <=> Made(t, q)
  BY <1>2 DEF Made
<1>4. ASSUME ReadConfig(s) \/ ReadSleep(s) \/ ReadNext(s) PROVE EgelFlowInv'
  <2>1. UNCHANGED <<open, handle>>
    BY <1>4 DEF ReadConfig, ReadSleep, ReadNext
  <2>2. PICK a \in {"nic", "have"} \cup Getting \cup Putting :
          /\ at' = [at EXCEPT ![s] = a] /\ at[s] # "flow" /\ a # "flow"
          /\ (a \in Getting <=> at[s] \in Getting) /\ (a \in Putting <=> at[s] \in Putting)
          /\ a = "have" => ptr[s] > 0 /\ at[s] = "out"
    <3>1. CASE ReadConfig(s)
      BY <3>1 DEF ReadConfig, Getting, Putting
    <3>2. CASE ReadSleep(s) /\ at[s] = "get doze"
      BY <3>2 DEF ReadSleep, Getting, Putting
    <3>3. CASE ReadSleep(s) /\ at[s] = "put doze"
      BY <3>3 DEF ReadSleep, Getting, Putting
    <3>4. CASE ReadNext(s)
      BY <3>4 DEF ReadNext, Getting, Putting
    <3> QED
      BY <1>4, <3>1, <3>2, <3>3, <3>4 DEF ReadSleep
  <2>3. /\ at' \in [Sources -> {"out", "nic", "flow", "have"} \cup Getting \cup Putting] /\ at'[s] = a
        /\ \A t \in Sources : t # s => at'[t] = at[t]
    BY <1>1, <2>2 DEF FlowTypes
  <2>4. OrderInv'
    <3>1. \A t \in Sources : (at'[t] \in Getting <=> at[t] \in Getting) /\ (at'[t] \in Putting <=> at[t] \in Putting)
      BY <2>2, <2>3
    <3>2. \A t \in Sources : Reads(t)' = Reads(t)
      BY <1>2, <2>1, <3>1 DEF Reads
    <3> QED
      BY <1>2, <1>3, <3>1, <3>2, OrderKept
  <2>5. SourceInv(s)'
    <3>1. CASE a = "have"
      <4>1. hand[s] # << >>
        BY <1>1, <2>2, <3>1 DEF SourceInv
      <4>2. at'[s] \notin Getting
        BY <2>3, <3>1 DEF Getting
      <4>3. handle'[s] # -1 => flow'[handle'[s]].addr = s /\ flow'[handle'[s]].set
        BY <1>1, <1>2, <2>1 DEF SourceInv, Owns
      <4>4. ptr[s] = Len(hand[s])
        BY <1>1, <4>1 DEF SourceInv
      <4> QED
        BY <1>2, <4>1, <4>2, <4>3, <4>4 DEF SourceInv, Owns
    <3>2. CASE a # "have"
      BY <1>1, <1>2, <2>1, <2>2, <2>3, <3>2, SourceKept DEF FlowTypes
    <3> QED
      BY <3>1, <3>2
  <2>6. MasterInv' /\ JoinInv' /\ FlowsInv' /\ \A t \in Sources : t # s => SourceInv(t)'
    BY <1>2, <2>1, <2>2, <2>3, Alone
  <2>7. FlowTypes'
    BY <1>1, <1>2, <2>1, <2>3 DEF FlowTypes
  <2> QED
    BY <2>4, <2>5, <2>6, <2>7 DEF EgelFlowInv
<1>5. CASE Close(s)
  <2>1. open' = [open EXCEPT ![s] = FALSE] /\ handle' = [handle EXCEPT ![s] = -1] /\ at' = at
    BY <1>5 DEF Close
  <2>2. /\ open' \in [Sources -> BOOLEAN] /\ handle' \in [Sources -> UdpQueues \cup {-1}] /\ handle'[s] = -1
        /\ \A t \in Sources : t # s => handle'[t] = handle[t]
    BY <1>1, <2>1 DEF FlowTypes
  <2>3. OrderInv'
    <3>1. \A t \in Sources, q \in UdpQueues : Reads(t)' = q => Reads(t) = q
      BY <1>2, <2>1, <2>2, Limits DEF Reads
    <3> QED
      BY <1>2, <1>3, <2>1, <3>1, OrderKept
  <2>4. SourceInv(s)'
    BY <1>1, <1>2, <2>1, <2>2 DEF SourceInv, Owns
  <2>5. \A t \in Sources : t # s => SourceInv(t)'
    BY <1>1, <1>2, <2>1, <2>2, SourceKept DEF FlowTypes
  <2>6. FlowsInv' /\ MasterInv' /\ JoinInv'
    BY <1>1, <1>2, <2>1 DEF FlowsInv, MasterInv, JoinInv, JoinIsPending
  <2>7. FlowTypes'
    BY <1>1, <1>2, <2>1, <2>2 DEF FlowTypes
  <2>8. \A t \in Sources : SourceInv(t)'
    <3>1. ASSUME NEW t \in Sources PROVE SourceInv(t)'
      <4>1. CASE t = s
        BY <2>4, <4>1
      <4>2. CASE t # s
        BY <2>5, <4>2
      <4> QED
        BY <4>1, <4>2
    <3> QED
      BY <3>1
  <2> QED
    BY <1>2, <2>3, <2>6, <2>7, <2>8 DEF EgelFlowInv
<1> QED
  BY <1>2, <1>4, <1>5

(***************************************************************************)
(* The theorems.                                                           *)
(***************************************************************************)
LEMMA LastKept ==
  ASSUME Master \/ MasterExit \/ Core
  PROVE  last' = last
<1>1. Master => last' = last
  BY DEF Master, MasterNic, MasterFind, MasterRule, MasterOpen, MasterUri, MasterTimer, Answer, srcVars
<1>2. Core => last' = last
  BY DEF Core, CorePacket, CoreQuery, CoreFire, CoreReport, CoreAfter, CoreEnd, srcVars
<1> QED
  BY <1>1, <1>2 DEF MasterExit, srcVars

LEMMA EgelFlowStep ==
  ASSUME EgelFlowInv, [Next]_vars
  PROVE  /\ EgelFlowInv'
         /\ \A s \in Sources : last'[s] # last[s] => last'[s][1] = s /\ last'[s][2] > last[s][2]
<1>1. FlowTypes /\ FlowsInv /\ JoinInv
  BY Facts
<1>2. ASSUME UNCHANGED <<nic, flow, nextflow, rules, recvq, timer, told, core, master, sent>>,
             UNCHANGED <<at, open, handle, cur, hand, ptr, last>>
      PROVE  EgelFlowInv'
  <2>1. FlowsInv' /\ FlowTypes' /\ JoinInv'
    BY <1>1, <1>2 DEF FlowsInv, FlowTypes, JoinInv, JoinIsPending
  <2> QED
    BY <1>2, <2>1, NothingMoves DEF EgelFlowInv
<1>3. CASE Master
  BY <1>3, MasterSteps, LastKept DEF Master
<1>4. CASE MasterExit
  BY <1>2, <1>4, LastKept DEF MasterExit, cardVars, queueVars, igmpVars, srcVars
<1>5. CASE Core
  BY <1>5, CoreSteps, LastKept
<1>6. ASSUME NEW s \in Sources, Source(s)
      PROVE  /\ EgelFlowInv'
             /\ \A t \in Sources : last'[t] # last[t] => last'[t][1] = t /\ last'[t][2] > last[t][2]
  BY <1>6, ReadBurstStep, ReadPacketStep, SourceSteps DEF Source
<1>7. CASE UNCHANGED vars
  BY <1>2, <1>7 DEF vars, cardVars, queueVars, igmpVars, srcVars
<1> QED
  BY <1>3, <1>4, <1>5, <1>6, <1>7 DEF Next

LEMMA EgelFlowAlways == Spec => []EgelFlowInv
<1>1. EgelFlowInv /\ [Next]_vars => EgelFlowInv'
  BY EgelFlowStep
<1> QED
  BY EgelFlowInit, <1>1, PTL DEF Spec

\* A group that was joined and never reported has a report to come: queries, reports
\* and the end of the timer's callback cannot leave its timer stopped, whatever the
\* thread of the card and the master thread do between their steps.
THEOREM JoinsArePending == Spec => []JoinIsPending
<1>1. EgelFlowInv => JoinIsPending
  BY DEF EgelFlowInv, JoinInv
<1> QED
  BY EgelFlowAlways, <1>1, PTL

\* A source reads packets of its own stream only, each once and in the order they came:
\* over bursts, full queues, closes and flows made again, and with odd packets between.
THEOREM PacketsAreOfTheSource == Spec => PacketsAreOwn
<1>1. EgelFlowInv /\ [Next]_vars
        => [\A s \in Sources : last'[s] # last[s] => last'[s][1] = s /\ last'[s][2] > last[s][2]]_last
  BY EgelFlowStep
<1> QED
  BY EgelFlowAlways, <1>1, PTL DEF Spec, PacketsAreOwn

(***************************************************************************)
(* Counting buffers: of a queue, and of all queues of a kind.              *)
(***************************************************************************)
Nb(w) == Cardinality(Buffers(w))
Total(fifo) == Cardinality(Held(fifo))

\* A queue has as many buffers as packets that are not null.
LEMMA NbCounts ==
  ASSUME NEW w \in Seq(Packets)
  PROVE  IsFiniteSet(Buffers(w)) /\ Nb(w) \in Nat /\ Buffers(w) \subseteq 1 .. Len(w)
<1>1. Buffers(w) \subseteq 1 .. Len(w)
  BY DEF Buffers
<1>2. Len(w) \in Int /\ 1 \in Int
  OBVIOUS
<1>3. IsFiniteSet(1 .. Len(w))
  BY <1>2, FS_Interval
<1>4. IsFiniteSet(Buffers(w))
  BY <1>1, <1>3, FS_Subset
<1> QED
  BY <1>1, <1>4, FS_CardinalityType DEF Nb

LEMMA NbNone == Buffers(<< >>) = {} /\ Nb(<< >>) = 0
<1>1. Buffers(<< >>) = {}
  BY DEF Buffers
<1> QED
  BY <1>1, FS_EmptySet DEF Nb

LEMMA NbAll == ASSUME NEW w \in Seq(Packets \ {NIL}) PROVE Nb(w) = Len(w) /\ w \in Seq(Packets)
<1>1. Buffers(w) = 1 .. Len(w)
  BY DEF Buffers
<1>2. Len(w) \in Nat
  OBVIOUS
<1>3. Cardinality(1 .. Len(w)) = Len(w)
  BY <1>2, FS_Interval, SMTT(30)
<1> QED
  BY <1>1, <1>3 DEF Nb

LEMMA NbAppend ==
  ASSUME NEW w \in Seq(Packets), NEW p \in Packets
  PROVE  /\ Append(w, p) \in Seq(Packets)
         /\ p # NIL => Nb(Append(w, p)) = Nb(w) + 1
         /\ p = NIL => Nb(Append(w, p)) = Nb(w)
<1>1. PICK n \in Nat : n = Len(w)
  OBVIOUS
<1>2. PICK v : v = Append(w, p)
  OBVIOUS
<1>9. v \in Seq(Packets) /\ Len(v) = n + 1 /\ v[n + 1] = p /\ \A i \in 1 .. n : v[i] = w[i]
  BY <1>1, <1>2
<1>3. 1 .. n + 1 = (1 .. n) \cup {n + 1} /\ n + 1 \notin 1 .. n
  OBVIOUS
<1>4. p # NIL => Buffers(v) = Buffers(w) \cup {n + 1}
  BY <1>1, <1>9, <1>3 DEF Buffers
<1>5. p = NIL => Buffers(v) = Buffers(w)
  BY <1>1, <1>9, <1>3 DEF Buffers
<1>6. n + 1 \notin Buffers(w) /\ IsFiniteSet(Buffers(w))
  BY <1>1, <1>3, NbCounts
<1>7. Cardinality(Buffers(w) \cup {n + 1}) = Cardinality(Buffers(w)) + 1
  BY <1>6, FS_AddElement
<1> QED
  BY <1>2, <1>4, <1>5, <1>7, <1>9 DEF Nb

\* A sequence cut in two has its buffers in the parts.
LEMMA NbSplit ==
  ASSUME NEW w \in Seq(Packets), NEW n \in 1 .. Len(w)
  PROVE  /\ SubSeq(w, 1, n) \in Seq(Packets) /\ SubSeq(w, n + 1, Len(w)) \in Seq(Packets)
         /\ Nb(SubSeq(w, 1, n)) + Nb(SubSeq(w, n + 1, Len(w))) = Nb(w)
<1>1. PICK m \in Nat : m = Len(w) /\ n \in Nat /\ n <= m
  OBVIOUS
<1>2. PICK b \in Seq(Packets) : b = SubSeq(w, 1, n) /\ Len(b) = n /\ \A i \in 1 .. n : b[i] = w[i]
  BY Taken
<1>3. PICK c \in Seq(Packets) : /\ c = SubSeq(w, n + 1, m) /\ Len(c) = m - n
                                /\ \A i \in 1 .. m - n : c[i] = w[i + n]
  <2>1. \A i \in 1 .. m - n : n + i = i + n
    BY <1>1
  <2>2. /\ SubSeq(w, n + 1, Len(w)) \in Seq(Packets) /\ Len(SubSeq(w, n + 1, Len(w))) = Len(w) - n
        /\ \A j \in 1 .. Len(w) - n : SubSeq(w, n + 1, Len(w))[j] = w[n + j]
    BY Taken
  <2> QED
    BY <1>1, <2>1, <2>2
<1> DEFINE low == {i \in Buffers(w) : i <= n}
           high == {i \in Buffers(w) : i > n}
           f == [i \in Buffers(c) |-> i + n]
<1>4. IsFiniteSet(Buffers(w)) /\ IsFiniteSet(Buffers(c)) /\ Buffers(w) \subseteq 1 .. m /\ Buffers(c) \subseteq 1 .. m - n
  BY <1>1, <1>3, NbCounts
<1>5. IsFiniteSet(low) /\ IsFiniteSet(high)
  BY <1>4, FS_Subset
<1>6. Buffers(w) = low \cup high /\ low \cap high = {}
  BY <1>1, <1>4
<1>7. Cardinality(Buffers(w)) = Cardinality(low) + Cardinality(high) - Cardinality({})
  BY <1>5, <1>6, FS_Union
<1>8. Buffers(b) = low
  BY <1>1, <1>2 DEF Buffers
<1>9. Cardinality(high) = Cardinality(Buffers(c))
  <2>1. \A i \in 1 .. m - n : i + n \in 1 .. m /\ i + n > n
    BY <1>1
  <2>2. \A j \in 1 .. m : j > n => j - n \in 1 .. m - n /\ (j - n) + n = j
    BY <1>1
  <2>3. f \in [Buffers(c) -> high]
    <3>1. ASSUME NEW i \in Buffers(c) PROVE i + n \in high
      <4>1. i \in 1 .. m - n /\ c[i] # NIL /\ c[i] = w[i + n]
        BY <1>3, <1>4 DEF Buffers
      <4> QED
        BY <1>1, <2>1, <4>1 DEF Buffers
    <3> QED
      BY <3>1
  <2>4. \A i, j \in Buffers(c) : f[i] = f[j] => i = j
    <3>1. ASSUME NEW i \in Buffers(c), NEW j \in Buffers(c), f[i] = f[j] PROVE i = j
      <4>1. i \in Int /\ j \in Int /\ i + n = j + n
        BY <1>4, <3>1
      <4> QED
        BY <1>1, <4>1
    <3> QED
      BY <3>1
  <2>5. \A j \in high : \E i \in Buffers(c) : f[i] = j
    <3>1. ASSUME NEW j \in high PROVE \E i \in Buffers(c) : f[i] = j
      <4>1. j \in 1 .. m /\ j > n /\ w[j] # NIL
        BY <1>1 DEF Buffers
      <4>2. j - n \in 1 .. m - n /\ (j - n) + n = j
        BY <2>2, <4>1
      <4>3. c[j - n] = w[j]
        BY <1>3, <4>2
      <4>4. j - n \in Buffers(c)
        <5>1. PICK i \in 1 .. m - n : i = j - n
          BY <4>2
        <5> QED
          BY <1>3, <4>1, <4>3, <5>1, SMTT(30) DEF Buffers
      <4> QED
        BY <4>2, <4>4
    <3> QED
      BY <3>1
  <2>6. f \in Bijection(Buffers(c), high)
    BY <2>3, <2>4, <2>5 DEF Bijection, Injection, IsInjective, Surjection
  <2>7. ExistsBijection(Buffers(c), high)
    BY <2>6 DEF ExistsBijection
  <2> QED
    BY <1>4, <2>7, FS_Bijection
<1>10. Nb(w) = Nb(b) + Nb(c)
  <2>1. Cardinality({}) = 0 /\ Cardinality(low) \in Nat /\ Cardinality(high) \in Nat
    BY <1>5, FS_EmptySet, FS_CardinalityType
  <2> QED
    BY <1>7, <1>8, <1>9, <2>1 DEF Nb
<1> QED
  BY <1>1, <1>2, <1>3, <1>10

\* The first packet of a sequence has a buffer.
LEMMA NbTail ==
  ASSUME NEW w \in Seq(Packets), w # << >>, Head(w) # NIL
  PROVE  Tail(w) \in Seq(Packets) /\ Nb(w) = Nb(Tail(w)) + 1
<1>1. 1 \in 1 .. Len(w) /\ Head(w) = w[1]
  BY Rest
<1>2. Tail(w) \in Seq(Packets) /\ Tail(w) = SubSeq(w, 2, Len(w))
  BY Rest
<1>3. PICK t \in Seq(Packets) : t = Tail(w)
  BY <1>2
<1>4. PICK b : b = SubSeq(w, 1, 1)
  OBVIOUS
<1>5. b \in Seq(Packets) /\ Len(b) = 1 /\ \A i \in 1 .. 1 : b[i] = w[i]
  BY <1>1, <1>4, Taken
<1>6. Buffers(b) = {1}
  BY <1>1, <1>5 DEF Buffers
<1>7. Nb(b) = 1
  BY <1>6, FS_Singleton DEF Nb
<1>8. Nb(b) + Nb(SubSeq(w, 1 + 1, Len(w))) = Nb(w)
  BY <1>1, <1>4, NbSplit
<1>9. Nb(b) + Nb(t) = Nb(w)
  <2>1. 1 + 1 = 2
    OBVIOUS
  <2>2. t = SubSeq(w, 1 + 1, Len(w))
    BY <1>2, <1>3, <2>1
  <2> QED
    BY <1>8, <2>2, Zenon
<1>10. Nb(t) \in Nat
  BY NbCounts
<1>11. Nb(w) = Nb(t) + 1
  BY <1>7, <1>9, <1>10
<1> QED
  BY <1>2, <1>3, <1>11

\* Fifos k are fifos f with g in the place x.
Changed(f, x, g, k) == k = [f EXCEPT ![x] = g]

\* When one queue of a kind changes, the buffers of the kind change by its buffers.
LEMMA HeldChange ==
  ASSUME NEW S, IsFiniteSet(S), NEW f, f \in [S -> Seq(Packets)], NEW x \in S, NEW g \in Seq(Packets),
         NEW h, Changed(f, x, g, h)
  PROVE  Total(f) \in Nat /\ Total(h) \in Nat /\ Total(h) + Nb(f[x]) = Total(f) + Nb(g)
<1> DEFINE R == S \ {x}
           rest == {{y} \X Buffers(f[y]) : y \in R}
<1>1. IsFiniteSet(R) /\ IsFiniteSet({x}) /\ Cardinality({x}) = 1
  BY FS_Subset, FS_Singleton
<1>2. ASSUME NEW y \in S, NEW w \in Seq(Packets)
      PROVE  IsFiniteSet({y} \X Buffers(w)) /\ Cardinality({y} \X Buffers(w)) = Nb(w)
  <2>1. IsFiniteSet(Buffers(w)) /\ Nb(w) \in Nat
    BY NbCounts
  <2>2. IsFiniteSet({y}) /\ Cardinality({y}) = 1
    BY FS_Singleton
  <2>3. IsFiniteSet({y} \X Buffers(w)) /\ Cardinality({y} \X Buffers(w)) = 1 * Cardinality(Buffers(w))
    BY <2>1, <2>2, FS_Product
  <2> QED
    BY <2>1, <2>3 DEF Nb
<1>3. IsFiniteSet(UNION rest)
  <2> DEFINE g1 == [y \in R |-> {y} \X Buffers(f[y])]
  <2>1. g1 \in Surjection(R, rest)
    BY DEF Surjection
  <2>2. IsFiniteSet(rest)
    BY <1>1, <2>1, FS_Surjection
  <2>3. ASSUME NEW T \in rest PROVE IsFiniteSet(T)
    <3>1. PICK y \in R : T = {y} \X Buffers(f[y])
      OBVIOUS
    <3>2. f[y] \in Seq(Packets) /\ y \in S
      OBVIOUS
    <3> QED
      BY <1>2, <3>1, <3>2
  <2> QED
    BY <2>2, <2>3, FS_UNION
<1>4. ASSUME NEW k \in [S -> Seq(Packets)], \A y \in R : k[y] = f[y]
      PROVE  /\ Total(k) = Cardinality(UNION rest) + Nb(k[x])
  <2>1. Held(k) = (UNION rest) \cup ({x} \X Buffers(k[x]))
    <3>1. Held(k) = UNION {{y} \X Buffers(k[y]) : y \in S}
      BY DEF Held
    <3>2. {{y} \X Buffers(k[y]) : y \in S} = rest \cup {{x} \X Buffers(k[x])}
      BY <1>4
    <3> QED
      BY <3>1, <3>2
  <2>2. (UNION rest) \cap ({x} \X Buffers(k[x])) = {}
    <3>1. \A T \in rest : \A e \in T : e[1] # x
      OBVIOUS
    <3>2. \A e \in {x} \X Buffers(k[x]) : e[1] = x
      OBVIOUS
    <3> QED
      BY <3>1, <3>2
  <2>3. IsFiniteSet({x} \X Buffers(k[x])) /\ Cardinality({x} \X Buffers(k[x])) = Nb(k[x]) /\ Nb(k[x]) \in Nat
    BY <1>2, NbCounts
  <2>4. Cardinality(Held(k)) = Cardinality(UNION rest) + Cardinality({x} \X Buffers(k[x])) - Cardinality({})
    BY <1>3, <2>1, <2>2, <2>3, FS_Union
  <2>5. Cardinality(UNION rest) \in Nat /\ Cardinality({}) = 0
    BY <1>3, FS_CardinalityType, FS_EmptySet
  <2> QED
    BY <2>3, <2>4, <2>5 DEF Total
<1>5. h \in [S -> Seq(Packets)] /\ h[x] = g /\ \A y \in R : h[y] = f[y]
  BY DEF Changed
<1>6. Total(f) = Cardinality(UNION rest) + Nb(f[x]) /\ Total(h) = Cardinality(UNION rest) + Nb(g)
  BY <1>4, <1>5
<1>7. Cardinality(UNION rest) \in Nat /\ Nb(f[x]) \in Nat /\ Nb(g) \in Nat
  BY <1>3, FS_CardinalityType, NbCounts
<1> QED
  BY <1>6, <1>7

\* ... and when the queue is emptied.
LEMMA HeldEmptied ==
  ASSUME NEW S, IsFiniteSet(S), NEW f, f \in [S -> Seq(Packets)], NEW x \in S, NEW k, Changed(f, x, << >>, k)
  PROVE  Total(f) \in Nat /\ Total(k) \in Nat /\ Total(k) + Nb(f[x]) = Total(f)
<1>0. << >> \in Seq(Packets)
  OBVIOUS
<1>1. PICK e : e = << >> /\ e \in Seq(Packets)
  BY <1>0
<1>2. Changed(f, x, e, k) /\ e \in Seq(Packets)
  BY <1>1
<1>3. Total(f) \in Nat /\ Total(k) \in Nat /\ Total(k) + Nb(f[x]) = Total(f) + Nb(e)
  BY <1>2, HeldChange
<1>4. Nb(e) = 0
  BY <1>1, NbNone
<1> QED
  BY <1>3, <1>4

LEMMA HeldNat ==
  ASSUME NEW S, IsFiniteSet(S), NEW f \in [S -> Seq(Packets)]
  PROVE  Total(f) \in Nat
<1>1. CASE S = {}
  <2>1. Held(f) = {}
    BY <1>1 DEF Held
  <2> QED
    BY <2>1, FS_EmptySet DEF Total
<1>2. CASE S # {}
  <2>1. PICK x \in S : TRUE
    BY <1>2
  <2>2. f[x] \in Seq(Packets) /\ Changed(f, x, f[x], f)
    BY DEF Changed
  <2> QED
    BY <2>2, HeldChange
<1> QED
  BY <1>1, <1>2

(***************************************************************************)
(* Where the buffers are.  Before the first close, a source with packets   *)
(* in hand has a slot to give them back to.                                *)
(***************************************************************************)
MbufTypes ==
  /\ freeq \in [UdpQueues -> Seq(Packets \ {NIL})]
  /\ pool \in Nat /\ kept \in Nat /\ lost \in Nat /\ count \in [Kinds -> Nat]

SlotKept(s) ==
  /\ at[s] \in Putting => cur[s] \in UdpQueues
  /\ count["close"] = 0 =>
       /\ hand[s] # << >> => open[s] /\ handle[s] # -1
       /\ at[s] \in {"nic", "flow"} => ~open[s]
       /\ at[s] \in Getting => open[s] /\ handle[s] # -1

Counted == pool + kept + lost + Total(recvq) + Total(freeq) + Total(hand) = Pool

MbufInv ==
  MbufTypes /\ Counted /\ (count["close"] = 0 => lost = 0) /\ \A s \in Sources : SlotKept(s)

CountKept == count' \in [Kinds -> Nat] /\ (count'["close"] = 0 => count["close"] = 0)

LEMMA FifosFinite ==
  /\ IsFiniteSet(UdpQueues) /\ IsFiniteSet(Sources) /\ Pool \in Nat
  /\ \A p \in Packets : p # NIL => p \in Packets \ {NIL}
<1>1. 2 \in Int /\ Queues - 1 \in Int
  BY FlowAssumption
<1>2. IsFiniteSet(UdpQueues)
  BY <1>1, FS_Interval DEF UdpQueues
<1> QED
  BY <1>2, FlowAssumption

LEMMA FifosCounted ==
  ASSUME FlowTypes, MbufTypes
  PROVE  /\ Total(recvq) \in Nat /\ Total(freeq) \in Nat /\ Total(hand) \in Nat
         /\ freeq \in [UdpQueues -> Seq(Packets)]
<1>1. \A q \in UdpQueues : freeq[q] \in Seq(Packets)
  BY NbAll DEF MbufTypes
<1>2. freeq \in [UdpQueues -> Seq(Packets)]
  BY <1>1 DEF MbufTypes
<1> QED
  BY <1>2, FifosFinite, HeldNat DEF FlowTypes

LEMMA TroubleCounts ==
  ASSUME MbufTypes, UNCHANGED count \/ \E k \in Kinds : Trouble(k)
  PROVE  CountKept
<1>1. count \in [Kinds -> Nat] /\ "close" \in Kinds
  BY DEF MbufTypes, Kinds
<1>2. CASE UNCHANGED count
  BY <1>1, <1>2 DEF CountKept
<1>3. ASSUME NEW k \in Kinds, Trouble(k) PROVE CountKept
  <2>1. count' = [count EXCEPT ![k] = @ + 1]
    BY <1>3 DEF Trouble
  <2>2. count' \in [Kinds -> Nat] /\ (count'["close"] = count["close"] \/ count'["close"] = count["close"] + 1)
    BY <1>1, <2>1
  <2> QED
    BY <1>1, <2>2 DEF CountKept
<1> QED
  BY <1>2, <1>3

LEMMA SlotSame ==
  ASSUME NEW s \in Sources, SlotKept(s), CountKept,
         at'[s] \in Putting => at[s] \in Putting, at'[s] \in Getting => at[s] \in Getting,
         at'[s] \in {"nic", "flow"} => at[s] \in {"nic", "flow"},
         cur'[s] = cur[s], hand'[s] = hand[s], open'[s] = open[s], handle'[s] = handle[s]
  PROVE  SlotKept(s)'
BY DEF SlotKept, CountKept

\* A step that moves no packet.
LEMMA NoneMoved ==
  ASSUME MbufInv, UNCHANGED <<recvq, freeq, pool, kept, lost, hand>>, CountKept,
         \A s \in Sources : SlotKept(s)'
  PROVE  MbufInv'
<1>1. MbufTypes' /\ (count'["close"] = 0 => lost' = 0)
  BY DEF MbufInv, MbufTypes, CountKept
<1>2. Counted'
  BY DEF MbufInv, Counted
<1> QED
  BY <1>1, <1>2 DEF MbufInv

\* The source that is answered loses the buffers it had in hand.
LEMMA AnswerCounts ==
  ASSUME EgelFlowInv, MbufInv, NEW s \in Sources, NEW q \in UdpQueues \cup {-1}, Answer(s, q),
         at[s] \in {"nic", "flow"}, UNCHANGED <<recvq, freeq, pool, kept>>, CountKept
  PROVE  MbufInv'
<1>1. FlowTypes /\ MbufTypes /\ Counted /\ \A t \in Sources : SlotKept(t)
  BY DEF EgelFlowInv, MbufInv
<1>2. /\ at' = [at EXCEPT ![s] = "out"] /\ open' = [open EXCEPT ![s] = TRUE]
      /\ handle' = [handle EXCEPT ![s] = q] /\ hand' = [hand EXCEPT ![s] = << >>]
      /\ cur' = cur /\ lost' = lost + Nb(hand[s])
  BY DEF Answer, Nb
<1>3. /\ at'[s] = "out" /\ hand'[s] = << >>
      /\ \A t \in Sources : t # s => /\ at'[t] = at[t] /\ handle'[t] = handle[t] /\ hand'[t] = hand[t]
                                     /\ open'[t] = open[t] /\ cur'[t] = cur[t]
  BY <1>1, <1>2 DEF FlowTypes
<1>4. ASSUME NEW t \in Sources PROVE SlotKept(t)'
  <2>1. CASE t = s
    BY <1>3, <2>1 DEF SlotKept, Putting, Getting
  <2>2. CASE t # s
    BY <1>1, <1>3, <2>2, SlotSame
  <2> QED
    BY <2>1, <2>2
<1>5. hand \in [Sources -> Seq(Packets)] /\ << >> \in Seq(Packets)
  BY <1>1 DEF FlowTypes
<1>6. Total(hand') + Nb(hand[s]) = Total(hand) /\ Total(hand) \in Nat /\ Total(hand') \in Nat
  <2>1. Changed(hand, s, << >>, hand')
    BY <1>2 DEF Changed
  <2> QED
    BY <1>5, <2>1, FifosFinite, HeldEmptied
<1>7. Nb(hand[s]) \in Nat /\ Nb(<< >>) = 0
  BY <1>5, NbCounts, NbNone
<1>8. lost \in Nat /\ pool \in Nat /\ kept \in Nat /\ Total(recvq) \in Nat /\ Total(freeq) \in Nat
  BY <1>1, FifosCounted DEF MbufTypes
<1>9. pool + kept + (lost + Nb(hand[s])) + Total(recvq) + Total(freeq) + Total(hand') = Pool
  BY <1>1, <1>6, <1>7, <1>8 DEF Counted
<1>10. Counted'
  BY <1>2, <1>9 DEF Counted
<1>11. count'["close"] = 0 => lost' = 0
  <2>1. SUFFICES ASSUME count'["close"] = 0 PROVE lost' = 0
    OBVIOUS
  <2>2. count["close"] = 0
    BY <2>1 DEF CountKept
  <2>3. lost = 0 /\ hand[s] = << >>
    BY <1>1, <2>2 DEF MbufInv, SlotKept
  <2> QED
    BY <1>2, <1>7, <2>3
<1>12. MbufTypes'
  BY <1>1, <1>2, <1>7 DEF MbufTypes, CountKept
<1> QED
  BY <1>4, <1>10, <1>11, <1>12 DEF MbufInv

LEMMA MasterCounts ==
  ASSUME EgelFlowInv, MbufInv, EgelFlowInv',
         (\E s \in Sources : MasterNic(s)) \/ (\E s \in Sources : MasterFind(s))
           \/ MasterRule \/ MasterOpen \/ MasterUri \/ MasterTimer
  PROVE  MbufInv'
<1>1. FlowTypes /\ MbufTypes /\ MasterInv /\ \A t \in Sources : SlotKept(t)
  BY DEF EgelFlowInv, MbufInv
<1>2. UNCHANGED <<recvq, freeq, pool, kept>>
  BY DEF MasterNic, MasterFind, MasterRule, MasterOpen, MasterUri, MasterTimer, queueVars
<1>3. CountKept
  <2>1. UNCHANGED count \/ Trouble("failure")
    BY DEF MasterNic, MasterFind, MasterRule, MasterOpen, MasterUri, MasterTimer
  <2> QED
    BY <1>1, <2>1, TroubleCounts DEF Kinds
<1>4. ASSUME UNCHANGED <<lost, open, handle, hand, cur>>, UNCHANGED at
      PROVE  MbufInv'
  <2>1. \A t \in Sources : SlotKept(t)'
    BY <1>1, <1>3, <1>4, SlotSame
  <2> QED
    BY <1>2, <1>3, <1>4, <2>1, NoneMoved
<1>5. ASSUME NEW s \in Sources, MasterNic(s) PROVE MbufInv'
  <2>1. at[s] = "nic"
    BY <1>5 DEF MasterNic
  <2>2. CASE at' = [at EXCEPT ![s] = "flow"] /\ UNCHANGED <<lost, open, handle, hand, cur>>
    <3>1. at'[s] = "flow" /\ \A t \in Sources : t # s => at'[t] = at[t]
      BY <1>1, <2>2 DEF FlowTypes
    <3>2. ASSUME NEW t \in Sources PROVE SlotKept(t)'
      <4>1. /\ at'[t] \in Putting => at[t] \in Putting
            /\ at'[t] \in Getting => at[t] \in Getting
            /\ at'[t] \in {"nic", "flow"} => at[t] \in {"nic", "flow"}
        BY <2>1, <3>1 DEF Putting, Getting
      <4> QED
        BY <1>1, <1>3, <2>2, <4>1, SlotSame
    <3> QED
      BY <1>2, <1>3, <2>2, <3>2, NoneMoved
  <2>3. CASE Answer(s, -1)
    BY <1>2, <1>3, <2>1, <2>3, AnswerCounts
  <2> QED
    BY <1>5, <2>2, <2>3 DEF MasterNic
<1>6. ASSUME NEW s \in Sources, MasterFind(s) PROVE MbufInv'
  <2>1. at[s] = "flow"
    BY <1>6 DEF MasterFind
  <2>2. CASE UNCHANGED <<srcVars, lost>>
    BY <1>4, <2>2 DEF srcVars
  <2>3. CASE Answer(s, -1)
    BY <1>2, <1>3, <2>1, <2>3, AnswerCounts
  <2> QED
    BY <1>6, <2>2, <2>3 DEF MasterFind
<1>7. ASSUME NEW q \in UdpQueues \cup {-1}, master.step # "idle", Answer(master.s, q) PROVE MbufInv'
  <2>1. PICK s \in Sources : s = master.s /\ at[s] = "flow"
    BY <1>1, <1>7 DEF MasterInv
  <2> QED
    BY <1>2, <1>3, <1>7, <2>1, AnswerCounts
<1>8. CASE MasterRule
  <2>1. UNCHANGED <<srcVars, lost>> \/ Answer(master.s, -1)
    BY <1>8 DEF MasterRule
  <2>2. master.step # "idle"
    BY <1>8 DEF MasterRule
  <2> QED
    BY <1>4, <1>7, <2>1, <2>2 DEF srcVars
<1>9. CASE MasterOpen
  <2>1. UNCHANGED <<srcVars, lost>> \/ Answer(master.s, master.q)
    BY <1>9 DEF MasterOpen
  <2>2. master.step # "idle" /\ master.q \in UdpQueues
    BY <1>1, <1>9 DEF MasterOpen, MasterInv
  <2> QED
    BY <1>4, <1>7, <2>1, <2>2 DEF srcVars
<1>10. CASE MasterUri
  BY <1>4, <1>10 DEF MasterUri, srcVars, queueVars
<1>11. CASE MasterTimer
  <2>1. master.step # "idle" /\ master.q \in UdpQueues
    BY <1>1, <1>11 DEF MasterTimer, MasterInv
  <2>2. Answer(master.s, master.q)
    BY <1>11 DEF MasterTimer
  <2> QED
    BY <1>7, <2>1, <2>2
<1> QED
  BY <1>5, <1>6, <1>8, <1>9, <1>10, <1>11

\* A packet of the card takes a buffer of the pool, if it is put on a queue, and those
\* given back go back to the pool.
LEMMA FlowUdpCounts ==
  ASSUME FlowTypes, MbufTypes, Counted, NEW q \in UdpQueues, NEW p \in Packets, p # NIL, NEW odd \in BOOLEAN,
         pool > 0, FlowUdp(q, p, odd), UNCHANGED <<kept, lost, hand>>
  PROVE  /\ freeq' \in [UdpQueues -> Seq(Packets \ {NIL})] /\ pool' \in Nat /\ Counted'
         /\ at' = at \/ Woken(q)
<1>1. /\ recvq \in [UdpQueues -> Seq(Packets)] /\ recvq[q] \in Seq(Packets) /\ NIL \in Packets
      /\ freeq \in [UdpQueues -> Seq(Packets \ {NIL})] /\ freeq[q] \in Seq(Packets \ {NIL}) /\ pool \in Nat
      /\ freeq \in [UdpQueues -> Seq(Packets)]
  BY FifosCounted DEF FlowTypes, MbufTypes, Packets
<1>2. /\ Total(recvq) \in Nat /\ Total(freeq) \in Nat /\ Total(hand) \in Nat
      /\ pool \in Nat /\ kept \in Nat /\ lost \in Nat
  BY FifosCounted DEF MbufTypes
<1>3. CASE odd /\ ~(Len(recvq[q]) < Slots)
  <2>1. UNCHANGED <<recvq, freeq, pool, at>>
    BY <1>3 DEF FlowUdp
  <2> QED
    BY <1>1, <2>1 DEF Counted
<1>4. CASE ~(odd /\ ~(Len(recvq[q]) < Slots))
  <2> DEFINE room == Len(recvq[q]) < Slots
             taken == room /\ ~odd
  <2>1. /\ recvq' = [recvq EXCEPT ![q] = IF room THEN Append(@, IF odd THEN NIL ELSE p) ELSE @]
        /\ freeq' = [freeq EXCEPT ![q] = << >>] /\ pool' = PoolAfter(q, taken) /\ Woken(q)
    BY <1>4 DEF FlowUdp
  <2> DEFINE put == IF room THEN Append(recvq[q], IF odd THEN NIL ELSE p) ELSE recvq[q]
             one == IF taken THEN 1 ELSE 0
  <2>2. put \in Seq(Packets) /\ Nb(put) = Nb(recvq[q]) + one /\ Nb(recvq[q]) \in Nat
    <3>1. Nb(recvq[q]) \in Nat
      BY <1>1, NbCounts
    <3>2. CASE ~room
      BY <1>1, <3>1, <3>2
    <3>3. CASE room /\ odd
      <4>1. put = Append(recvq[q], NIL) /\ one = 0
        BY <3>3
      <4> QED
        BY <1>1, <3>1, <4>1, NbAppend
    <3>4. CASE room /\ ~odd
      <4>1. put = Append(recvq[q], p) /\ one = 1
        BY <3>4
      <4> QED
        BY <1>1, <3>1, <4>1, NbAppend
    <3> QED
      BY <3>2, <3>3, <3>4
  <2>3. pool' = pool - one + Len(freeq[q]) /\ Len(freeq[q]) \in Nat /\ one \in {0, 1}
    BY <1>1, <2>1 DEF PoolAfter
  <2>4. recvq' = [recvq EXCEPT ![q] = put]
    BY <2>1
  <2> HIDE DEF put, one, room, taken
  <2>5. Total(recvq') + Nb(recvq[q]) = Total(recvq) + Nb(put) /\ Total(recvq') \in Nat
    <3>1. Changed(recvq, q, put, recvq')
      BY <2>4 DEF Changed
    <3> QED
      BY <1>1, <2>2, <3>1, FifosFinite, HeldChange
  <2>6. Total(freeq') + Nb(freeq[q]) = Total(freeq) /\ Total(freeq') \in Nat
    <3>1. Changed(freeq, q, << >>, freeq')
      BY <2>1 DEF Changed
    <3> QED
      BY <1>1, <3>1, FifosFinite, HeldEmptied
  <2>7. Nb(freeq[q]) = Len(freeq[q])
    BY <1>1, NbAll
  <2>8. pool' \in Nat
    BY <1>1, <2>3
  <2>9. pool' + kept + lost + Total(recvq') + Total(freeq') + Total(hand) = Pool
    <3>1. PICK a \in Nat, b \in Nat, c \in Nat, d \in Nat : a = Total(recvq') /\ b = Total(freeq') /\ c = Nb(recvq[q]) /\ d = Len(freeq[q])
      BY <2>2, <2>3, <2>5, <2>6
    <3>2. a + c = Total(recvq) + (c + one) /\ b + d = Total(freeq) /\ pool' = pool - one + d
      BY <2>2, <2>3, <2>5, <2>6, <2>7, <3>1
    <3>3. pool + kept + lost + Total(recvq) + Total(freeq) + Total(hand) = Pool
      BY DEF Counted
    <3>4. (pool - one + d) + kept + lost + a + b + Total(hand) = Pool
      BY <1>2, <2>3, <3>2, <3>3, SMTT(30)
    <3> QED
      BY <3>1, <3>2, <3>4
  <2>10. Counted'
    BY <2>9 DEF Counted
  <2>11. freeq' \in [UdpQueues -> Seq(Packets \ {NIL})]
    <3>1. << >> \in Seq(Packets \ {NIL})
      OBVIOUS
    <3> QED
      BY <1>1, <2>1, <3>1
  <2> QED
    BY <2>1, <2>8, <2>10, <2>11
<1> QED
  BY <1>3, <1>4

LEMMA CoreCounts ==
  ASSUME EgelFlowInv, MbufInv, Core
  PROVE  MbufInv'
<1>1. FlowTypes /\ MbufTypes /\ Counted /\ (count["close"] = 0 => lost = 0) /\ \A t \in Sources : SlotKept(t)
  BY DEF EgelFlowInv, MbufInv
<1>2. UNCHANGED <<open, handle, cur, hand, lost>>
  BY DEF Core, CorePacket, CoreQuery, CoreFire, CoreReport, CoreAfter, CoreEnd, srcVars, queueVars
<1>3. CountKept
  <2>1. UNCHANGED count \/ Trouble("query") \/ Trouble("odd packet")
    BY DEF Core, CorePacket, CoreQuery, CoreFire, CoreReport, CoreAfter, CoreEnd
  <2> QED
    BY <1>1, <2>1, TroubleCounts DEF Kinds
<1>4. /\ Total(recvq) \in Nat /\ Total(freeq) \in Nat /\ Total(hand) \in Nat
      /\ pool \in Nat /\ kept \in Nat /\ lost \in Nat
  BY <1>1, FifosCounted DEF MbufTypes
<1>5. ASSUME at' = at \/ \E q \in UdpQueues : Woken(q), MbufTypes', Counted' PROVE MbufInv'
  <2>1. ASSUME NEW t \in Sources PROVE SlotKept(t)'
    <3>1. /\ at'[t] \in Putting => at[t] \in Putting
          /\ at'[t] \in Getting => at[t] \in Getting
          /\ at'[t] \in {"nic", "flow"} => at[t] \in {"nic", "flow"}
      BY <1>5 DEF Woken, Putting, Getting
    <3> QED
      BY <1>1, <1>2, <1>3, <3>1, SlotSame
  <2>2. count'["close"] = 0 => lost' = 0
    BY <1>1, <1>2, <1>3 DEF CountKept
  <2> QED
    BY <1>5, <2>1, <2>2 DEF MbufInv
<1>6. ASSUME UNCHANGED <<at, recvq, freeq, pool, kept>> PROVE MbufInv'
  <2>1. MbufTypes'
    BY <1>1, <1>2, <1>3, <1>6 DEF MbufTypes, CountKept
  <2>2. Counted'
    BY <1>1, <1>2, <1>6 DEF Counted
  <2> QED
    BY <1>5, <1>6, <2>1, <2>2
\* The messages of IGMP that are kept.
<1>7. ASSUME NEW n \in Nat, n <= pool, UNCHANGED <<at, recvq, freeq>>, kept' = kept + n, pool' = pool - n
      PROVE  MbufInv'
  <2>1. pool' \in Nat /\ kept' \in Nat
    BY <1>4, <1>7
  <2>2. MbufTypes'
    BY <1>1, <1>2, <1>3, <1>7, <2>1 DEF MbufTypes, CountKept
  <2>3. pool' + kept' + lost + Total(recvq) + Total(freeq) + Total(hand) = Pool
    BY <1>1, <1>4, <1>7 DEF Counted
  <2>4. Counted'
    BY <1>2, <1>7, <2>3 DEF Counted
  <2> QED
    BY <1>5, <1>7, <2>2, <2>4
<1>8. ASSUME NEW s \in Sources, CorePacket(s) PROVE MbufInv'
  <2>1. kept' = kept
    BY <1>8 DEF CorePacket
  <2>2. CASE UNCHANGED <<recvq, freeq, pool, at, crashed>>
    BY <1>6, <2>1, <2>2
  <2>3. ASSUME NEW odd \in BOOLEAN, NEW rule \in rules, pool > 0, FlowUdp(rule[2], <<s, sent[s] + 1>>, odd)
        PROVE  MbufInv'
    <3>1. PICK q \in UdpQueues : q = rule[2]
      BY <1>1 DEF FlowTypes
    <3>2. PICK p \in Packets : p = <<s, sent[s] + 1>> /\ p # NIL
      <4>1. sent[s] \in Nat
        BY <1>1 DEF FlowTypes
      <4>2. <<s, sent[s] + 1>> \in Packets /\ sent[s] + 1 # 0
        BY <4>1 DEF Packets
      <4>3. <<s, sent[s] + 1>> # NIL
        BY <4>2 DEF NIL
      <4> QED
        BY <4>2, <4>3
    <3>3. FlowUdp(q, p, odd)
      BY <2>3, <3>1, <3>2
    <3>4. /\ freeq' \in [UdpQueues -> Seq(Packets \ {NIL})] /\ pool' \in Nat /\ Counted'
          /\ at' = at \/ Woken(q)
      BY <1>1, <1>2, <2>1, <2>3, <3>2, <3>3, FlowUdpCounts
    <3>5. MbufTypes'
      BY <1>2, <1>3, <1>4, <2>1, <3>4 DEF MbufTypes, CountKept
    <3> QED
      BY <1>5, <3>4, <3>5
  <2> QED
    BY <1>8, <2>2, <2>3 DEF CorePacket
<1>9. CASE CoreReport
  <2>1. PICK n \in {0, 1} : n = Message(core.q, "report")
    BY DEF Message
  <2>2. CASE pool <= n
    BY <1>6, <1>9, <2>1, <2>2 DEF CoreReport, srcVars
  <2>3. CASE ~(pool <= n)
    <3>1. kept' = kept + n /\ pool' = pool - n /\ UNCHANGED <<at, recvq, freeq>>
      BY <1>9, <2>1, <2>3 DEF CoreReport, srcVars
    <3> QED
      BY <1>4, <1>7, <2>3, <3>1
  <2> QED
    BY <2>2, <2>3
<1>10. CASE CoreEnd
  <2> DEFINE left == {q \in UdpQueues : flow[q].set /\ flow[q].addr \in Multicast}
  <2>1. IsFiniteSet(left)
    BY FifosFinite, FS_Subset
  <2>2. PICK n \in Nat : n = Cardinality(left) /\ (left = {} => n = 0)
    BY <2>1, FS_CardinalityType, FS_EmptySet
  <2>3. /\ UNCHANGED <<at, recvq, freeq>> /\ crashed' = (left # {} /\ pool <= n)
        /\ IF crashed' THEN UNCHANGED <<kept, pool>> ELSE kept' = kept + n /\ pool' = pool - n
    BY <1>10, <2>2 DEF CoreEnd, srcVars
  <2> HIDE DEF left
  <2>4. CASE left # {} /\ pool <= n
    BY <1>6, <2>3, <2>4
  <2>5. CASE ~(left # {} /\ pool <= n)
    <3>1. n <= pool
      BY <1>4, <2>2, <2>5
    <3>2. kept' = kept + n /\ pool' = pool - n
      BY <2>3, <2>5
    <3> QED
      BY <1>7, <2>3, <3>1, <3>2
  <2> QED
    BY <2>4, <2>5
<1>11. CASE (\E group \in Multicast \cup {NONE}, mrt \in Mrts : CoreQuery(group, mrt))
            \/ (\E q \in UdpQueues : CoreFire(q)) \/ CoreAfter
  BY <1>6, <1>11 DEF CoreQuery, CoreFire, CoreAfter, queueVars, srcVars
<1> QED
  BY <1>8, <1>9, <1>10, <1>11 DEF Core

\* A burst takes buffers from the queue of the source.
LEMMA ReadBurstCounts ==
  ASSUME EgelFlowInv, MbufInv, NEW s \in Sources, ReadBurst(s)
  PROVE  MbufInv'
<1>1. FlowTypes /\ MbufTypes /\ Counted /\ (\A t \in Sources : SlotKept(t)) /\ SourceInv(s)
  BY DEF EgelFlowInv, MbufInv
<1>2. UNCHANGED <<freeq, pool, kept, lost, open, handle, count>>
  BY DEF ReadBurst
<1>3. CountKept
  BY <1>1, <1>2, TroubleCounts
<1> DEFINE q == IF at[s] = "get" THEN cur[s] ELSE handle[s]
<1>4. /\ at[s] \in {"out", "get"} /\ hand[s] = << >> /\ q \in UdpQueues \cup {-1}
      /\ at[s] \notin Putting
      /\ q # -1 => q \in UdpQueues /\ (count["close"] = 0 => open[s] /\ handle[s] # -1)
  <2>1. CASE at[s] = "out" /\ open[s] /\ ptr[s] = 0
    <3>1. hand[s] = << >> /\ q = handle[s]
      BY <1>1, <2>1 DEF SourceInv, FlowTypes
    <3> QED
      BY <1>1, <2>1, <3>1 DEF Putting, FlowTypes
  <2>2. CASE at[s] = "get"
    <3>1. cur[s] \in UdpQueues /\ hand[s] = << >> /\ at[s] \in Getting
      BY <1>1, <2>2 DEF SourceInv, Getting
    <3> QED
      BY <1>1, <2>2, <3>1 DEF Putting, SlotKept
  <2> QED
    BY <2>1, <2>2 DEF ReadBurst
<1>5. CASE UNCHANGED <<at, cur, hand, recvq>>
  <2>1. \A t \in Sources : SlotKept(t)'
    BY <1>1, <1>2, <1>3, <1>5, SlotSame
  <2> QED
    BY <1>2, <1>3, <1>5, <2>1, NoneMoved
<1>6. ASSUME q # -1, at' = [at EXCEPT ![s] = "get doze"], cur' = [cur EXCEPT ![s] = q], UNCHANGED <<hand, recvq>>
      PROVE  MbufInv'
  <2>1. /\ at'[s] = "get doze" /\ \A t \in Sources : t # s => at'[t] = at[t] /\ cur'[t] = cur[t]
    BY <1>1, <1>6 DEF FlowTypes
  <2>2. SlotKept(s)'
    BY <1>2, <1>4, <1>6, <2>1 DEF SlotKept, Putting
  <2>3. ASSUME NEW t \in Sources, t # s PROVE SlotKept(t)'
    BY <1>1, <1>2, <1>3, <1>6, <2>1, <2>3, SlotSame
  <2> QED
    BY <1>2, <1>3, <1>6, <2>2, <2>3, NoneMoved
<1>7. ASSUME NEW n \in 1 .. NbPkts, q # -1,
             n = IF Len(recvq[q]) < NbPkts THEN Len(recvq[q]) ELSE NbPkts,
             hand' = [hand EXCEPT ![s] = SubSeq(recvq[q], 1, n)],
             recvq' = [recvq EXCEPT ![q] = SubSeq(@, n + 1, Len(@))],
             at' = [at EXCEPT ![s] = "have"], cur' = cur
      PROVE  MbufInv'
  <2>1. PICK r \in UdpQueues : r = q
    BY <1>4, <1>7
  <2> HIDE DEF q
  <2>2. PICK w \in Seq(Packets) : w = recvq[r]
    BY <1>1 DEF FlowTypes
  <2>3. n \in 1 .. Len(w)
    <3>1. n \in Nat /\ 1 <= n /\ Len(w) \in Nat /\ NbPkts \in Nat
      BY Limits
    <3> QED
      BY <1>7, <2>1, <2>2, <3>1
  <2>4. PICK b, c : b = SubSeq(w, 1, n) /\ c = SubSeq(w, n + 1, Len(w))
    OBVIOUS
  <2>5. b \in Seq(Packets) /\ c \in Seq(Packets) /\ Nb(b) + Nb(c) = Nb(w)
    BY <2>3, <2>4, NbSplit
  <2>6. hand' = [hand EXCEPT ![s] = b] /\ recvq' = [recvq EXCEPT ![r] = c]
    BY <1>7, <2>1, <2>2, <2>4
  <2>7. Total(recvq') + Nb(w) = Total(recvq) + Nb(c) /\ Total(recvq') \in Nat /\ Total(recvq) \in Nat
    <3>1. Changed(recvq, r, c, recvq') /\ recvq \in [UdpQueues -> Seq(Packets)]
      BY <1>1, <2>6 DEF Changed, FlowTypes
    <3>2. Total(recvq) \in Nat /\ Total(recvq') \in Nat /\ Total(recvq') + Nb(recvq[r]) = Total(recvq) + Nb(c)
      BY <2>5, <3>1, FifosFinite, HeldChange
    <3> QED
      BY <2>2, <3>2
  <2>8. Total(hand') = Total(hand) + Nb(b) /\ Total(hand') \in Nat /\ Total(hand) \in Nat
    <3>1. Changed(hand, s, b, hand') /\ hand \in [Sources -> Seq(Packets)]
      BY <1>1, <2>6 DEF Changed, FlowTypes
    <3>2. Total(hand) \in Nat /\ Total(hand') \in Nat /\ Total(hand') + Nb(hand[s]) = Total(hand) + Nb(b)
      BY <2>5, <3>1, FifosFinite, HeldChange
    <3>3. Nb(hand[s]) = 0
      BY <1>4, NbNone
    <3> QED
      BY <3>2, <3>3
  <2>9. Counted'
    <3>1. Nb(b) \in Nat /\ Nb(c) \in Nat /\ pool \in Nat /\ kept \in Nat /\ lost \in Nat /\ Total(freeq) \in Nat
      BY <1>1, <2>5, NbCounts, FifosCounted DEF MbufTypes
    <3>2. PICK a \in Nat, d \in Nat : a = Total(recvq') /\ d = Total(hand')
      BY <2>7, <2>8
    <3>3. a + Nb(b) = Total(recvq) /\ d = Total(hand) + Nb(b)
      BY <2>5, <2>7, <2>8, <3>1, <3>2, SMTT(30)
    <3>4. pool + kept + lost + Total(recvq) + Total(freeq) + Total(hand) = Pool
      BY <1>1 DEF Counted
    <3>5. pool + kept + lost + a + Total(freeq) + d = Pool
      <4>1. PICK e \in Nat, x \in Nat, y \in Nat, z \in Nat :
              e = Nb(b) /\ x = Total(recvq) /\ y = Total(hand) /\ z = Total(freeq)
        BY <2>7, <2>8, <3>1
      <4>2. x = a + e /\ d = y + e
        BY <3>3, <4>1
      <4>3. PICK k \in Nat : k = pool + kept + lost
        BY <3>1
      <4>4. k + x + z + y = Pool
        BY <3>4, <4>1, <4>3
      <4>5. k + a + z + d = k + x + z + y
        BY <4>2
      <4> QED
        BY <4>1, <4>3, <4>4, <4>5
    <3> QED
      BY <1>2, <3>2, <3>5 DEF Counted
  <2>10. /\ at'[s] = "have" /\ \A t \in Sources : t # s => at'[t] = at[t] /\ hand'[t] = hand[t]
    BY <1>1, <1>7, <2>6 DEF FlowTypes
  <2>11. SlotKept(s)'
    BY <1>2, <1>4, <1>7, <2>10 DEF SlotKept, Putting, Getting
  <2>12. ASSUME NEW t \in Sources, t # s PROVE SlotKept(t)'
    BY <1>1, <1>2, <1>3, <1>7, <2>10, <2>12, SlotSame
  <2>13. MbufTypes' /\ (count'["close"] = 0 => lost' = 0)
    BY <1>1, <1>2 DEF MbufTypes, MbufInv
  <2> QED
    BY <2>9, <2>11, <2>12, <2>13 DEF MbufInv
<1> QED
  BY <1>5, <1>6, <1>7 DEF ReadBurst

\* The buffer of the packet that is read goes back on the freeq, or, once the source
\* is closed, to no one.
LEMMA ReadPacketCounts ==
  ASSUME EgelFlowInv, MbufInv, NEW s \in Sources, ReadPacket(s)
  PROVE  MbufInv'
<1>1. FlowTypes /\ MbufTypes /\ Counted /\ (\A t \in Sources : SlotKept(t)) /\ SourceInv(s)
  BY DEF EgelFlowInv, MbufInv
<1>2. UNCHANGED <<recvq, pool, kept, open, handle, count>> /\ at[s] \in {"have", "put"}
  BY DEF ReadPacket
<1>3. CountKept
  BY <1>1, <1>2, TroubleCounts
<1> DEFINE q == IF at[s] = "put" THEN cur[s] ELSE handle[s]
           full == q # -1 /\ Len(freeq[q]) = Slots
<1>4. q \in UdpQueues \cup {-1} /\ (count["close"] = 0 => q # -1) /\ hand[s] # << >>
  <2>1. hand[s] # << >>
    BY <1>1, <1>2 DEF SourceInv, Putting
  <2>2. CASE at[s] = "put"
    <3>1. q = cur[s] /\ cur[s] \in UdpQueues
      BY <1>1, <2>2 DEF SlotKept, Putting
    <3>2. q # -1
      BY <3>1, Limits
    <3> QED
      BY <2>1, <3>1, <3>2
  <2>3. CASE at[s] = "have"
    BY <1>1, <2>1, <2>3 DEF SlotKept, FlowTypes
  <2> QED
    BY <1>2, <2>1, <2>2, <2>3
<1>5. CASE Head(hand[s]) = NIL
  <2>1. UNCHANGED <<at, cur, hand, freeq, lost>>
    BY <1>5 DEF ReadPacket
  <2>2. \A t \in Sources : SlotKept(t)'
    BY <1>1, <1>2, <1>3, <2>1, SlotSame
  <2> QED
    BY <1>2, <1>3, <2>1, <2>2, NoneMoved
<1>6. CASE Head(hand[s]) # NIL /\ full
  <2>1. at' = [at EXCEPT ![s] = "put doze"] /\ cur' = [cur EXCEPT ![s] = q] /\ UNCHANGED <<hand, freeq, lost>>
    BY <1>6 DEF ReadPacket
  <2>2. q \in UdpQueues /\ at'[s] = "put doze" /\ cur'[s] = q /\ \A t \in Sources : t # s => at'[t] = at[t] /\ cur'[t] = cur[t]
    BY <1>1, <1>4, <1>6, <2>1 DEF FlowTypes
  <2>3. SlotKept(s)'
    <3>1. hand'[s] # << >> /\ count'["close"] = 0 => open'[s] /\ handle'[s] # -1
      BY <1>1, <1>2, <2>1 DEF SlotKept
    <3> QED
      BY <2>2, <3>1 DEF SlotKept, Getting
  <2>4. ASSUME NEW t \in Sources, t # s PROVE SlotKept(t)'
    BY <1>1, <1>2, <1>3, <2>1, <2>2, <2>4, SlotSame
  <2> QED
    BY <1>2, <1>3, <2>1, <2>3, <2>4, NoneMoved
<1>7. CASE Head(hand[s]) # NIL /\ ~full
  <2>1. /\ at' = [at EXCEPT ![s] = "out"] /\ cur' = cur /\ hand' = [hand EXCEPT ![s] = Tail(@)]
        /\ IF q = -1 THEN lost' = lost + 1 /\ freeq' = freeq
           ELSE freeq' = [freeq EXCEPT ![q] = Append(@, Head(hand[s]))] /\ lost' = lost
    BY <1>7 DEF ReadPacket
  <2> HIDE DEF q, full
  <2>2. PICK w \in Seq(Packets) : w = hand[s] /\ w # << >> /\ Head(w) # NIL
    BY <1>1, <1>4, <1>7 DEF FlowTypes
  <2>3. PICK p \in Packets : p = Head(w) /\ p # NIL
    BY <2>2, Rest
  <2>4. PICK c \in Seq(Packets) : c = Tail(w) /\ Nb(w) = Nb(c) + 1
    BY <2>2, NbTail
  <2>5. Total(hand) = Total(hand') + 1 /\ Total(hand) \in Nat /\ Total(hand') \in Nat
    <3>1. Changed(hand, s, c, hand') /\ hand \in [Sources -> Seq(Packets)]
      BY <1>1, <2>1, <2>2, <2>4 DEF Changed, FlowTypes
    <3>2. Total(hand) \in Nat /\ Total(hand') \in Nat /\ Total(hand') + Nb(hand[s]) = Total(hand) + Nb(c)
      BY <3>1, FifosFinite, HeldChange
    <3>3. Nb(c) \in Nat
      BY NbCounts
    <3> QED
      BY <2>2, <2>4, <3>2, <3>3
  <2>6. pool \in Nat /\ kept \in Nat /\ lost \in Nat /\ Total(recvq) \in Nat /\ Total(freeq) \in Nat
    BY <1>1, FifosCounted DEF MbufTypes
  <2>7. /\ at'[s] = "out" /\ hand'[s] = c
        /\ \A t \in Sources : t # s => at'[t] = at[t] /\ hand'[t] = hand[t]
    BY <1>1, <2>1, <2>2, <2>4 DEF FlowTypes
  <2>8. SlotKept(s)'
    <3>1. count'["close"] = 0 => open'[s] /\ handle'[s] # -1
      BY <1>1, <1>2, <1>4 DEF SlotKept
    <3> QED
      BY <2>7, <3>1 DEF SlotKept, Putting, Getting
  <2>9. ASSUME NEW t \in Sources, t # s PROVE SlotKept(t)'
    BY <1>1, <1>2, <1>3, <2>1, <2>7, <2>9, SlotSame
  <2>10. pool + kept + lost + Total(recvq) + Total(freeq) + (Total(hand') + 1) = Pool
    BY <1>1, <2>5 DEF Counted
  <2>11. CASE q = -1
    <3>1. lost' = lost + 1 /\ freeq' = freeq
      BY <2>1, <2>11
    <3>2. pool + kept + (lost + 1) + Total(recvq) + Total(freeq) + Total(hand') = Pool
      BY <2>5, <2>6, <2>10
    <3>3. Counted'
      BY <1>2, <3>1, <3>2 DEF Counted
    <3>4. MbufTypes' /\ (count'["close"] = 0 => lost' = 0)
      BY <1>1, <1>2, <1>4, <2>6, <2>11, <3>1 DEF MbufTypes
    <3> QED
      BY <2>8, <2>9, <3>3, <3>4 DEF MbufInv
  <2>12. CASE q # -1
    <3>1. PICK r \in UdpQueues : r = q
      BY <1>4, <2>12
    <3>2. freeq' = [freeq EXCEPT ![r] = Append(@, p)] /\ lost' = lost
      BY <2>1, <2>2, <2>3, <2>12, <3>1
    <3>3. PICK f \in Seq(Packets \ {NIL}) : f = freeq[r] /\ freeq \in [UdpQueues -> Seq(Packets \ {NIL})]
      BY <1>1 DEF MbufTypes
    <3>4. PICK g : g = Append(f, p) /\ g \in Seq(Packets \ {NIL})
      <4>1. p \in Packets \ {NIL}
        BY <2>3
      <4>2. Append(f, p) \in Seq(Packets \ {NIL})
        BY <4>1
      <4> QED
        BY <4>2
    <3>5. freeq' = [freeq EXCEPT ![r] = g]
      BY <3>2, <3>3, <3>4
    <3>6. Nb(g) = Nb(f) + 1 /\ Nb(f) \in Nat /\ g \in Seq(Packets)
      <4>1. f \in Seq(Packets) /\ g \in Seq(Packets)
        BY <3>3, <3>4, NbAll
      <4> QED
        BY <2>3, <3>4, <4>1, NbAppend, NbCounts
    <3>7. Total(freeq') = Total(freeq) + 1 /\ Total(freeq') \in Nat
      <4>1. Changed(freeq, r, g, freeq') /\ freeq \in [UdpQueues -> Seq(Packets)]
        BY <1>1, <3>5, FifosCounted DEF Changed
      <4>2. Total(freeq) \in Nat /\ Total(freeq') \in Nat /\ Total(freeq') + Nb(freeq[r]) = Total(freeq) + Nb(g)
        BY <3>6, <4>1, FifosFinite, HeldChange, SMTT(30)
      <4> QED
        BY <3>3, <3>6, <4>2
    <3>8. pool + kept + lost + Total(recvq) + Total(freeq') + Total(hand') = Pool
      BY <2>5, <2>6, <2>10, <3>7
    <3>9. Counted'
      BY <1>2, <3>2, <3>8 DEF Counted
    <3>10. MbufTypes' /\ (count'["close"] = 0 => lost' = 0)
      <4>1. freeq' \in [UdpQueues -> Seq(Packets \ {NIL})]
        BY <3>3, <3>4, <3>5
      <4> QED
        BY <1>1, <1>2, <3>2, <4>1 DEF MbufTypes, MbufInv
    <3> QED
      BY <2>8, <2>9, <3>9, <3>10 DEF MbufInv
  <2> QED
    BY <2>11, <2>12
<1> QED
  BY <1>5, <1>6, <1>7

LEMMA SourceCounts ==
  ASSUME EgelFlowInv, MbufInv, NEW s \in Sources, ReadConfig(s) \/ ReadSleep(s) \/ ReadNext(s) \/ Close(s)
  PROVE  MbufInv'
<1>1. FlowTypes /\ MbufTypes /\ \A t \in Sources : SlotKept(t)
  BY DEF EgelFlowInv, MbufInv
<1>2. UNCHANGED <<recvq, freeq, pool, kept, lost, hand, cur>>
  BY DEF ReadConfig, ReadSleep, ReadNext, Close, queueVars
<1>3. CountKept
  <2>1. UNCHANGED count \/ Trouble("close")
    BY DEF ReadConfig, ReadSleep, ReadNext, Close
  <2> QED
    BY <1>1, <2>1, TroubleCounts DEF Kinds
<1>4. ASSUME ReadConfig(s) \/ ReadSleep(s) \/ ReadNext(s) PROVE MbufInv'
  <2>1. UNCHANGED <<open, handle, count>>
    BY <1>4 DEF ReadConfig, ReadSleep, ReadNext
  <2>2. PICK a \in {"nic", "have"} \cup Getting \cup Putting :
          /\ at' = [at EXCEPT ![s] = a] /\ (a \in Getting <=> at[s] \in Getting)
          /\ (a \in Putting <=> at[s] \in Putting) /\ (a = "nic" => ~open[s])
    <3>1. CASE ReadConfig(s)
      BY <3>1 DEF ReadConfig, Getting, Putting
    <3>2. CASE ReadSleep(s) /\ at[s] = "get doze"
      BY <3>2 DEF ReadSleep, Getting, Putting
    <3>3. CASE ReadSleep(s) /\ at[s] = "put doze"
      BY <3>3 DEF ReadSleep, Getting, Putting
    <3>4. CASE ReadNext(s)
      BY <3>4 DEF ReadNext, Getting, Putting
    <3> QED
      BY <1>4, <3>1, <3>2, <3>3, <3>4 DEF ReadSleep
  <2>3. at'[s] = a /\ (\A t \in Sources : t # s => at'[t] = at[t]) /\ a # "flow"
    BY <1>1, <2>2 DEF FlowTypes, Getting, Putting
  <2>4. SlotKept(s)'
    BY <1>1, <1>2, <2>1, <2>2, <2>3 DEF SlotKept
  <2>5. ASSUME NEW t \in Sources, t # s PROVE SlotKept(t)'
    BY <1>1, <1>2, <1>3, <2>1, <2>3, <2>5, SlotSame
  <2> QED
    BY <1>2, <1>3, <2>4, <2>5, NoneMoved
<1>5. CASE Close(s)
  <2>1. count' = [count EXCEPT !["close"] = @ + 1] /\ at' = at
    BY <1>5 DEF Close, Trouble
  <2>2. count'["close"] # 0
    <3>1. count["close"] \in Nat /\ count'["close"] = count["close"] + 1
      BY <1>1, <2>1 DEF MbufTypes, Kinds
    <3> QED
      BY <3>1
  <2>3. \A t \in Sources : SlotKept(t)'
    BY <1>1, <1>2, <2>1, <2>2 DEF SlotKept
  <2> QED
    BY <1>2, <1>3, <2>3, NoneMoved
<1> QED
  BY <1>4, <1>5

LEMMA MbufInit == Init => MbufInv
<1> SUFFICES ASSUME Init PROVE MbufInv
  OBVIOUS
<1>1. << >> \in Seq(Packets \ {NIL}) /\ Pool \in Nat
  BY FifosFinite
<1>2. MbufTypes
  BY <1>1 DEF Init, MbufTypes
<1>3. Total(recvq) = 0 /\ Total(freeq) = 0 /\ Total(hand) = 0
  <2>1. ASSUME NEW S, NEW f, f = [x \in S |-> << >>] PROVE Total(f) = 0
    <3>1. \A x \in S : {x} \X Buffers(f[x]) = {}
      BY <2>1, NbNone
    <3>2. Held(f) = {}
      BY <2>1, <3>1 DEF Held
    <3> QED
      BY <3>2, FS_EmptySet DEF Total
  <2> QED
    BY <2>1 DEF Init
<1>4. Counted
  BY <1>1, <1>3 DEF Init, Counted
<1>5. \A s \in Sources : SlotKept(s)
  BY DEF Init, SlotKept, Putting, Getting
<1> QED
  BY <1>2, <1>4, <1>5 DEF Init, MbufInv

LEMMA MbufStep ==
  ASSUME EgelFlowInv, MbufInv, [Next]_vars
  PROVE  MbufInv'
<1>1. MbufTypes /\ \A t \in Sources : SlotKept(t)
  BY DEF MbufInv
<1>2. ASSUME UNCHANGED <<recvq, freeq, pool, kept, lost, hand, count, at, open, handle, cur>> PROVE MbufInv'
  <2>1. CountKept
    BY <1>1, <1>2, TroubleCounts
  <2>2. \A t \in Sources : SlotKept(t)'
    BY <1>1, <1>2, <2>1, SlotSame
  <2> QED
    BY <1>2, <2>1, <2>2, NoneMoved
<1>3. CASE Master
  BY <1>3, MasterCounts, EgelFlowStep DEF Master
<1>4. CASE MasterExit
  BY <1>2, <1>4 DEF MasterExit, queueVars, srcVars
<1>5. CASE Core
  BY <1>5, CoreCounts
<1>6. ASSUME NEW s \in Sources, Source(s) PROVE MbufInv'
  BY <1>6, ReadBurstCounts, ReadPacketCounts, SourceCounts DEF Source
<1>7. CASE UNCHANGED vars
  BY <1>2, <1>7 DEF vars, queueVars, srcVars
<1> QED
  BY <1>3, <1>4, <1>5, <1>6, <1>7 DEF Next

\* Every buffer is in the pool, on a queue, with a source or kept for a message of IGMP,
\* whatever the card, the master thread and the sources do; without a close none is lost.
THEOREM BuffersAreKept == Spec => []MbufsKept
<1>1. EgelFlowInv /\ MbufInv /\ [Next]_vars => MbufInv'
  BY MbufStep
<1>2. MbufInv => MbufsKept
  BY DEF MbufInv, MbufTypes, Counted, Total, MbufsKept
<1> QED
  BY EgelFlowAlways, MbufInit, <1>1, <1>2, PTL DEF Spec

=============================================================================
