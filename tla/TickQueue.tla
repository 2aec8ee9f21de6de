----------------------------- MODULE TickQueue -----------------------------
(***************************************************************************)
(* The candle queue of LiveDataAdapter: two pools of preallocated nodes,   *)
(* the three rings between the network thread and the trading thread, the  *)
(* queue under m_mutex, and the wait of getNextCandle.                     *)
(*                                                                         *)
(* The message callback runs on the network thread and never takes         *)
(* m_mutex, so it interleaves with every step of getNextCandle, also       *)
(* between the test of its predicate and its sleep.  A LockFreeRingBuffer  *)
(* has one producer and one consumer here and is taken as a bounded        *)
(* sequence.  What a payload says is left out: a tick is its number in the *)
(* order of arrival.  The connection itself is modelled in LiveFeed.       *)
(* X_Y is X with one plausible mistake Y, which no action uses.            *)
(***************************************************************************)
EXTENDS Integers, FiniteSets, Sequences, SequencesExt

CONSTANTS
  LocalNodes,    \* m_tickPool, for candles pushed by the trading program
  NetworkNodes,  \* m_networkPool, for ticks from the network
  RingSlots,     \* Capacity of the rings, one more than they hold
  Timed,         \* whether callers give getNextCandle a time limit
  MaxTicks       \* bound on the candles and ticks of one connection

ASSUME PoolAssumption ==
  /\ LocalNodes \cap NetworkNodes = {}
  /\ IsFiniteSet(LocalNodes) /\ IsFiniteSet(NetworkNodes)

ASSUME RingAssumption == RingSlots \in Nat /\ Cardinality(NetworkNodes) < RingSlots

ASSUME CallerAssumption == Timed \subseteq BOOLEAN /\ MaxTicks \in Nat

VARIABLES
  free,         \* m_freeNodes
  networkFree,  \* m_networkFree
  recycle,      \* m_networkRecycle
  ingress,      \* m_networkIngress
  queue,        \* m_queue
  tick,         \* what each node holds
  held,         \* the node the network thread works on, if any
  network,      \* where the network thread is
  reader,       \* where getNextCandle is
  timed,        \* its caller gave a time limit
  connected,    \* m_connected
  serving,      \* the network client runs
  arrived,      \* history: ticks and candles so far
  accepted,     \* history: the ticks that entered the ring or the queue, by pool
  delivered,    \* history: what getNextCandle returned, by pool
  abandoned     \* history: network nodes disconnect left behind

pools   == <<free, networkFree, recycle, ingress, queue, tick, held>>
history == <<arrived, accepted, delivered, abandoned>>
vars    == <<pools, network, reader, timed, connected, serving, history>>

Nodes == LocalNodes \cup NetworkNodes
Pools == {"local", "network"}

Pool(node) == IF node \in LocalNodes THEN "local" ELSE "network"

Room(ring) == Len(ring) < RingSlots - 1

(* A push whose result the code ignores.                                   *)
Push(ring, node) == IF Room(ring) THEN Append(ring, node) ELSE ring

(* Pushing one node after the other: those for which there is room.        *)
PushAll(ring, nodes) ==
  LET room == RingSlots - 1 - Len(ring)
  IN ring \o SubSeq(nodes, 1, IF Len(nodes) <= room THEN Len(nodes) ELSE room)

(* Stages of getNextCandle in which it holds m_mutex.                      *)
Locked == {"draining", "redraining", "testing", "blocking", "chosen", "taking"}

ReaderStages == {"idle", "pumping", "repumping", "waiting"} \cup Locked
NetworkStages == {"idle", "parsed", "refused", "notifying"}

(* Notifying wakes a reader that sleeps, and nobody else.                  *)
Notify == reader' = IF reader = "waiting" THEN "testing" ELSE reader

(***************************************************************************)
(* The message callback that connect installs.                             *)
(***************************************************************************)

(* A tick takes a free node, or is dropped when there is none.  A payload  *)
(* that is no tick has the node in its hands all the same.                 *)
Receive ==
  /\ serving /\ network = "idle"
  /\ arrived < MaxTicks
  /\ arrived' = arrived + 1
  /\ IF networkFree = <<>>
     THEN UNCHANGED <<networkFree, held, tick, network>>
     ELSE /\ held' = {Head(networkFree)}
          /\ networkFree' = Tail(networkFree)
          /\ tick' = [tick EXCEPT ![Head(networkFree)] = arrived']
          /\ network' \in {"parsed", "refused"}
  /\ UNCHANGED <<free, recycle, ingress, queue, reader, timed, connected, serving,
                 accepted, delivered, abandoned>>

Publish ==
  /\ network = "parsed"
  /\ \E node \in held :
       IF Room(ingress)
       THEN /\ ingress' = Append(ingress, node)
            /\ accepted' = [accepted EXCEPT !["network"] = @ \cup {tick[node]}]
            /\ network' = "notifying"
            /\ UNCHANGED recycle
       ELSE /\ recycle' = Push(recycle, node)
            /\ network' = "idle"
            /\ UNCHANGED <<ingress, accepted>>
  /\ held' = {}
  /\ UNCHANGED <<free, networkFree, queue, tick, reader, timed, connected, serving,
                 arrived, delivered, abandoned>>

Refuse_NodeForgotten ==
  /\ network = "refused"
  /\ network' = "idle" /\ held' = {}
  /\ UNCHANGED <<free, networkFree, recycle, ingress, queue, tick, reader, timed,
                 connected, serving, history>>

Refuse ==
  /\ network = "refused"
  /\ \E node \in held : recycle' = Push(recycle, node)
  /\ network' = "idle" /\ held' = {}
  /\ UNCHANGED <<free, networkFree, ingress, queue, tick, reader, timed, connected,
                 serving, history>>

NotifyReader ==
  /\ network = "notifying"
  /\ network' = "idle"
  /\ Notify
  /\ UNCHANGED <<pools, timed, connected, serving, history>>

(***************************************************************************)
(* pushSimulatedCandle, by the trading thread or by a harness thread.      *)
(***************************************************************************)
PushSimulatedCandle ==
  /\ reader \notin Locked
  /\ arrived < MaxTicks
  /\ arrived' = arrived + 1
  /\ IF free = {}
     THEN UNCHANGED <<free, queue, tick, accepted, reader>>
     ELSE \E node \in free :
            /\ free' = free \ {node}
            /\ tick' = [tick EXCEPT ![node] = arrived']
            /\ queue' = Append(queue, node)
            /\ accepted' = [accepted EXCEPT !["local"] = @ \cup {arrived'}]
            /\ Notify
  /\ UNCHANGED <<networkFree, recycle, ingress, held, network, timed, connected,
                 serving, delivered, abandoned>>

(***************************************************************************)
(* getNextCandle.                                                          *)
(***************************************************************************)
Step(from, to) == reader = from /\ reader' = to

GetNextCandle ==
  /\ Step("idle", "pumping")
  /\ timed' \in Timed
  /\ UNCHANGED <<pools, network, connected, serving, history>>

(* pumpNetworkIngress: refused nodes go back to the callback one by one,   *)
(* then, under the lock, the ring is emptied into the queue.               *)
Pump(pumping, draining) ==
  /\ IF recycle = <<>>
     THEN Step(pumping, draining) /\ UNCHANGED <<networkFree, recycle>>
     ELSE /\ Step(pumping, pumping)
          /\ networkFree' = Push(networkFree, Head(recycle))
          /\ recycle' = Tail(recycle)
  /\ UNCHANGED <<free, ingress, queue, tick, held, network, timed, connected, serving,
                 history>>

Drain_InFront(draining, next) ==
  /\ Step(draining, next)
  /\ queue' = ingress \o queue
  /\ ingress' = <<>>
  /\ UNCHANGED <<free, networkFree, recycle, tick, held, network, timed, connected,
                 serving, history>>

Drain(draining, next) ==
  /\ Step(draining, next)
  /\ queue' = queue \o ingress
  /\ ingress' = <<>>
  /\ UNCHANGED <<free, networkFree, recycle, tick, held, network, timed, connected,
                 serving, history>>

PumpNetworkIngress ==
  \/ Pump("pumping", "draining")
  \/ Drain("draining", "testing")
  \/ Pump("repumping", "redraining")
  \/ Drain("redraining", "taking")

HasData == queue # <<>> \/ ingress # <<>> \/ ~connected

Quietly == UNCHANGED <<pools, network, timed, connected, serving, history>>

Choose_UntilData ==
  /\ Step("chosen", IF queue = <<>> /\ ingress # <<>> THEN "repumping"
                   ELSE IF queue = <<>> THEN "testing" ELSE "taking")
  /\ Quietly

Choose ==
  /\ Step("chosen", IF queue = <<>> /\ ingress # <<>> THEN "repumping" ELSE "taking")
  /\ Quietly

Take_IntoOnePool ==
  /\ Step("taking", "idle")
  /\ IF queue = <<>>
     THEN UNCHANGED <<pools, delivered>>
     ELSE /\ queue' = Tail(queue)
          /\ free' = free \cup {Head(queue)}
          /\ delivered' = [delivered EXCEPT ![Pool(Head(queue))] =
                             Append(@, tick[Head(queue)])]
          /\ UNCHANGED <<networkFree, recycle, ingress, tick, held>>
  /\ UNCHANGED <<network, timed, connected, serving, arrived, accepted, abandoned>>

(* The node goes back to the pool it came from; without one the call       *)
(* returns nothing.                                                        *)
Take ==
  /\ Step("taking", "idle")
  /\ IF queue = <<>>
     THEN UNCHANGED <<pools, delivered>>
     ELSE LET node == Head(queue) IN
          /\ queue' = Tail(queue)
          /\ IF node \in LocalNodes
             THEN free' = free \cup {node} /\ UNCHANGED networkFree
             ELSE networkFree' = Push(networkFree, node) /\ UNCHANGED free
          /\ delivered' = [delivered EXCEPT ![Pool(node)] = Append(@, tick[node])]
          /\ UNCHANGED <<recycle, ingress, tick, held>>
  /\ UNCHANGED <<network, timed, connected, serving, arrived, accepted, abandoned>>

(* The wait: test, then sleep; a sleeper may also wake for no reason.      *)
Test == Step("testing", IF HasData THEN "chosen" ELSE "blocking") /\ Quietly

Block == Step("blocking", "waiting") /\ Quietly

Timeout == timed /\ Step("waiting", "chosen") /\ Quietly

SpuriousWake == Step("waiting", "testing") /\ Quietly

(***************************************************************************)
(* The connection.  The callback of a lost socket notifies nobody; a       *)
(* reconnection does.                                                      *)
(***************************************************************************)
Lose ==
  /\ serving /\ connected
  /\ connected' = FALSE
  /\ UNCHANGED <<pools, network, reader, timed, serving, history>>

Restore ==
  /\ serving /\ ~connected
  /\ connected' = TRUE
  /\ Notify
  /\ UNCHANGED <<pools, network, timed, serving, history>>

(* disconnect, by the thread that reads: the network thread was joined,    *)
(* the queue is cleared, and the rings are emptied into the free ring.     *)
Disconnect ==
  /\ reader = "idle" /\ network = "idle" /\ serving
  /\ serving' = FALSE /\ connected' = FALSE
  /\ queue' = <<>> /\ free' = LocalNodes
  /\ networkFree' = PushAll(networkFree, ingress \o recycle)
  /\ ingress' = <<>> /\ recycle' = <<>>
  /\ abandoned' = abandoned \cup (ToSet(queue) \cap NetworkNodes)
  /\ arrived' = 0
  /\ accepted' = [pool \in Pools |-> {}] /\ delivered' = [pool \in Pools |-> <<>>]
  /\ UNCHANGED <<tick, held, network, reader, timed>>

Connect ==
  /\ reader = "idle" /\ ~serving
  /\ serving' = TRUE /\ connected' = TRUE
  /\ UNCHANGED <<pools, network, reader, timed, history>>

(***************************************************************************)
(* The specification.                                                      *)
(***************************************************************************)
Init ==
  /\ free = LocalNodes
  /\ networkFree = SetToSeq(NetworkNodes)
  /\ recycle = <<>> /\ ingress = <<>> /\ queue = <<>> /\ held = {}
  /\ tick = [node \in Nodes |-> 0]
  /\ network = "idle" /\ reader = "idle" /\ timed \in Timed
  /\ connected = TRUE /\ serving = TRUE
  /\ arrived = 0 /\ abandoned = {}
  /\ accepted = [pool \in Pools |-> {}] /\ delivered = [pool \in Pools |-> <<>>]

Callback == Publish \/ Refuse \/ NotifyReader

Reading == PumpNetworkIngress \/ Test \/ Block \/ Timeout \/ Choose \/ Take

Next ==
  \/ Receive \/ Callback
  \/ PushSimulatedCandle
  \/ GetNextCandle \/ Reading \/ SpuriousWake
  \/ Lose \/ Restore \/ Disconnect \/ Connect

(* A thread inside a callback or inside getNextCandle goes on.  The limit  *)
(* of a call is one deadline however often the sleeper wakes, so it ends a *)
(* call that keeps going back to sleep.  No tick has to arrive and no      *)
(* caller has to call.                                                     *)
Fairness == WF_vars(Callback) /\ WF_vars(Reading) /\ SF_vars(Timeout)

Spec == Init /\ [][Next]_vars /\ Fairness

-----------------------------------------------------------------------------
(***************************************************************************)
(* Properties.                                                             *)
(***************************************************************************)

(* Every variable has its type; each pool keeps to its own nodes.          *)
TypeOK ==
  /\ free \subseteq LocalNodes /\ held \subseteq NetworkNodes
  /\ networkFree \in Seq(NetworkNodes) /\ recycle \in Seq(NetworkNodes)
  /\ ingress \in Seq(NetworkNodes) /\ queue \in Seq(Nodes)
  /\ tick \in [Nodes -> 0 .. MaxTicks]
  /\ network \in NetworkStages /\ reader \in ReaderStages
  /\ timed \in BOOLEAN /\ connected \in BOOLEAN /\ serving \in BOOLEAN
  /\ arrived \in 0 .. MaxTicks /\ abandoned \subseteq NetworkNodes
  /\ accepted \in [Pools -> SUBSET (1 .. MaxTicks)]
  /\ delivered \in [Pools -> Seq(1 .. MaxTicks)]

Places ==
  <<free, ToSet(networkFree), ToSet(recycle), ToSet(ingress), ToSet(queue), held, abandoned>>

(* Every node is in one place and in one only: none is handed to two ticks *)
(* at a time, and none is lost but those disconnect leaves in the queue.   *)
NodesConserved ==
  /\ IsInjective(networkFree) /\ IsInjective(recycle)
  /\ IsInjective(ingress) /\ IsInjective(queue)
  /\ \A i, j \in DOMAIN Places : i # j => Places[i] \cap Places[j] = {}
  /\ UNION ToSet(Places) = Nodes

Increasing(numbers) ==
  \A i, j \in DOMAIN numbers : i < j => numbers[i] < numbers[j]

(* What was accepted from either source is delivered once and in the order *)
(* of its arrival, and the rest is on its way, in that order and with the  *)
(* content it arrived with.                                                *)
TicksInOrder ==
  LET waiting == queue \o ingress IN
  \A pool \in Pools :
    LET due == {i \in DOMAIN waiting : Pool(waiting[i]) = pool}
        done == delivered[pool]
    IN /\ accepted[pool] = ToSet(done) \cup {tick[waiting[i]] : i \in due}
       /\ Increasing(done)
       /\ \A k \in DOMAIN done, i \in due : done[k] < tick[waiting[i]]
       /\ \A i, j \in due : i < j => tick[waiting[i]] < tick[waiting[j]]

(* getNextCandle with a time limit returns, whatever it misses.            *)
CallReturns == reader # "idle" ~> reader = "idle"

=============================================================================
