-------------------------- MODULE TickQueue_proofs --------------------------
(***************************************************************************)
(* Proofs about TickQueue, for any number of nodes, any ring they fit in   *)
(* and any number of ticks.                                                *)
(***************************************************************************)
EXTENDS TickQueue, FiniteSetTheorems, SequenceTheorems, TLAPS

USE DEF Pools, Nodes

(***************************************************************************)
(* The inductive invariant.                                                *)
(***************************************************************************)

(* The network thread has a node in its hands between Receive and Publish  *)
(* or Refuse, and only there.                                              *)
HeldInv ==
  /\ network \in {"parsed", "refused"} => \E node \in NetworkNodes : held = {node}
  /\ network \in {"idle", "notifying"} => held = {}

(* The nodes of a pool that wait to be delivered.                          *)
Due(pool) == {node \in ToSet(queue) \cup ToSet(ingress) : Pool(node) = pool}

(* What is accepted is delivered or waits, and what is delivered came      *)
(* earlier.                                                                *)
DoneInv(pool) ==
  /\ accepted[pool] = ToSet(delivered[pool]) \cup {tick[node] : node \in Due(pool)}
  /\ Increasing(delivered[pool])
  /\ \A k \in DOMAIN delivered[pool], node \in Due(pool) : delivered[pool][k] < tick[node]

(* What waits does so in the order of its arrival; the ring comes after    *)
(* the queue.                                                              *)
WaitInv ==
  /\ \A i, j \in DOMAIN queue :
       i < j /\ Pool(queue[i]) = Pool(queue[j]) => tick[queue[i]] < tick[queue[j]]
  /\ \A i, j \in DOMAIN ingress : i < j => tick[ingress[i]] < tick[ingress[j]]
  /\ \A i \in DOMAIN queue, j \in DOMAIN ingress :
       queue[i] \in NetworkNodes => tick[queue[i]] < tick[ingress[j]]

(* The next tick to be accepted is later than all that were.               *)
FreshInv ==
  /\ \A pool \in Pools : \A number \in accepted[pool] : number <= arrived
  /\ network = "parsed" =>
       \A node \in held : /\ tick[node] \in 1 .. arrived
                          /\ \A number \in accepted["network"] : number < tick[node]

OrderInv == (\A pool \in Pools : DoneInv(pool)) /\ WaitInv /\ FreshInv

QueueInv == TypeOK /\ NodesConserved /\ HeldInv /\ OrderInv

-----------------------------------------------------------------------------
(***************************************************************************)
(* Sequences of nodes.                                                     *)
(***************************************************************************)
LEMMA EmptyNodes == ToSet(<<>>) = {} /\ IsInjective(<<>>)
BY DEF ToSet, IsInjective

LEMMA AppendNode ==
  ASSUME NEW S, NEW seq \in Seq(S), NEW x \in S
  PROVE  /\ ToSet(Append(seq, x)) = ToSet(seq) \cup {x}
         /\ IsInjective(seq) /\ x \notin ToSet(seq) => IsInjective(Append(seq, x))
<1> DEFINE n == Len(seq)
           new == Append(seq, x)
<1>1. /\ n \in Nat /\ DOMAIN seq = 1 .. n /\ DOMAIN new = 1 .. n + 1
      /\ \A i \in 1 .. n : new[i] = seq[i]
      /\ new[n + 1] = x
  BY AppendProperties, LenProperties
<1> HIDE DEF n, new
<1>2. ToSet(new) = ToSet(seq) \cup {x}
  BY <1>1 DEF ToSet
<1>3. ASSUME IsInjective(seq), x \notin ToSet(seq)
      PROVE  IsInjective(new)
  <2> SUFFICES ASSUME NEW i \in 1 .. n + 1, NEW j \in 1 .. n + 1, new[i] = new[j]
               PROVE  i = j
    BY <1>1 DEF IsInjective
  <2>1. \A k \in 1 .. n : seq[k] # x
    BY <1>1, <1>3 DEF ToSet
  <2>2. QED
    BY <1>1, <1>3, <2>1 DEF IsInjective
<1>4. QED
  BY <1>2, <1>3 DEF new

LEMMA TailNodes ==
  ASSUME NEW S, NEW seq \in Seq(S), seq # <<>>
  PROVE  /\ Head(seq) \in ToSet(seq) /\ Head(seq) \in S
         /\ ToSet(seq) = ToSet(Tail(seq)) \cup {Head(seq)}
         /\ IsInjective(seq) => /\ IsInjective(Tail(seq))
                                /\ ToSet(Tail(seq)) = ToSet(seq) \ {Head(seq)}
<1> DEFINE n == Len(seq)
           rest == Tail(seq)
<1>1. /\ n \in Nat \ {0} /\ DOMAIN seq = 1 .. n /\ DOMAIN rest = 1 .. n - 1
      /\ \A i \in 1 .. n - 1 : rest[i] = seq[i + 1]
      /\ Head(seq) = seq[1] /\ Head(seq) \in S
  BY HeadTailProperties, LenProperties, EmptySeq
<1> HIDE DEF n, rest
<1>2. ToSet(seq) = ToSet(rest) \cup {seq[1]} /\ seq[1] \in ToSet(seq)
  <2>1. ASSUME NEW x \in ToSet(seq) PROVE x \in ToSet(rest) \cup {seq[1]}
    <3>1. PICK i \in 1 .. n : x = seq[i]
      BY <1>1, <2>1 DEF ToSet
    <3>2. CASE i # 1
      <4>1. i - 1 \in 1 .. n - 1 /\ (i - 1) + 1 = i
        BY <1>1, <3>2
      <4>2. rest[i - 1] = seq[i]
        BY <1>1, <4>1
      <4>3. QED
        BY <1>1, <3>1, <4>1, <4>2 DEF ToSet
    <3>3. QED
      BY <3>1, <3>2
  <2>2. ASSUME NEW x \in ToSet(rest) PROVE x \in ToSet(seq)
    <3>1. PICK i \in 1 .. n - 1 : x = rest[i]
      BY <1>1, <2>2 DEF ToSet
    <3>2. i + 1 \in 1 .. n /\ x = seq[i + 1]
      BY <1>1, <3>1
    <3>3. QED
      BY <1>1, <3>2 DEF ToSet
  <2>3. 1 \in 1 .. n
    BY <1>1
  <2>4. seq[1] \in ToSet(seq)
    BY <1>1, <2>3 DEF ToSet
  <2>5. QED
    BY <2>1, <2>2, <2>4
<1>3. ASSUME IsInjective(seq)
      PROVE  IsInjective(rest) /\ seq[1] \notin ToSet(rest)
  <2>1. ASSUME NEW i \in 1 .. n - 1 PROVE rest[i] # seq[1]
    <3>1. i + 1 \in 1 .. n /\ 1 \in 1 .. n /\ i + 1 # 1
      BY <1>1
    <3>2. QED
      BY <1>1, <1>3, <3>1 DEF IsInjective
  <2>2. ASSUME NEW i \in 1 .. n - 1, NEW j \in 1 .. n - 1, rest[i] = rest[j]
        PROVE  i = j
    <3>1. i + 1 \in 1 .. n /\ j + 1 \in 1 .. n /\ seq[i + 1] = seq[j + 1]
      BY <1>1, <2>2
    <3>2. i + 1 = j + 1
      BY <1>1, <1>3, <3>1 DEF IsInjective
    <3>3. QED
      BY <1>1, <3>2
  <2>3. QED
    BY <1>1, <2>1, <2>2 DEF IsInjective, ToSet
<1>4. QED
  BY <1>1, <1>2, <1>3 DEF rest

LEMMA ConcatNodes ==
  ASSUME NEW S, NEW s \in Seq(S), NEW t \in Seq(S)
  PROVE  /\ ToSet(s \o t) = ToSet(s) \cup ToSet(t)
         /\ IsInjective(s) /\ IsInjective(t) /\ ToSet(s) \cap ToSet(t) = {}
              => IsInjective(s \o t)
<1> DEFINE m == Len(s)
           n == Len(t)
           both == s \o t
<1>1. /\ m \in Nat /\ n \in Nat /\ DOMAIN s = 1 .. m /\ DOMAIN t = 1 .. n
      /\ DOMAIN both = 1 .. m + n
      /\ \A i \in 1 .. m + n : both[i] = IF i <= m THEN s[i] ELSE t[i - m]
  BY ConcatProperties, LenProperties
<1> HIDE DEF m, n, both
<1>2. /\ \A i \in 1 .. m : i \in 1 .. m + n /\ both[i] = s[i]
      /\ \A i \in 1 .. n : m + i \in 1 .. m + n /\ both[m + i] = t[i]
  BY <1>1
<1>3. ASSUME NEW i \in 1 .. m + n
      PROVE  \/ i \in 1 .. m /\ both[i] = s[i]
             \/ \E k \in 1 .. n : i = m + k /\ both[i] = t[k]
  <2>1. CASE i <= m
    BY <1>1, <2>1
  <2>2. CASE ~ i <= m
    <3>1. i - m \in 1 .. n /\ i = m + (i - m) /\ both[i] = t[i - m]
      BY <1>1, <2>2
    <3>2. QED
      BY <3>1
  <2>3. QED
    BY <2>1, <2>2
<1>4. ToSet(both) = ToSet(s) \cup ToSet(t)
  <2>1. ASSUME NEW x \in ToSet(both) PROVE x \in ToSet(s) \cup ToSet(t)
    <3>1. PICK i \in 1 .. m + n : x = both[i]
      BY <1>1, <2>1 DEF ToSet
    <3>2. QED
      BY <1>1, <1>3, <3>1 DEF ToSet
  <2>2. ASSUME NEW x \in ToSet(s) PROVE x \in ToSet(both)
    BY <1>1, <1>2, <2>2 DEF ToSet
  <2>3. ASSUME NEW x \in ToSet(t) PROVE x \in ToSet(both)
    <3>1. PICK i \in 1 .. n : x = t[i]
      BY <1>1, <2>3 DEF ToSet
    <3>2. m + i \in 1 .. m + n /\ x = both[m + i]
      BY <1>2, <3>1
    <3>3. QED
      BY <1>1, <3>2 DEF ToSet
  <2>4. QED
    BY <2>1, <2>2, <2>3
<1>5. ASSUME IsInjective(s), IsInjective(t), ToSet(s) \cap ToSet(t) = {}
      PROVE  IsInjective(both)
  <2>1. \A i \in 1 .. m, j \in 1 .. n : s[i] # t[j]
    BY <1>1, <1>5 DEF ToSet
  <2>2. /\ \A i, j \in 1 .. m : s[i] = s[j] => i = j
        /\ \A i, j \in 1 .. n : t[i] = t[j] => i = j
    BY <1>1, <1>5 DEF IsInjective
  <2> SUFFICES ASSUME NEW i \in 1 .. m + n, NEW j \in 1 .. m + n, both[i] = both[j]
               PROVE  i = j
    BY <1>1 DEF IsInjective
  <2>3. /\ \/ i \in 1 .. m /\ both[i] = s[i]
           \/ \E k \in 1 .. n : i = m + k /\ both[i] = t[k]
        /\ \/ j \in 1 .. m /\ both[j] = s[j]
           \/ \E k \in 1 .. n : j = m + k /\ both[j] = t[k]
    BY <1>3
  <2>4. QED
    BY <2>1, <2>2, <2>3
<1>6. QED
  BY <1>4, <1>5 DEF both

(* A sequence without repetitions is no longer than its set.               *)
LEMMA LengthBound ==
  ASSUME NEW S, IsFiniteSet(S), NEW seq \in Seq(S), IsInjective(seq)
  PROVE  /\ Len(seq) \in Nat /\ Cardinality(S) \in Nat /\ Len(seq) <= Cardinality(S)
         /\ ToSet(seq) # S => Len(seq) < Cardinality(S)
<1> DEFINE n == Len(seq)
<1>1. n \in Nat /\ seq \in [1 .. n -> S] /\ DOMAIN seq = 1 .. n
  BY LenProperties
<1>2. seq \in Injection(1 .. n, S)
  BY <1>1 DEF Injection, IsInjective
<1>3. Cardinality(1 .. n) = n
  <2>1. n \in Nat
    BY <1>1
  <2> HIDE DEF n
  <2>2. 1 \in Int /\ n \in Int
    BY <2>1
  <2>3. Cardinality(1 .. n) = IF 1 > n THEN 0 ELSE n - 1 + 1
    BY <2>2, FS_Interval
  <2> QED
    BY <2>1, <2>3
<1>4. /\ Cardinality(1 .. n) <= Cardinality(S)
      /\ Cardinality(1 .. n) = Cardinality(S) => seq \in Surjection(1 .. n, S)
  BY <1>2, FS_Injection
<1>5. seq \in Surjection(1 .. n, S) => ToSet(seq) = S
  BY <1>1 DEF Surjection, ToSet
<1>6. Cardinality(S) \in Nat
  BY FS_CardinalityType
<1>7. QED
  BY <1>1, <1>3, <1>4, <1>5, <1>6

(* A ring that does not hold every network node has room for another.      *)
LEMMA RingHasRoom ==
  ASSUME NEW ring \in Seq(NetworkNodes), IsInjective(ring),
         NEW node \in NetworkNodes, node \notin ToSet(ring)
  PROVE  Room(ring) /\ Push(ring, node) = Append(ring, node)
<1>1. Len(ring) \in Nat /\ Cardinality(NetworkNodes) \in Nat
      /\ Len(ring) < Cardinality(NetworkNodes)
  BY LengthBound, PoolAssumption
<1>2. QED
  BY <1>1, RingAssumption DEF Room, Push

(* Emptying the rings into one of them loses nothing.                      *)
LEMMA RingTakesAll ==
  ASSUME NEW ring \in Seq(NetworkNodes), NEW nodes \in Seq(NetworkNodes),
         IsInjective(ring), IsInjective(nodes), ToSet(ring) \cap ToSet(nodes) = {}
  PROVE  PushAll(ring, nodes) = ring \o nodes
<1>1. ring \o nodes \in Seq(NetworkNodes) /\ IsInjective(ring \o nodes)
  BY ConcatNodes, ConcatProperties
<1>2. Len(ring \o nodes) <= Cardinality(NetworkNodes) /\ Cardinality(NetworkNodes) \in Nat
  BY <1>1, LengthBound, PoolAssumption
<1>3. Len(ring \o nodes) = Len(ring) + Len(nodes) /\ Len(ring) \in Nat /\ Len(nodes) \in Nat
  BY ConcatProperties, LenProperties
<1>4. Len(nodes) <= RingSlots - 1 - Len(ring)
  BY <1>2, <1>3, RingAssumption
<1>5. SubSeq(nodes, 1, Len(nodes)) = nodes
  BY SubSeqFull
<1>6. QED
  BY <1>4, <1>5 DEF PushAll

-----------------------------------------------------------------------------
(***************************************************************************)
(* Nodes are conserved.                                                    *)
(***************************************************************************)
Partition(places) ==
  /\ \A i, j \in 1 .. 7 : i # j => places[i] \cap places[j] = {}
  /\ UNION {places[i] : i \in 1 .. 7} = Nodes

Injective ==
  /\ IsInjective(networkFree) /\ IsInjective(recycle)
  /\ IsInjective(ingress) /\ IsInjective(queue)

LEMMA ConservedMeans ==
  ASSUME NodesConserved
  PROVE  Injective /\ Partition(Places)
<1>1. DOMAIN Places = 1 .. 7
  BY DEF Places
<1>2. QED
  BY <1>1, Zenon DEF NodesConserved, Injective, Partition, ToSet

LEMMA ConservedAgain ==
  ASSUME Injective', Partition(Places')
  PROVE  NodesConserved'
<1>1. DOMAIN Places' = 1 .. 7
  BY DEF Places
<1>2. QED
  BY <1>1, Zenon DEF NodesConserved, Injective, Partition, ToSet

(* Nodes that go from one place to another.                                *)
Moved(old, new, a, b, moved) ==
  /\ a \in 1 .. 7 /\ b \in 1 .. 7 /\ a # b
  /\ moved \subseteq old[a] /\ new[a] = old[a] \ moved /\ new[b] = old[b] \cup moved
  /\ \A i \in (1 .. 7) \ {a, b} : new[i] = old[i]

LEMMA NodesMove ==
  ASSUME NEW old, NEW new, NEW a, NEW b, NEW moved, Partition(old),
         Moved(old, new, a, b, moved)
  PROVE  Partition(new)
<1> USE DEF Moved
<1>1. ASSUME NEW i \in 1 .. 7, NEW j \in 1 .. 7, i # j
      PROVE  new[i] \cap new[j] = {}
  <2>1. \A k \in 1 .. 7 : k # a => old[k] \cap old[a] = {}
    BY DEF Partition
  <2>2. old[i] \cap old[j] = {}
    BY <1>1 DEF Partition
  <2>3. CASE i = a /\ j = b
    BY <2>2, <2>3
  <2>4. CASE i = b /\ j = a
    BY <2>2, <2>4
  <2>5. CASE i = b /\ j \notin {a, b}
    BY <2>1, <2>2, <2>5
  <2>6. CASE j = b /\ i \notin {a, b}
    BY <2>1, <2>2, <2>6
  <2>7. CASE i # b /\ j # b
    <3>1. new[i] \subseteq old[i] /\ new[j] \subseteq old[j]
      BY <2>7
    <3>2. QED
      BY <2>2, <3>1
  <2>8. QED
    BY <1>1, <2>3, <2>4, <2>5, <2>6, <2>7
<1>2. ASSUME NEW x
      PROVE  (\E i \in 1 .. 7 : x \in old[i]) <=> (\E i \in 1 .. 7 : x \in new[i])
  <2>1. ASSUME NEW i \in 1 .. 7, x \in old[i] PROVE \E j \in 1 .. 7 : x \in new[j]
    BY <2>1
  <2>2. ASSUME NEW i \in 1 .. 7, x \in new[i] PROVE \E j \in 1 .. 7 : x \in old[j]
    BY <2>2
  <2>3. QED
    BY <2>1, <2>2
<1>3. UNION {old[i] : i \in 1 .. 7} = UNION {new[i] : i \in 1 .. 7}
  BY <1>2
<1>4. QED
  BY <1>1, <1>3, Zenon DEF Partition

(* The seven places by name.                                               *)
LEMMA PlacesByName ==
  /\ Places[1] = free /\ Places[2] = ToSet(networkFree) /\ Places[3] = ToSet(recycle)
  /\ Places[4] = ToSet(ingress) /\ Places[5] = ToSet(queue)
  /\ Places[6] = held /\ Places[7] = abandoned
BY DEF Places

LEMMA PlacesByNameAfter ==
  /\ Places'[1] = free' /\ Places'[2] = ToSet(networkFree')
  /\ Places'[3] = ToSet(recycle') /\ Places'[4] = ToSet(ingress')
  /\ Places'[5] = ToSet(queue') /\ Places'[6] = held' /\ Places'[7] = abandoned'
BY DEF Places

LEMMA NodesStay ==
  ASSUME NodesConserved, UNCHANGED <<pools, abandoned>>
  PROVE  NodesConserved'
BY DEF NodesConserved, Places, pools

LEMMA InitConserves == Init => TypeOK /\ NodesConserved /\ HeldInv
<1> SUFFICES ASSUME Init PROVE TypeOK /\ NodesConserved /\ HeldInv
  OBVIOUS
<1> DEFINE n == Cardinality(NetworkNodes)
           all == SetToSeq(NetworkNodes)
<1>1. n \in Nat /\ ExistsBijection(1 .. n, NetworkNodes)
  BY FS_CardinalityType, PoolAssumption
<1>2. PICK f \in Bijection(1 .. n, NetworkNodes) : TRUE
  BY <1>1 DEF ExistsBijection
<1>3. f \in [1 .. n -> NetworkNodes] /\ IsInjective(f)
  BY <1>2 DEF Bijection, Injection, IsInjective
<1>4. all \in [1 .. n -> NetworkNodes] /\ IsInjective(all)
  BY <1>3 DEF SetToSeq
<1>5. all \in Seq(NetworkNodes) /\ Len(all) = n
  BY <1>1, <1>4
<1>6. ToSet(all) = NetworkNodes
  BY <1>5, <1>4, LengthBound, PoolAssumption
<1>7. networkFree = all
  BY DEF Init
<1> HIDE DEF all, n
<1>8. TypeOK
  <2>1. /\ free \subseteq LocalNodes /\ held \subseteq NetworkNodes /\ abandoned \subseteq NetworkNodes
        /\ networkFree \in Seq(NetworkNodes) /\ recycle \in Seq(NetworkNodes)
        /\ ingress \in Seq(NetworkNodes) /\ queue \in Seq(Nodes)
    BY <1>5, <1>7 DEF Init
  <2>2. /\ tick \in [Nodes -> 0 .. MaxTicks] /\ arrived \in 0 .. MaxTicks
        /\ network \in NetworkStages /\ reader \in ReaderStages
        /\ timed \in BOOLEAN /\ connected \in BOOLEAN /\ serving \in BOOLEAN
    BY CallerAssumption DEF Init, NetworkStages, ReaderStages
  <2>3. /\ accepted \in [Pools -> SUBSET (1 .. MaxTicks)]
        /\ delivered \in [Pools -> Seq(1 .. MaxTicks)]
    BY DEF Init
  <2>4. QED
    BY <2>1, <2>2, <2>3 DEF TypeOK
<1>9. NodesConserved
  <2>1. Injective
    BY <1>4, <1>7, EmptyNodes DEF Init, Injective
  <2>2. /\ Places[1] = LocalNodes /\ Places[2] = NetworkNodes
        /\ \A i \in (1 .. 7) \ {1, 2} : Places[i] = {}
    BY <1>6, <1>7, EmptyNodes, PlacesByName DEF Init
  <2>3. DOMAIN Places = 1 .. 7
    BY DEF Places
  <2>4. \A i, j \in 1 .. 7 : i # j => Places[i] \cap Places[j] = {}
    BY <2>2, PoolAssumption
  <2>5. UNION {Places[i] : i \in 1 .. 7} = Nodes
    BY <2>2
  <2>6. QED
    BY <2>1, <2>3, <2>4, <2>5 DEF NodesConserved, Injective, ToSet
<1>10. HeldInv
  BY DEF Init, HeldInv
<1>11. QED
  BY <1>8, <1>9, <1>10

LEMMA ReceiveConserves ==
  ASSUME QueueInv, Receive
  PROVE  (TypeOK /\ NodesConserved /\ HeldInv)'
<1>1. TypeOK /\ Injective /\ Partition(Places) /\ HeldInv
  BY ConservedMeans DEF QueueInv
<1>2. arrived' \in 0 .. MaxTicks
  BY <1>1, CallerAssumption DEF Receive, TypeOK
<1>3. CASE networkFree = <<>>
  <2>1. UNCHANGED <<free, networkFree, recycle, ingress, queue, tick, held, network, reader,
                    timed, connected, serving, accepted, delivered, abandoned>>
    BY <1>3 DEF Receive
  <2>2. TypeOK' /\ HeldInv'
    BY <1>1, <1>2, <2>1 DEF TypeOK, HeldInv
  <2>3. NodesConserved'
    BY <2>1 DEF QueueInv, NodesConserved, Places
  <2>4. QED
    BY <2>2, <2>3
<1>4. CASE networkFree # <<>>
  <2> DEFINE node == Head(networkFree)
  <2>1. /\ held' = {node} /\ networkFree' = Tail(networkFree)
        /\ tick' = [tick EXCEPT ![node] = arrived']
        /\ network' \in {"parsed", "refused"}
        /\ UNCHANGED <<free, recycle, ingress, queue, reader, timed, connected, serving,
                       accepted, delivered, abandoned>>
    BY <1>4 DEF Receive
  <2>2. /\ node \in NetworkNodes /\ node \in ToSet(networkFree)
        /\ IsInjective(Tail(networkFree)) /\ Tail(networkFree) \in Seq(NetworkNodes)
        /\ ToSet(Tail(networkFree)) = ToSet(networkFree) \ {node}
    BY <1>1, <1>4, TailNodes, HeadTailProperties DEF TypeOK, Injective
  <2>3. held = {}
    BY <1>1 DEF HeldInv, Receive
  <2> HIDE DEF node
  <2>4. TypeOK'
    BY <1>1, <1>2, <2>1, <2>2 DEF TypeOK, NetworkStages
  <2>5. HeldInv'
    BY <2>1, <2>2 DEF HeldInv
  <2>6. Partition(Places')
    <3>1. Moved(Places, Places', 2, 6, {node})
      BY <2>1, <2>2, <2>3, PlacesByName, PlacesByNameAfter DEF Moved
    <3>2. QED
      BY <1>1, <3>1, NodesMove
  <2>7. QED
    BY <1>1, <2>1, <2>2, <2>4, <2>5, <2>6, ConservedAgain DEF Injective
<1>5. QED
  BY <1>3, <1>4

LEMMA PublishConserves ==
  ASSUME QueueInv, Publish
  PROVE  (TypeOK /\ NodesConserved /\ HeldInv)' /\ \E node \in held :
           /\ held = {node} /\ ingress' = Append(ingress, node)
           /\ accepted' = [accepted EXCEPT !["network"] = @ \cup {tick[node]}]
           /\ UNCHANGED <<queue, tick, arrived, delivered>> /\ network' = "notifying"
<1>1. TypeOK /\ Injective /\ Partition(Places) /\ HeldInv /\ FreshInv
  BY ConservedMeans DEF QueueInv, OrderInv
<1>2. PICK node \in NetworkNodes : held = {node}
  BY <1>1 DEF HeldInv, Publish
<1>3. node \notin ToSet(ingress)
  <2>1. Places[4] \cap Places[6] = {}
    BY <1>1 DEF Partition
  <2>2. QED
    BY <1>2, <2>1, PlacesByName
<1>4. Room(ingress)
  BY <1>1, <1>3, RingHasRoom DEF TypeOK, Injective
<1>5. /\ ingress' = Append(ingress, node) /\ held' = {} /\ network' = "notifying"
      /\ accepted' = [accepted EXCEPT !["network"] = @ \cup {tick[node]}]
      /\ UNCHANGED <<free, networkFree, recycle, queue, tick, reader, timed, connected,
                     serving, arrived, delivered, abandoned>>
  BY <1>2, <1>4 DEF Publish
<1>6. tick[node] \in 1 .. MaxTicks
  BY <1>1, <1>2 DEF FreshInv, Publish, TypeOK
<1>7. TypeOK'
  <2>1. ingress' \in Seq(NetworkNodes)
    BY <1>1, <1>5, AppendProperties DEF TypeOK
  <2>2. accepted' \in [Pools -> SUBSET (1 .. MaxTicks)]
    BY <1>1, <1>5, <1>6 DEF TypeOK
  <2>3. QED
    BY <1>1, <1>5, <2>1, <2>2 DEF TypeOK, NetworkStages
<1>8. HeldInv'
  BY <1>5 DEF HeldInv
<1>9. ToSet(ingress') = ToSet(ingress) \cup {node} /\ IsInjective(ingress')
  BY <1>1, <1>3, <1>5, AppendNode DEF TypeOK, Injective
<1>10. Partition(Places')
  <2>1. Moved(Places, Places', 6, 4, {node})
    BY <1>2, <1>5, <1>9, PlacesByName, PlacesByNameAfter DEF Moved
  <2>2. QED
    BY <1>1, <2>1, NodesMove
<1>11. NodesConserved'
  BY <1>1, <1>5, <1>9, <1>10, ConservedAgain DEF Injective
<1>12. QED
  BY <1>2, <1>5, <1>7, <1>8, <1>11

LEMMA RefuseConserves ==
  ASSUME QueueInv, Refuse
  PROVE  (TypeOK /\ NodesConserved /\ HeldInv)'
<1>1. TypeOK /\ Injective /\ Partition(Places) /\ HeldInv
  BY ConservedMeans DEF QueueInv
<1>2. PICK node \in NetworkNodes : held = {node}
  BY <1>1 DEF HeldInv, Refuse
<1>3. node \notin ToSet(recycle)
  <2>1. Places[3] \cap Places[6] = {}
    BY <1>1 DEF Partition
  <2>2. QED
    BY <1>2, <2>1, PlacesByName
<1>4. /\ recycle' = Append(recycle, node) /\ held' = {} /\ network' = "idle"
      /\ UNCHANGED <<free, networkFree, ingress, queue, tick, reader, timed, connected,
                     serving, arrived, accepted, delivered, abandoned>>
  BY <1>1, <1>2, <1>3, RingHasRoom DEF Refuse, TypeOK, Injective, history
<1>5. TypeOK'
  <2>1. recycle' \in Seq(NetworkNodes)
    BY <1>1, <1>4, AppendProperties DEF TypeOK
  <2>2. QED
    BY <1>1, <1>4, <2>1 DEF TypeOK, NetworkStages
<1>6. ToSet(recycle') = ToSet(recycle) \cup {node} /\ IsInjective(recycle')
  BY <1>1, <1>3, <1>4, AppendNode DEF TypeOK, Injective
<1>7. Partition(Places')
  <2>1. Moved(Places, Places', 6, 3, {node})
    BY <1>2, <1>4, <1>6, PlacesByName, PlacesByNameAfter DEF Moved
  <2>2. QED
    BY <1>1, <2>1, NodesMove
<1>8. HeldInv'
  BY <1>4 DEF HeldInv
<1>9. QED
  BY <1>1, <1>4, <1>5, <1>6, <1>7, <1>8, ConservedAgain DEF Injective

LEMMA PushSimulatedCandleConserves ==
  ASSUME QueueInv, PushSimulatedCandle
  PROVE  (TypeOK /\ NodesConserved /\ HeldInv)'
<1>1. TypeOK /\ Injective /\ Partition(Places) /\ HeldInv
  BY ConservedMeans DEF QueueInv
<1>2. arrived' \in 1 .. MaxTicks
  BY <1>1, CallerAssumption DEF PushSimulatedCandle, TypeOK
<1>3. CASE free = {}
  <2>1. UNCHANGED <<free, networkFree, recycle, ingress, queue, tick, held, network, reader,
                    timed, connected, serving, accepted, delivered, abandoned>>
    BY <1>3 DEF PushSimulatedCandle
  <2>2. TypeOK'
    BY <1>1, <1>2, <2>1 DEF TypeOK
  <2>3. HeldInv'
    BY <1>1, <2>1 DEF HeldInv
  <2>4. NodesConserved'
    BY <2>1 DEF QueueInv, NodesConserved, Places
  <2>5. QED
    BY <2>2, <2>3, <2>4
<1>4. CASE free # {}
  <2>1. PICK node \in free :
          /\ free' = free \ {node} /\ tick' = [tick EXCEPT ![node] = arrived']
          /\ queue' = Append(queue, node)
          /\ accepted' = [accepted EXCEPT !["local"] = @ \cup {arrived'}]
          /\ Notify
    BY <1>4 DEF PushSimulatedCandle
  <2>2. UNCHANGED <<networkFree, recycle, ingress, held, network, timed, connected,
                    serving, delivered, abandoned>>
    BY DEF PushSimulatedCandle
  <2>3. node \in LocalNodes
    BY <1>1 DEF TypeOK
  <2>4. node \notin ToSet(queue)
    <3>1. Places[1] \cap Places[5] = {}
      BY <1>1 DEF Partition
    <3>2. QED
      BY <3>1, PlacesByName
  <2>5. TypeOK'
    <3>1. queue' \in Seq(Nodes)
      BY <1>1, <2>1, <2>3, AppendProperties DEF TypeOK
    <3>2. tick' \in [Nodes -> 0 .. MaxTicks]
      BY <1>1, <1>2, <2>1 DEF TypeOK
    <3>3. accepted' \in [Pools -> SUBSET (1 .. MaxTicks)]
      BY <1>1, <1>2, <2>1 DEF TypeOK
    <3>4. reader' \in ReaderStages
      BY <1>1, <2>1 DEF TypeOK, Notify, ReaderStages, Locked
    <3>5. QED
      BY <1>1, <1>2, <2>1, <2>2, <3>1, <3>2, <3>3, <3>4 DEF TypeOK
  <2>6. ToSet(queue') = ToSet(queue) \cup {node} /\ IsInjective(queue')
    BY <1>1, <2>1, <2>3, <2>4, AppendNode DEF TypeOK, Injective
  <2>7. Partition(Places')
    <3>1. Moved(Places, Places', 1, 5, {node})
      BY <2>1, <2>2, <2>6, PlacesByName, PlacesByNameAfter DEF Moved
    <3>2. QED
      BY <1>1, <3>1, NodesMove
  <2>8. HeldInv'
    BY <1>1, <2>2 DEF HeldInv
  <2>9. QED
    BY <1>1, <2>2, <2>5, <2>6, <2>7, <2>8, ConservedAgain DEF Injective
<1>5. QED
  BY <1>3, <1>4

LEMMA PumpConserves ==
  ASSUME QueueInv, NEW pumping, NEW draining, Pump(pumping, draining),
         pumping \in ReaderStages, draining \in ReaderStages
  PROVE  (TypeOK /\ NodesConserved /\ HeldInv)'
<1>1. TypeOK /\ Injective /\ Partition(Places) /\ HeldInv
  BY ConservedMeans DEF QueueInv
<1>2. /\ UNCHANGED <<free, ingress, queue, tick, held, network, timed, connected, serving,
                     arrived, accepted, delivered, abandoned>>
      /\ reader' \in ReaderStages
  BY DEF Pump, Step, history
<1>3. HeldInv'
  BY <1>1, <1>2 DEF HeldInv
<1>4. CASE recycle = <<>>
  <2>1. UNCHANGED <<networkFree, recycle>>
    BY <1>4 DEF Pump
  <2>2. TypeOK'
    BY <1>1, <1>2, <2>1 DEF TypeOK
  <2>3. NodesConserved'
    BY <1>2, <2>1, NodesStay DEF QueueInv, pools
  <2>4. QED
    BY <1>3, <2>2, <2>3
<1>5. CASE recycle # <<>>
  <2> DEFINE node == Head(recycle)
  <2>1. recycle' = Tail(recycle) /\ networkFree' = Push(networkFree, node)
    BY <1>5 DEF Pump
  <2>2. /\ node \in NetworkNodes /\ node \in ToSet(recycle)
        /\ recycle' \in Seq(NetworkNodes) /\ IsInjective(recycle')
        /\ ToSet(recycle') = ToSet(recycle) \ {node}
    BY <1>1, <1>5, <2>1, TailNodes, HeadTailProperties DEF TypeOK, Injective
  <2> HIDE DEF node
  <2>3. node \notin ToSet(networkFree)
    <3>1. Places[2] \cap Places[3] = {}
      BY <1>1 DEF Partition
    <3>2. QED
      BY <2>2, <3>1, PlacesByName
  <2>4. networkFree' = Append(networkFree, node)
    BY <1>1, <2>1, <2>2, <2>3, RingHasRoom DEF TypeOK, Injective
  <2>5. /\ networkFree' \in Seq(NetworkNodes) /\ IsInjective(networkFree')
        /\ ToSet(networkFree') = ToSet(networkFree) \cup {node}
    BY <1>1, <2>2, <2>3, <2>4, AppendNode, AppendProperties DEF TypeOK, Injective
  <2>6. TypeOK'
    BY <1>1, <1>2, <2>2, <2>5 DEF TypeOK
  <2>7. Moved(Places, Places', 3, 2, {node})
    BY <1>2, <2>2, <2>5, PlacesByName, PlacesByNameAfter DEF Moved
  <2>8. Partition(Places')
    BY <1>1, <2>7, NodesMove
  <2>9. QED
    BY <1>1, <1>2, <1>3, <2>2, <2>5, <2>6, <2>8, ConservedAgain DEF Injective
<1>6. QED
  BY <1>4, <1>5

LEMMA DrainConserves ==
  ASSUME QueueInv, NEW draining, NEW next, Drain(draining, next), next \in ReaderStages
  PROVE  (TypeOK /\ NodesConserved /\ HeldInv)'
<1>1. TypeOK /\ Injective /\ Partition(Places) /\ HeldInv
  BY ConservedMeans DEF QueueInv
<1>2. /\ UNCHANGED <<free, networkFree, recycle, tick, held, network, timed, connected,
                     serving, arrived, accepted, delivered, abandoned>>
      /\ queue' = queue \o ingress /\ ingress' = <<>> /\ reader' \in ReaderStages
  BY DEF Drain, Step, history
<1>3. HeldInv'
  BY <1>1, <1>2 DEF HeldInv
<1>4. queue \in Seq(Nodes) /\ ingress \in Seq(Nodes)
  BY <1>1, SeqMonotonic DEF TypeOK
<1>5. Places[4] \cap Places[5] = {}
  BY <1>1 DEF Partition
<1>6. ToSet(queue') = ToSet(queue) \cup ToSet(ingress) /\ IsInjective(queue')
  BY <1>1, <1>2, <1>4, <1>5, ConcatNodes, PlacesByName DEF Injective
<1>7. TypeOK'
  <2>1. queue' \in Seq(Nodes) /\ ingress' \in Seq(NetworkNodes)
    BY <1>2, <1>4, ConcatProperties
  <2>2. QED
    BY <1>1, <1>2, <2>1 DEF TypeOK
<1>8. Moved(Places, Places', 4, 5, ToSet(ingress))
  BY <1>2, <1>6, EmptyNodes, PlacesByName, PlacesByNameAfter DEF Moved
<1>9. Partition(Places')
  BY <1>1, <1>8, NodesMove
<1>10. QED
  BY <1>1, <1>2, <1>3, <1>6, <1>7, <1>9, EmptyNodes, ConservedAgain DEF Injective

LEMMA TakeConserves ==
  ASSUME QueueInv, Take
  PROVE  (TypeOK /\ NodesConserved /\ HeldInv)'
<1>1. TypeOK /\ Injective /\ Partition(Places) /\ HeldInv
  BY ConservedMeans DEF QueueInv
<1>2. /\ UNCHANGED <<network, timed, connected, serving, arrived, accepted, abandoned>>
      /\ reader' \in ReaderStages
  BY DEF Take, Step, ReaderStages
<1>3. CASE queue = <<>>
  <2>1. UNCHANGED <<free, networkFree, recycle, ingress, queue, tick, held, delivered>>
    BY <1>3 DEF Take, pools
  <2>2. TypeOK' /\ HeldInv'
    BY <1>1, <1>2, <2>1 DEF TypeOK, HeldInv
  <2>3. NodesConserved'
    BY <1>2, <2>1, NodesStay DEF QueueInv, pools
  <2>4. QED
    BY <2>2, <2>3
<1>4. CASE queue # <<>>
  <2> DEFINE node == Head(queue)
  <2>1. /\ queue' = Tail(queue)
        /\ IF node \in LocalNodes
           THEN free' = free \cup {node} /\ UNCHANGED networkFree
           ELSE networkFree' = Push(networkFree, node) /\ UNCHANGED free
        /\ delivered' = [delivered EXCEPT ![Pool(node)] = Append(@, tick[node])]
        /\ UNCHANGED <<recycle, ingress, tick, held>>
    BY <1>4 DEF Take
  <2>2. /\ node \in Nodes /\ node \in ToSet(queue)
        /\ queue' \in Seq(Nodes) /\ IsInjective(queue')
        /\ ToSet(queue') = ToSet(queue) \ {node}
    BY <1>1, <1>4, <2>1, TailNodes, HeadTailProperties DEF TypeOK, Injective
  <2> HIDE DEF node
  <2>3. delivered' \in [Pools -> Seq(1 .. MaxTicks)]
    <3>1. Pool(node) \in Pools /\ node \in Due(Pool(node))
      BY <2>2 DEF Pool, Due
    <3>2. tick[node] \in 1 .. MaxTicks
      BY <1>1, <3>1 DEF QueueInv, OrderInv, DoneInv, TypeOK
    <3>3. Append(delivered[Pool(node)], tick[node]) \in Seq(1 .. MaxTicks)
      BY <1>1, <3>1, <3>2, AppendProperties DEF TypeOK
    <3>4. QED
      BY <1>1, <2>1, <3>1, <3>3 DEF TypeOK
  <2>4. HeldInv'
    BY <1>1, <1>2, <2>1 DEF HeldInv
  <2>5. CASE node \in LocalNodes
    <3>1. free' = free \cup {node} /\ networkFree' = networkFree
      BY <2>1, <2>5
    <3>2. TypeOK'
      BY <1>1, <1>2, <2>1, <2>2, <2>3, <2>5, <3>1 DEF TypeOK
    <3>3. Moved(Places, Places', 5, 1, {node})
      BY <1>2, <2>1, <2>2, <3>1, PlacesByName, PlacesByNameAfter DEF Moved
    <3>4. Partition(Places')
      BY <1>1, <3>3, NodesMove
    <3>5. QED
      BY <1>1, <2>1, <2>2, <2>4, <3>1, <3>2, <3>4, ConservedAgain DEF Injective
  <2>6. CASE node \notin LocalNodes
    <3>1. node \in NetworkNodes /\ networkFree' = Push(networkFree, node) /\ free' = free
      BY <2>1, <2>2, <2>6
    <3>2. Places[2] \cap Places[5] = {}
      BY <1>1 DEF Partition
    <3>3. node \notin ToSet(networkFree)
      BY <2>2, <3>2, PlacesByName
    <3>4. networkFree' = Append(networkFree, node)
      BY <1>1, <3>1, <3>3, RingHasRoom DEF TypeOK, Injective
    <3>5. /\ networkFree' \in Seq(NetworkNodes) /\ IsInjective(networkFree')
          /\ ToSet(networkFree') = ToSet(networkFree) \cup {node}
      BY <1>1, <3>1, <3>3, <3>4, AppendNode, AppendProperties DEF TypeOK, Injective
    <3>6. TypeOK'
      BY <1>1, <1>2, <2>1, <2>2, <2>3, <3>1, <3>5 DEF TypeOK
    <3>7. Moved(Places, Places', 5, 2, {node})
      BY <1>2, <2>1, <2>2, <3>1, <3>5, PlacesByName, PlacesByNameAfter DEF Moved
    <3>8. Partition(Places')
      BY <1>1, <3>7, NodesMove
    <3>9. QED
      BY <1>1, <2>1, <2>2, <2>4, <3>5, <3>6, <3>8, ConservedAgain DEF Injective
  <2>7. QED
    BY <2>5, <2>6
<1>5. QED
  BY <1>3, <1>4

LEMMA DisconnectConserves ==
  ASSUME QueueInv, Disconnect
  PROVE  (TypeOK /\ NodesConserved /\ HeldInv)'
<1>1. TypeOK /\ Injective /\ Partition(Places) /\ HeldInv
  BY ConservedMeans DEF QueueInv
<1>2. Places[2] \cap Places[3] = {} /\ Places[2] \cap Places[4] = {} /\ Places[3] \cap Places[4] = {}
  BY <1>1 DEF Partition
<1>3. /\ ingress \o recycle \in Seq(NetworkNodes) /\ IsInjective(ingress \o recycle)
      /\ ToSet(ingress \o recycle) = ToSet(ingress) \cup ToSet(recycle)
  BY <1>1, <1>2, ConcatNodes, ConcatProperties, PlacesByName DEF TypeOK, Injective
<1>4. networkFree' = networkFree \o (ingress \o recycle)
  <2>1. ToSet(networkFree) \cap ToSet(ingress \o recycle) = {}
    BY <1>2, <1>3, PlacesByName
  <2>2. QED
    BY <1>1, <1>3, <2>1, RingTakesAll DEF TypeOK, Injective, Disconnect
<1>5. /\ networkFree' \in Seq(NetworkNodes) /\ IsInjective(networkFree')
      /\ ToSet(networkFree') = ToSet(networkFree) \cup ToSet(ingress) \cup ToSet(recycle)
  <2>1. ToSet(networkFree) \cap ToSet(ingress \o recycle) = {}
    BY <1>2, <1>3, PlacesByName
  <2> DEFINE rest == ingress \o recycle
  <2>2. networkFree \in Seq(NetworkNodes) /\ IsInjective(networkFree)
    BY <1>1 DEF TypeOK, Injective
  <2>3. /\ rest \in Seq(NetworkNodes) /\ IsInjective(rest)
        /\ ToSet(networkFree) \cap ToSet(rest) = {}
    BY <1>3, <2>1
  <2> HIDE DEF rest
  <2>4. networkFree \o rest \in Seq(NetworkNodes)
    BY <2>2, <2>3, ConcatProperties
  <2>5. /\ IsInjective(networkFree \o rest)
        /\ ToSet(networkFree \o rest) = ToSet(networkFree) \cup ToSet(rest)
    BY <2>2, <2>3, ConcatNodes
  <2>6. QED
    BY <1>3, <1>4, <2>4, <2>5, Zenon DEF rest
<1>6. /\ queue' = <<>> /\ free' = LocalNodes /\ ingress' = <<>> /\ recycle' = <<>>
      /\ abandoned' = abandoned \cup (ToSet(queue) \cap NetworkNodes)
      /\ serving' = FALSE /\ connected' = FALSE /\ arrived' = 0
      /\ accepted' = [pool \in Pools |-> {}] /\ delivered' = [pool \in Pools |-> <<>>]
      /\ UNCHANGED <<tick, held, network, reader, timed>>
  BY DEF Disconnect
<1>7. TypeOK'
  <2>1. ToSet(queue) \cap NetworkNodes \subseteq NetworkNodes
    OBVIOUS
  <2>2. arrived' \in 0 .. MaxTicks
    BY <1>6, CallerAssumption
  <2>3. /\ accepted' \in [Pools -> SUBSET (1 .. MaxTicks)]
        /\ delivered' \in [Pools -> Seq(1 .. MaxTicks)]
    BY <1>6
  <2>4. /\ recycle' \in Seq(NetworkNodes) /\ ingress' \in Seq(NetworkNodes)
        /\ queue' \in Seq(Nodes)
    BY <1>6, EmptySeq
  <2>5. free' \subseteq LocalNodes /\ abandoned' \subseteq NetworkNodes
    BY <1>1, <1>6, <2>1 DEF TypeOK
  <2>6. QED
    BY <1>1, <1>5, <1>6, <2>2, <2>3, <2>4, <2>5 DEF TypeOK
<1>8. Partition(Places')
  <2> DEFINE waiting == ToSet(queue) \cap NetworkNodes
             first  == <<free, Places[2], Places[3], Places[4], Places[5] \ waiting, held,
                         abandoned \cup waiting>>
             second == <<free \cup (Places[5] \ waiting), Places[2], Places[3], Places[4], {},
                         held, abandoned \cup waiting>>
             third  == <<free \cup (Places[5] \ waiting), Places[2] \cup Places[4], Places[3],
                         {}, {}, held, abandoned \cup waiting>>
  <2>1. Moved(Places, first, 5, 7, waiting)
    BY PlacesByName DEF Moved
  <2>2. Partition(first)
    BY <1>1, <2>1, NodesMove
  <2>3. Moved(first, second, 5, 1, Places[5] \ waiting)
    BY DEF Moved
  <2>4. Partition(second)
    BY <2>2, <2>3, NodesMove
  <2>5. Moved(second, third, 4, 2, Places[4])
    BY DEF Moved
  <2>6. Partition(third)
    BY <2>4, <2>5, NodesMove
  <2>7. free \cup (ToSet(queue) \ waiting) = LocalNodes
    <3>1. ASSUME NEW x \in LocalNodes PROVE x \in free \cup ToSet(queue)
      <4>1. PICK i \in 1 .. 7 : x \in Places[i]
        BY <1>1 DEF Partition
      <4>2. /\ ToSet(networkFree) \subseteq NetworkNodes /\ ToSet(recycle) \subseteq NetworkNodes
            /\ ToSet(ingress) \subseteq NetworkNodes
        BY <1>1 DEF TypeOK, ToSet
      <4>3. x \notin NetworkNodes
        BY PoolAssumption
      <4>4. held \subseteq NetworkNodes /\ abandoned \subseteq NetworkNodes
        BY <1>1 DEF TypeOK
      <4>5. x \notin Places[2] /\ x \notin Places[3] /\ x \notin Places[4]
        BY <4>2, <4>3, PlacesByName
      <4>6. x \notin Places[6] /\ x \notin Places[7]
        BY <4>3, <4>4, PlacesByName
      <4>7. i = 1 \/ i = 5
        BY <4>1, <4>5, <4>6
      <4>8. QED
        BY <4>1, <4>7, PlacesByName
    <3>2. free \subseteq LocalNodes /\ ToSet(queue) \subseteq LocalNodes \cup NetworkNodes
      BY <1>1 DEF TypeOK, ToSet
    <3>3. QED
      BY <3>1, <3>2, PoolAssumption
  <2>8. Moved(third, Places', 3, 2, Places[3])
    <3>1. /\ Places'[1] = third[1] /\ Places'[2] = third[2] \cup Places[3]
          /\ Places'[3] = {} /\ Places'[4] = {} /\ Places'[5] = {}
          /\ Places'[6] = held /\ Places'[7] = abandoned \cup waiting
      BY <1>5, <1>6, <2>7, EmptyNodes, PlacesByName, PlacesByNameAfter
    <3>2. /\ third[2] = Places[2] \cup Places[4] /\ third[3] = Places[3]
          /\ third[4] = {} /\ third[5] = {} /\ third[6] = held
          /\ third[7] = abandoned \cup waiting
      OBVIOUS
    <3> HIDE DEF third
    <3>3. ASSUME NEW i \in (1 .. 7) \ {3, 2} PROVE Places'[i] = third[i]
      <4>1. i = 1 \/ i = 4 \/ i = 5 \/ i = 6 \/ i = 7
        OBVIOUS
      <4>2. QED
        BY <3>1, <3>2, <4>1, Zenon
    <3>4. Places'[3] = third[3] \ Places[3] /\ Places[3] \subseteq third[3]
      BY <3>1, <3>2
    <3>5. QED
      BY <3>1, <3>3, <3>4 DEF Moved
  <2>9. QED
    BY <2>6, <2>8, NodesMove
<1>9. HeldInv'
  BY <1>1, <1>6 DEF HeldInv
<1>10. QED
  BY <1>5, <1>6, <1>7, <1>8, <1>9, EmptyNodes, ConservedAgain DEF Injective

-----------------------------------------------------------------------------
(***************************************************************************)
(* Ticks stay in order.                                                    *)
(***************************************************************************)
LEMMA PoolOf ==
  ASSUME NEW node \in Nodes
  PROVE  /\ Pool(node) \in Pools
         /\ Pool(node) = "local" <=> node \in LocalNodes
         /\ Pool(node) = "network" <=> node \in NetworkNodes
BY PoolAssumption DEF Pool

LEMMA WaitingTypes ==
  ASSUME TypeOK
  PROVE  /\ \A i \in DOMAIN queue : queue[i] \in Nodes /\ queue[i] \in Due(Pool(queue[i]))
         /\ \A i \in DOMAIN ingress : ingress[i] \in NetworkNodes /\ ingress[i] \in Due("network")
         /\ \A pool \in Pools : Due(pool) \subseteq Nodes
         /\ \A node \in Nodes : tick[node] \in 0 .. MaxTicks
         /\ arrived \in 0 .. MaxTicks /\ MaxTicks \in Nat
<1>1. /\ \A i \in DOMAIN queue : queue[i] \in Nodes /\ queue[i] \in ToSet(queue)
      /\ \A i \in DOMAIN ingress : ingress[i] \in NetworkNodes /\ ingress[i] \in ToSet(ingress)
  BY DEF TypeOK, ToSet
<1>2. \A i \in DOMAIN ingress : Pool(ingress[i]) = "network"
  BY <1>1, PoolOf
<1>3. ToSet(queue) \subseteq Nodes /\ ToSet(ingress) \subseteq Nodes
  BY DEF TypeOK, ToSet
<1>4. QED
  BY <1>1, <1>2, <1>3, CallerAssumption DEF Due, TypeOK

(* What waits and what was taken is left alone.                            *)
LEMMA OrderStays ==
  ASSUME OrderInv, TypeOK, UNCHANGED <<queue, ingress, accepted, delivered>>,
         \A node \in ToSet(queue) \cup ToSet(ingress) : tick'[node] = tick[node],
         arrived' \in Nat, arrived <= arrived',
         network' = "parsed" =>
           \A node \in held' : /\ tick'[node] \in 1 .. arrived'
                               /\ \A number \in accepted["network"] : number < tick'[node]
  PROVE  OrderInv'
<1>1. /\ \A i \in DOMAIN queue : queue[i] \in ToSet(queue)
      /\ \A i \in DOMAIN ingress : ingress[i] \in ToSet(ingress)
  BY DEF ToSet
<1>2. WaitInv'
  <2>1. /\ \A i \in DOMAIN queue : tick'[queue[i]] = tick[queue[i]]
        /\ \A i \in DOMAIN ingress : tick'[ingress[i]] = tick[ingress[i]]
    BY <1>1
  <2>2. QED
    BY <2>1 DEF OrderInv, WaitInv
<1>3. FreshInv'
  <2>1. ASSUME NEW pool \in Pools, NEW number \in accepted[pool] PROVE number <= arrived'
    <3>1. number \in Nat /\ number <= arrived /\ arrived \in Nat
      BY CallerAssumption DEF OrderInv, FreshInv, TypeOK
    <3>2. QED
      BY <3>1
  <2>2. QED
    BY <2>1 DEF FreshInv
<1>4. ASSUME NEW pool \in Pools PROVE DoneInv(pool)'
  <2>1. Due(pool)' = Due(pool) /\ \A node \in Due(pool) : tick'[node] = tick[node]
    BY DEF Due
  <2>2. DoneInv(pool)
    BY DEF OrderInv
  <2>3. QED
    BY <2>1, <2>2 DEF DoneInv
<1>5. QED
  BY <1>2, <1>3, <1>4 DEF OrderInv

LEMMA ReceiveInOrder ==
  ASSUME QueueInv, Receive
  PROVE  OrderInv'
<1>1. TypeOK /\ OrderInv /\ Injective /\ Partition(Places)
  BY ConservedMeans DEF QueueInv
<1>2. /\ UNCHANGED <<queue, ingress, accepted, delivered>> /\ arrived' = arrived + 1
      /\ network # "parsed"
  BY DEF Receive
<1>3. arrived \in Nat
  BY <1>1 DEF TypeOK
<1>4. CASE networkFree = <<>>
  <2>1. UNCHANGED <<held, tick, network>>
    BY <1>4 DEF Receive
  <2>2. QED
    BY <1>1, <1>2, <1>3, <2>1, OrderStays
<1>5. CASE networkFree # <<>>
  <2> DEFINE node == Head(networkFree)
  <2>1. /\ held' = {node} /\ tick' = [tick EXCEPT ![node] = arrived']
        /\ node \in NetworkNodes /\ node \in ToSet(networkFree)
    BY <1>1, <1>5, TailNodes DEF Receive, TypeOK
  <2> HIDE DEF node
  <2>2. Places[2] \cap Places[4] = {} /\ Places[2] \cap Places[5] = {}
    BY <1>1 DEF Partition
  <2>3. node \notin ToSet(queue) \cup ToSet(ingress)
    BY <2>1, <2>2, PlacesByName
  <2>4. tick'[node] = arrived + 1 /\ \A other \in Nodes \ {node} : tick'[other] = tick[other]
    BY <1>1, <1>2, <2>1 DEF TypeOK
  <2>5. ToSet(queue) \cup ToSet(ingress) \subseteq Nodes
    BY <1>1 DEF TypeOK, ToSet
  <2>6. \A number \in accepted["network"] : number < tick'[node]
    <3>1. \A number \in accepted["network"] : number \in Nat /\ number <= arrived
      BY <1>1, CallerAssumption DEF OrderInv, FreshInv, TypeOK
    <3>2. QED
      BY <1>3, <2>4, <3>1
  <2>7. tick'[node] \in 1 .. arrived'
    BY <1>2, <1>3, <2>4
  <2>8. \A other \in ToSet(queue) \cup ToSet(ingress) : tick'[other] = tick[other]
    BY <2>3, <2>4, <2>5
  <2>9. QED
    BY <1>1, <1>2, <1>3, <2>1, <2>6, <2>7, <2>8, OrderStays
<1>6. QED
  BY <1>4, <1>5

LEMMA PublishInOrder ==
  ASSUME QueueInv, Publish
  PROVE  OrderInv'
<1>1. TypeOK /\ OrderInv /\ WaitInv /\ FreshInv
  BY DEF QueueInv, OrderInv
<1>2. PICK node \in held :
        /\ held = {node} /\ ingress' = Append(ingress, node)
        /\ accepted' = [accepted EXCEPT !["network"] = @ \cup {tick[node]}]
        /\ UNCHANGED <<queue, tick, arrived, delivered>> /\ network' = "notifying"
  BY PublishConserves
<1>3. /\ node \in NetworkNodes /\ tick[node] \in 1 .. arrived
      /\ \A number \in accepted["network"] : number < tick[node]
  BY <1>1 DEF TypeOK, FreshInv, Publish
<1>4. /\ accepted'["network"] = accepted["network"] \cup {tick[node]}
      /\ accepted'["local"] = accepted["local"]
  BY <1>1, <1>2 DEF TypeOK
<1>5. /\ Due("network")' = Due("network") \cup {node} /\ Due("local")' = Due("local")
  <2>1. ToSet(ingress') = ToSet(ingress) \cup {node}
    BY <1>1, <1>2, <1>3, AppendNode DEF TypeOK
  <2>2. Pool(node) = "network"
    BY <1>3, PoolOf
  <2>3. QED
    BY <1>2, <2>1, <2>2 DEF Due
<1>6. DoneInv("network")'
  <2>1. DoneInv("network")
    BY <1>1 DEF OrderInv
  <2>2. /\ delivered'["network"] = delivered["network"] /\ tick' = tick
        /\ \A k \in DOMAIN delivered["network"] : delivered["network"][k] \in accepted["network"]
    BY <1>2, <2>1 DEF DoneInv, ToSet
  <2>3. QED
    BY <1>3, <1>4, <1>5, <2>1, <2>2 DEF DoneInv
<1>7. DoneInv("local")'
  <2>1. DoneInv("local")
    BY <1>1 DEF OrderInv
  <2>2. QED
    BY <1>2, <1>4, <1>5, <2>1 DEF DoneInv
<1>8. WaitInv'
  <2> DEFINE n == Len(ingress)
  <2>1. /\ n \in Nat /\ DOMAIN ingress = 1 .. n /\ DOMAIN ingress' = 1 .. n + 1
        /\ \A i \in 1 .. n : ingress'[i] = ingress[i]
        /\ ingress'[n + 1] = node
    BY <1>1, <1>2, <1>3, AppendProperties, LenProperties DEF TypeOK
  <2> HIDE DEF n
  <2>2. \A other \in Due("network") : tick[other] < tick[node]
    BY <1>1, <1>3 DEF OrderInv, DoneInv
  <2>3. \A i \in 1 .. n : tick[ingress[i]] < tick[node]
    BY <1>1, <2>1, <2>2, WaitingTypes
  <2>4. \A i \in DOMAIN queue : queue[i] \in NetworkNodes => tick[queue[i]] < tick[node]
    BY <1>1, <2>2, WaitingTypes, PoolOf
  <2>5. \A i, j \in 1 .. n + 1 : i < j => tick[ingress'[i]] < tick[ingress'[j]]
    <3> SUFFICES ASSUME NEW i \in 1 .. n + 1, NEW j \in 1 .. n + 1, i < j
                 PROVE  tick[ingress'[i]] < tick[ingress'[j]]
      OBVIOUS
    <3>1. i \in 1 .. n
      BY <2>1
    <3>2. CASE j \in 1 .. n
      BY <1>1, <2>1, <3>1, <3>2 DEF WaitInv
    <3>3. CASE j = n + 1
      BY <2>1, <2>3, <3>1, <3>3
    <3>4. QED
      BY <2>1, <3>2, <3>3
  <2>6. \A i \in DOMAIN queue, j \in 1 .. n + 1 :
          queue[i] \in NetworkNodes => tick[queue[i]] < tick[ingress'[j]]
    <3> SUFFICES ASSUME NEW i \in DOMAIN queue, NEW j \in 1 .. n + 1, queue[i] \in NetworkNodes
                 PROVE  tick[queue[i]] < tick[ingress'[j]]
      OBVIOUS
    <3>1. CASE j \in 1 .. n
      BY <1>1, <2>1, <3>1 DEF WaitInv
    <3>2. CASE j = n + 1
      BY <2>1, <2>4, <3>2
    <3>3. QED
      BY <2>1, <3>1, <3>2
  <2>7. QED
    BY <1>1, <1>2, <2>1, <2>5, <2>6 DEF WaitInv
<1>9. FreshInv'
  <2>1. \A pool \in Pools : \A number \in accepted'[pool] : number <= arrived
    BY <1>1, <1>3, <1>4 DEF FreshInv
  <2>2. QED
    BY <1>2, <2>1 DEF FreshInv
<1>10. QED
  BY <1>6, <1>7, <1>8, <1>9 DEF OrderInv

LEMMA PushSimulatedCandleInOrder ==
  ASSUME QueueInv, PushSimulatedCandle
  PROVE  OrderInv'
<1>1. TypeOK /\ OrderInv /\ WaitInv /\ FreshInv /\ Partition(Places) /\ HeldInv
  BY ConservedMeans DEF QueueInv, OrderInv
<1>2. arrived' = arrived + 1 /\ arrived \in Nat /\ UNCHANGED <<ingress, held, network, delivered>>
  BY <1>1 DEF PushSimulatedCandle, TypeOK
<1>3. CASE free = {}
  <2>1. UNCHANGED <<queue, tick, accepted>>
    BY <1>3 DEF PushSimulatedCandle
  <2>2. network' = "parsed" =>
          \A node \in held' : /\ tick'[node] \in 1 .. arrived'
                              /\ \A number \in accepted["network"] : number < tick'[node]
    BY <1>1, <1>2, <2>1 DEF FreshInv
  <2>3. QED
    BY <1>1, <1>2, <2>1, <2>2, OrderStays
<1>4. CASE free # {}
  <2>1. PICK node \in free :
          /\ tick' = [tick EXCEPT ![node] = arrived'] /\ queue' = Append(queue, node)
          /\ accepted' = [accepted EXCEPT !["local"] = @ \cup {arrived'}]
    BY <1>4 DEF PushSimulatedCandle
  <2>2. node \in LocalNodes /\ node \in Nodes /\ Pool(node) = "local"
    BY <1>1, PoolOf DEF TypeOK
  <2>3. /\ tick'[node] = arrived + 1 /\ \A other \in Nodes \ {node} : tick'[other] = tick[other]
        /\ accepted'["local"] = accepted["local"] \cup {arrived + 1}
        /\ accepted'["network"] = accepted["network"]
    BY <1>1, <1>2, <2>1, <2>2 DEF TypeOK
  <2>4. node \notin ToSet(queue) /\ node \notin ToSet(ingress)
    <3>1. Places[1] \cap Places[5] = {} /\ Places[1] \cap Places[4] = {}
      BY <1>1 DEF Partition
    <3>2. QED
      BY <3>1, PlacesByName
  <2>5. /\ Due("local")' = Due("local") \cup {node} /\ Due("network")' = Due("network")
    <3>1. ToSet(queue') = ToSet(queue) \cup {node}
      BY <1>1, <2>1, <2>2, AppendNode DEF TypeOK
    <3>2. QED
      BY <1>2, <2>2, <3>1 DEF Due
  <2>6. \A pool \in Pools : \A other \in Due(pool) :
          other # node /\ tick'[other] = tick[other]
    BY <1>1, <2>3, <2>4, WaitingTypes DEF Due
  <2>7. \A number \in accepted["local"] : number < arrived + 1
    <3>1. \A number \in accepted["local"] : number \in Nat /\ number <= arrived
      BY <1>1, CallerAssumption DEF FreshInv, TypeOK
    <3>2. QED
      BY <1>2, <3>1
  <2>8. DoneInv("local")'
    <3>1. DoneInv("local")
      BY <1>1 DEF OrderInv
    <3>2. \A k \in DOMAIN delivered["local"] : delivered["local"][k] \in accepted["local"]
      BY <3>1 DEF DoneInv, ToSet
    <3>3. {tick'[other] : other \in Due("local")'} =
            {tick[other] : other \in Due("local")} \cup {arrived + 1}
      BY <2>3, <2>5, <2>6
    <3>4. QED
      BY <1>2, <2>3, <2>5, <2>6, <2>7, <3>1, <3>2, <3>3 DEF DoneInv
  <2>9. DoneInv("network")'
    <3>1. DoneInv("network")
      BY <1>1 DEF OrderInv
    <3>2. QED
      BY <1>2, <2>3, <2>5, <2>6, <3>1 DEF DoneInv
  <2>10. WaitInv'
    <3> DEFINE n == Len(queue)
    <3>1. /\ n \in Nat /\ DOMAIN queue = 1 .. n /\ DOMAIN queue' = 1 .. n + 1
          /\ \A i \in 1 .. n : queue'[i] = queue[i]
          /\ queue'[n + 1] = node
      BY <1>1, <2>1, <2>2, AppendProperties, LenProperties DEF TypeOK
    <3> HIDE DEF n
    <3>2. /\ \A i \in 1 .. n : tick'[queue[i]] = tick[queue[i]] /\ queue[i] \in Due(Pool(queue[i]))
          /\ \A i \in DOMAIN ingress : tick'[ingress[i]] = tick[ingress[i]]
      BY <1>1, <2>6, <3>1, WaitingTypes, PoolOf
    <3>3. \A i \in 1 .. n : Pool(queue[i]) = "local" => tick[queue[i]] < arrived + 1
      BY <1>1, <2>7, <3>2 DEF OrderInv, DoneInv
    <3>4. ASSUME NEW i \in 1 .. n + 1, NEW j \in 1 .. n + 1, i < j,
                 Pool(queue'[i]) = Pool(queue'[j])
          PROVE  tick'[queue'[i]] < tick'[queue'[j]]
      <4>1. i \in 1 .. n
        BY <3>1, <3>4
      <4>2. CASE j \in 1 .. n
        BY <1>1, <3>1, <3>2, <3>4, <4>1, <4>2 DEF WaitInv
      <4>3. CASE j = n + 1
        BY <2>2, <2>3, <3>1, <3>2, <3>3, <3>4, <4>1, <4>3
      <4>4. QED
        BY <3>1, <4>2, <4>3
    <3>5. ASSUME NEW i \in 1 .. n + 1, NEW j \in DOMAIN ingress, queue'[i] \in NetworkNodes
          PROVE  tick'[queue'[i]] < tick'[ingress[j]]
      <4>1. i # n + 1
        BY <2>2, <3>1, <3>5, PoolAssumption
      <4>2. i \in 1 .. n
        BY <3>1, <4>1
      <4>3. QED
        BY <1>1, <3>1, <3>2, <3>5, <4>2 DEF WaitInv
    <3>6. QED
      BY <1>1, <1>2, <3>1, <3>2, <3>4, <3>5 DEF WaitInv
  <2>11. FreshInv'
    <3>1. ASSUME NEW pool \in Pools, NEW number \in accepted'[pool] PROVE number <= arrived'
      <4>1. CASE number \in accepted[pool]
        <5>1. number \in Nat /\ number <= arrived
          BY <1>1, <4>1, CallerAssumption DEF FreshInv, TypeOK
        <5>2. QED
          BY <1>2, <5>1
      <4>2. CASE number \notin accepted[pool]
        BY <1>2, <2>3, <3>1, <4>2
      <4>3. QED
        BY <4>1, <4>2
    <3>2. ASSUME network' = "parsed", NEW other \in held'
          PROVE  /\ tick'[other] \in 1 .. arrived'
                 /\ \A number \in accepted'["network"] : number < tick'[other]
      <4>1. other \in NetworkNodes /\ other # node
        BY <1>1, <1>2, <2>2, <3>2, PoolAssumption DEF TypeOK
      <4>2. tick'[other] = tick[other]
        BY <2>3, <4>1
      <4>3. QED
        BY <1>1, <1>2, <2>3, <3>2, <4>2 DEF FreshInv
    <3>3. QED
      BY <3>1, <3>2 DEF FreshInv
  <2>12. QED
    BY <2>8, <2>9, <2>10, <2>11 DEF OrderInv
<1>5. QED
  BY <1>3, <1>4

LEMMA DrainInOrder ==
  ASSUME QueueInv, NEW draining, NEW next, Drain(draining, next)
  PROVE  OrderInv'
<1>1. TypeOK /\ OrderInv /\ WaitInv /\ FreshInv
  BY DEF QueueInv, OrderInv
<1>2. /\ UNCHANGED <<tick, held, network, arrived, accepted, delivered>>
      /\ queue' = queue \o ingress /\ ingress' = <<>>
  BY DEF Drain, history
<1>3. queue \in Seq(Nodes) /\ ingress \in Seq(Nodes)
  BY <1>1, SeqMonotonic DEF TypeOK
<1>4. ToSet(queue') = ToSet(queue) \cup ToSet(ingress) /\ ToSet(ingress') = {}
  BY <1>2, <1>3, ConcatNodes, EmptyNodes
<1>5. ASSUME NEW pool \in Pools PROVE DoneInv(pool)'
  <2>1. Due(pool)' = Due(pool)
    BY <1>4 DEF Due
  <2>2. DoneInv(pool)
    BY <1>1 DEF OrderInv
  <2>3. QED
    BY <1>2, <2>1, <2>2 DEF DoneInv
<1>6. FreshInv'
  BY <1>1, <1>2 DEF FreshInv
<1>7. WaitInv'
  <2> DEFINE m == Len(queue)
             n == Len(ingress)
  <2>1. /\ m \in Nat /\ n \in Nat /\ DOMAIN queue = 1 .. m /\ DOMAIN ingress = 1 .. n
        /\ DOMAIN queue' = 1 .. m + n
        /\ \A i \in 1 .. m + n : queue'[i] = IF i <= m THEN queue[i] ELSE ingress[i - m]
    BY <1>2, <1>3, ConcatProperties, LenProperties
  <2> HIDE DEF m, n
  <2>2. ASSUME NEW i \in 1 .. m + n, NEW j \in 1 .. m + n, i < j,
               Pool(queue'[i]) = Pool(queue'[j])
        PROVE  tick[queue'[i]] < tick[queue'[j]]
    <3>1. CASE j <= m
      <4>1. i \in 1 .. m /\ j \in 1 .. m /\ queue'[i] = queue[i] /\ queue'[j] = queue[j]
        BY <2>1, <2>2, <3>1
      <4>2. QED
        BY <1>1, <2>1, <2>2, <4>1 DEF WaitInv
    <3>2. CASE i <= m /\ ~ j <= m
      <4>1. i \in 1 .. m /\ j - m \in 1 .. n /\ queue'[i] = queue[i] /\ queue'[j] = ingress[j - m]
        BY <2>1, <3>2
      <4>2. queue[i] \in NetworkNodes
        BY <1>1, <2>1, <2>2, <4>1, WaitingTypes, PoolOf
      <4>3. QED
        BY <1>1, <2>1, <4>1, <4>2 DEF WaitInv
    <3>3. CASE ~ i <= m
      <4>1. /\ i - m \in 1 .. n /\ j - m \in 1 .. n /\ i - m < j - m
            /\ queue'[i] = ingress[i - m] /\ queue'[j] = ingress[j - m]
        BY <2>1, <2>2, <3>3
      <4>2. QED
        BY <1>1, <2>1, <4>1 DEF WaitInv
    <3>4. QED
      BY <2>1, <3>1, <3>2, <3>3
  <2>3. DOMAIN ingress' = {}
    BY <1>2
  <2>4. QED
    BY <1>2, <2>1, <2>2, <2>3 DEF WaitInv
<1>8. QED
  BY <1>5, <1>6, <1>7 DEF OrderInv

LEMMA TakeInOrder ==
  ASSUME QueueInv, Take
  PROVE  OrderInv'
<1>1. TypeOK /\ OrderInv /\ WaitInv /\ FreshInv /\ Injective /\ Partition(Places)
  BY ConservedMeans DEF QueueInv, OrderInv
<1>2. UNCHANGED <<network, arrived, accepted, ingress, tick, held>>
  BY DEF Take, pools
<1>3. CASE queue = <<>>
  <2>1. UNCHANGED <<queue, delivered>>
    BY <1>3 DEF Take, pools
  <2>2. network' = "parsed" =>
          \A node \in held' : /\ tick'[node] \in 1 .. arrived'
                              /\ \A number \in accepted["network"] : number < tick'[node]
    BY <1>1, <1>2 DEF FreshInv
  <2>3. arrived' \in Nat /\ arrived <= arrived'
    BY <1>1, <1>2 DEF TypeOK
  <2>4. QED
    BY <1>1, <1>2, <2>1, <2>2, <2>3, OrderStays
<1>4. CASE queue # <<>>
  <2>0. PICK node : node = Head(queue)
    OBVIOUS
  <2> DEFINE own == Pool(node)
             n   == Len(queue)
  <2>1. /\ queue' = Tail(queue)
        /\ delivered' = [delivered EXCEPT ![own] = Append(@, tick[node])]
    BY <1>4, <2>0 DEF Take
  <2>2. /\ n \in Nat \ {0} /\ DOMAIN queue = 1 .. n /\ DOMAIN queue' = 1 .. n - 1
        /\ \A i \in 1 .. n - 1 : queue'[i] = queue[i + 1]
        /\ node = queue[1] /\ node \in Nodes
    BY <1>1, <1>4, <2>0, <2>1, HeadTailProperties, LenProperties, EmptySeq DEF TypeOK
  <2>3. ToSet(queue') = ToSet(queue) \ {node} /\ node \in ToSet(queue)
    BY <1>1, <1>4, <2>0, <2>1, TailNodes DEF TypeOK, Injective
  <2>4. own \in Pools
    BY <2>2, PoolOf
  <2> HIDE DEF n, own
  <2>5. node \notin ToSet(ingress)
    <3>1. Places[4] \cap Places[5] = {}
      BY <1>1 DEF Partition
    <3>2. QED
      BY <2>3, <3>1, PlacesByName
  <2>6. /\ Due(own)' = Due(own) \ {node} /\ node \in Due(own)
        /\ \A pool \in Pools \ {own} : Due(pool)' = Due(pool)
    BY <1>2, <2>3, <2>5 DEF Due, own
  <2>7. \A other \in Due(own) : other # node => tick[node] < tick[other]
    <3> SUFFICES ASSUME NEW other \in Due(own), other # node
                 PROVE  tick[node] < tick[other]
      OBVIOUS
    <3>1. 1 \in 1 .. n /\ Pool(other) = Pool(node)
      BY <2>2 DEF Due, own
    <3>2. CASE other \in ToSet(queue)
      <4>1. PICK i \in 1 .. n : other = queue[i]
        BY <2>2, <3>2 DEF ToSet
      <4>2. 1 < i
        BY <2>2, <4>1
      <4>3. QED
        BY <1>1, <2>2, <3>1, <4>1, <4>2 DEF WaitInv
    <3>3. CASE other \in ToSet(ingress)
      <4>1. PICK i \in DOMAIN ingress : other = ingress[i]
        BY <3>3 DEF ToSet
      <4>2. other \in NetworkNodes
        BY <1>1, <4>1, WaitingTypes
      <4>3. node \in NetworkNodes
        BY <2>2, <3>1, <4>2, PoolOf
      <4>4. QED
        BY <1>1, <2>2, <3>1, <4>1, <4>3 DEF WaitInv
    <3>4. QED
      BY <3>2, <3>3 DEF Due
  <2>8. DoneInv(own)'
    <3> DEFINE done == delivered[own]
               d    == Len(done)
               more == Append(done, tick[node])
    <3>1. DoneInv(own)
      BY <1>1, <2>4 DEF OrderInv
    <3>2. tick[node] \in 1 .. MaxTicks
      BY <1>1, <2>4, <2>6, <3>1 DEF DoneInv, TypeOK
    <3>3. delivered'[own] = more /\ done \in Seq(1 .. MaxTicks)
      BY <1>1, <2>1, <2>4 DEF TypeOK
    <3>4. /\ d \in Nat /\ DOMAIN done = 1 .. d /\ DOMAIN more = 1 .. d + 1
          /\ \A k \in 1 .. d : more[k] = done[k]
          /\ more[d + 1] = tick[node]
          /\ ToSet(more) = ToSet(done) \cup {tick[node]}
      <4> HIDE DEF done
      <4>1. d \in Nat /\ DOMAIN done = 1 .. d
        BY <3>3, LenProperties
      <4>2. /\ more \in Seq(1 .. MaxTicks) /\ Len(more) = d + 1
            /\ \A k \in 1 .. d : more[k] = done[k]
            /\ more[d + 1] = tick[node]
        BY <3>2, <3>3, AppendProperties
      <4>3. DOMAIN more = 1 .. d + 1
        BY <4>2, LenProperties
      <4> HIDE DEF d, more
      <4>4. ToSet(more) = ToSet(done) \cup {tick[node]}
        BY <4>1, <4>2, <4>3 DEF ToSet
      <4>5. QED
        BY <4>1, <4>2, <4>3, <4>4
    <3>5. \A k \in 1 .. d : done[k] < tick[node]
      BY <2>6, <3>1, <3>4 DEF DoneInv
    <3>6. accepted[own] = ToSet(done) \cup {tick[other] : other \in Due(own)}
      BY <3>1 DEF DoneInv
    <3>7. /\ Increasing(done)
          /\ \A k \in 1 .. d, other \in Due(own) : done[k] < tick[other]
      BY <3>1, <3>4 DEF DoneInv
    <3> HIDE DEF done, d, more
    <3>8. accepted[own] = ToSet(more) \cup {tick[other] : other \in Due(own)'}
      BY <2>6, <3>4, <3>6
    <3>9. Increasing(more)
      <4> SUFFICES ASSUME NEW i \in 1 .. d + 1, NEW j \in 1 .. d + 1, i < j
                   PROVE  more[i] < more[j]
        BY <3>4 DEF Increasing
      <4>1. i \in 1 .. d
        BY <3>4
      <4>2. CASE j \in 1 .. d
        BY <3>4, <3>7, <4>1, <4>2 DEF Increasing
      <4>3. CASE j = d + 1
        BY <3>4, <3>5, <4>1, <4>3
      <4>4. QED
        BY <3>4, <4>2, <4>3
    <3>10. ASSUME NEW k \in 1 .. d + 1, NEW other \in Due(own)' PROVE more[k] < tick[other]
      <4>1. other \in Due(own) /\ other # node
        BY <2>6, <3>10
      <4>2. CASE k \in 1 .. d
        BY <3>4, <3>7, <4>1, <4>2
      <4>3. CASE k = d + 1
        BY <2>7, <3>4, <4>1, <4>3
      <4>4. QED
        BY <3>4, <4>2, <4>3
    <3>11. QED
      BY <1>2, <3>3, <3>4, <3>8, <3>9, <3>10 DEF DoneInv
  <2>9. ASSUME NEW pool \in Pools \ {own} PROVE DoneInv(pool)'
    <3>1. DoneInv(pool)
      BY <1>1 DEF OrderInv
    <3>2. delivered'[pool] = delivered[pool] /\ Due(pool)' = Due(pool)
      BY <1>1, <2>1, <2>6 DEF TypeOK
    <3>3. QED
      BY <1>2, <3>1, <3>2 DEF DoneInv
  <2>10. WaitInv'
    <3>1. ASSUME NEW i \in 1 .. n - 1, NEW j \in 1 .. n - 1, i < j,
                 Pool(queue'[i]) = Pool(queue'[j])
          PROVE  tick[queue'[i]] < tick[queue'[j]]
      <4>1. /\ i + 1 \in 1 .. n /\ j + 1 \in 1 .. n /\ i + 1 < j + 1
            /\ queue'[i] = queue[i + 1] /\ queue'[j] = queue[j + 1]
        BY <2>2, <3>1
      <4>2. QED
        BY <1>1, <2>2, <3>1, <4>1 DEF WaitInv
    <3>2. ASSUME NEW i \in 1 .. n - 1, NEW j \in DOMAIN ingress, queue'[i] \in NetworkNodes
          PROVE  tick[queue'[i]] < tick[ingress[j]]
      <4>1. i + 1 \in 1 .. n /\ queue'[i] = queue[i + 1]
        BY <2>2
      <4>2. QED
        BY <1>1, <2>2, <3>2, <4>1 DEF WaitInv
    <3>3. QED
      BY <1>1, <1>2, <2>2, <3>1, <3>2 DEF WaitInv
  <2>11. FreshInv'
    BY <1>1, <1>2 DEF FreshInv
  <2>12. QED
    BY <2>8, <2>9, <2>10, <2>11 DEF OrderInv
<1>5. QED
  BY <1>3, <1>4

LEMMA EmptyInOrder ==
  ASSUME queue' = <<>>, ingress' = <<>>, network' # "parsed",
         accepted' = [pool \in Pools |-> {}], delivered' = [pool \in Pools |-> <<>>]
  PROVE  OrderInv'
<1>1. WaitInv' /\ FreshInv'
  BY DEF WaitInv, FreshInv
<1>2. ASSUME NEW pool \in Pools PROVE DoneInv(pool)'
  <2>1. Due(pool)' = {}
    BY EmptyNodes DEF Due
  <2>2. accepted'[pool] = {} /\ delivered'[pool] = <<>>
    OBVIOUS
  <2>3. QED
    BY <2>1, <2>2, EmptyNodes DEF DoneInv, Increasing
<1>3. QED
  BY <1>1, <1>2 DEF OrderInv

(* A step of the network thread or the reader that takes no tick.          *)
LEMMA OrderKept ==
  ASSUME QueueInv, UNCHANGED <<queue, ingress, tick, arrived, accepted, delivered>>,
         network' = "parsed" => network = "parsed" /\ held' = held
  PROVE  OrderInv'
<1>1. TypeOK /\ OrderInv /\ FreshInv
  BY DEF QueueInv, OrderInv
<1>2. arrived \in Nat /\ arrived' = arrived /\ arrived <= arrived'
  BY <1>1 DEF TypeOK
<1>3. network' = "parsed" =>
        \A node \in held' : /\ tick'[node] \in 1 .. arrived'
                            /\ \A number \in accepted["network"] : number < tick'[node]
  BY <1>1 DEF FreshInv
<1>4. QED
  BY <1>1, <1>2, <1>3, OrderStays

(* A step that moves nothing.                                              *)
LEMMA NothingMoves ==
  ASSUME QueueInv, UNCHANGED <<pools, history>>,
         network' = network \/ (network = "notifying" /\ network' = "idle"),
         reader' \in ReaderStages, timed' \in BOOLEAN, connected' \in BOOLEAN,
         serving' \in BOOLEAN
  PROVE  QueueInv'
<1>1. TypeOK /\ NodesConserved /\ HeldInv
  BY DEF QueueInv
<1>2. UNCHANGED <<free, networkFree, recycle, ingress, queue, tick, held, arrived, accepted,
                  delivered, abandoned>>
  BY DEF pools, history
<1>3. TypeOK'
  BY <1>1, <1>2 DEF TypeOK, NetworkStages
<1>4. NodesConserved'
  BY <1>1, <1>2, NodesStay
<1>5. HeldInv'
  BY <1>1, <1>2 DEF HeldInv
<1>6. OrderInv'
  BY <1>2, OrderKept
<1>7. QED
  BY <1>3, <1>4, <1>5, <1>6 DEF QueueInv

LEMMA NextKeeps ==
  ASSUME QueueInv, [Next]_vars
  PROVE  QueueInv'
<1> USE DEF QueueInv
<1>1. /\ TypeOK /\ reader \in ReaderStages /\ timed \in BOOLEAN
      /\ connected \in BOOLEAN /\ serving \in BOOLEAN
  BY DEF TypeOK
<1>2. CASE Receive
  BY <1>2, ReceiveConserves, ReceiveInOrder
<1>3. CASE Publish
  BY <1>3, PublishConserves, PublishInOrder
<1>4. CASE Refuse
  <2>1. UNCHANGED <<queue, ingress, tick, arrived, accepted, delivered>> /\ network' = "idle"
    BY <1>4 DEF Refuse, history
  <2>2. QED
    BY <1>4, <2>1, RefuseConserves, OrderKept
<1> USE DEF ReaderStages, Locked, Notify, Step, Quietly
<1>5. CASE NotifyReader
  BY <1>1, <1>5, NothingMoves DEF NotifyReader
<1>6. CASE PushSimulatedCandle
  BY <1>6, PushSimulatedCandleConserves, PushSimulatedCandleInOrder
<1>7. CASE GetNextCandle
  BY <1>1, <1>7, NothingMoves, CallerAssumption DEF GetNextCandle
<1>8. CASE PumpNetworkIngress
  <2>1. ASSUME NEW pumping \in ReaderStages, NEW draining \in ReaderStages,
               Pump(pumping, draining)
        PROVE  QueueInv'
    <3>1. UNCHANGED <<queue, ingress, tick, arrived, accepted, delivered, network, held>>
      BY <2>1 DEF Pump, history
    <3>2. OrderInv'
      BY <3>1, OrderKept
    <3>3. QED
      BY <2>1, <3>2, PumpConserves
  <2>2. ASSUME NEW draining, NEW next \in ReaderStages, Drain(draining, next)
        PROVE  QueueInv'
    BY <2>2, DrainConserves, DrainInOrder
  <2>3. QED
    BY <1>8, <2>1, <2>2 DEF PumpNetworkIngress
<1>9. CASE Test
  BY <1>1, <1>9, NothingMoves DEF Test
<1>10. CASE Block
  BY <1>1, <1>10, NothingMoves DEF Block
<1>11. CASE Timeout
  BY <1>1, <1>11, NothingMoves DEF Timeout
<1>12. CASE Choose
  BY <1>1, <1>12, NothingMoves DEF Choose
<1>13. CASE Take
  BY <1>13, TakeConserves, TakeInOrder
<1>14. CASE SpuriousWake
  BY <1>1, <1>14, NothingMoves DEF SpuriousWake
<1>15. CASE Lose
  BY <1>1, <1>15, NothingMoves DEF Lose
<1>16. CASE Restore
  BY <1>1, <1>16, NothingMoves DEF Restore
<1>17. CASE Disconnect
  <2>1. OrderInv'
    BY <1>17, EmptyInOrder DEF Disconnect
  <2>2. QED
    BY <1>17, <2>1, DisconnectConserves
<1>18. CASE Connect
  BY <1>1, <1>18, NothingMoves DEF Connect
<1>19. CASE UNCHANGED vars
  BY <1>1, <1>19, NothingMoves DEF vars
<1>20. QED
  BY <1>2, <1>3, <1>4, <1>5, <1>6, <1>7, <1>8, <1>9, <1>10, <1>11, <1>12, <1>13, <1>14, <1>15,
     <1>16, <1>17, <1>18, <1>19
     DEF Next, Callback, Reading

LEMMA InitHolds == Init => QueueInv
<1> SUFFICES ASSUME Init PROVE QueueInv
  OBVIOUS
<1>1. WaitInv /\ FreshInv
  BY DEF Init, WaitInv, FreshInv
<1>2. ASSUME NEW pool \in Pools PROVE DoneInv(pool)
  <2>1. Due(pool) = {} /\ accepted[pool] = {} /\ delivered[pool] = <<>>
    BY EmptyNodes DEF Init, Due
  <2>2. QED
    BY <2>1, EmptyNodes DEF DoneInv, Increasing
<1>3. QED
  BY <1>1, <1>2, InitConserves DEF QueueInv, OrderInv

LEMMA Invariance == Spec => []QueueInv
<1>1. Init => QueueInv
  BY InitHolds
<1>2. QueueInv /\ [Next]_vars => QueueInv'
  BY NextKeeps
<1>3. QED
  BY <1>1, <1>2, PTL DEF Spec

-----------------------------------------------------------------------------
(***************************************************************************)
(* The theorems.                                                           *)
(***************************************************************************)

(* Every variable keeps its type, for any number of nodes and ticks: no    *)
(* node crosses from one pool of LiveDataAdapter into the other.           *)
THEOREM TypeCorrect == Spec => []TypeOK
<1>1. QueueInv => TypeOK
  BY DEF QueueInv
<1>2. QED
  BY <1>1, Invariance, PTL

(* However the message callback, getNextCandle, pushSimulatedCandle and    *)
(* disconnect interleave, every preallocated node is in one place and in   *)
(* one only, though the code ignores the result of every push: rings with  *)
(* one slot more than there are network nodes never refuse one.            *)
THEOREM NoNodeLost == Spec => []NodesConserved
<1>1. QueueInv => NodesConserved
  BY DEF QueueInv
<1>2. QED
  BY <1>1, Invariance, PTL

(* What the callback or pushSimulatedCandle accepted is returned by        *)
(* getNextCandle once, in the order of its arrival and with the content it *)
(* arrived with.                                                           *)
THEOREM DeliveredInOrder == Spec => []TicksInOrder
<1>1. QueueInv => TicksInOrder
  <2> SUFFICES ASSUME QueueInv, NEW pool \in Pools
               PROVE  LET waiting == queue \o ingress
                          due  == {i \in DOMAIN waiting : Pool(waiting[i]) = pool}
                          done == delivered[pool]
                      IN /\ accepted[pool] = ToSet(done) \cup {tick[waiting[i]] : i \in due}
                         /\ Increasing(done)
                         /\ \A k \in DOMAIN done, i \in due : done[k] < tick[waiting[i]]
                         /\ \A i, j \in due : i < j => tick[waiting[i]] < tick[waiting[j]]
    BY DEF TicksInOrder
  <2> DEFINE waiting == queue \o ingress
             due  == {i \in DOMAIN waiting : Pool(waiting[i]) = pool}
             m == Len(queue)
             n == Len(ingress)
  <2>1. TypeOK /\ WaitInv /\ DoneInv(pool)
    BY DEF QueueInv, OrderInv
  <2>2. queue \in Seq(Nodes) /\ ingress \in Seq(Nodes)
    BY <2>1, SeqMonotonic DEF TypeOK
  <2>3. ToSet(waiting) = ToSet(queue) \cup ToSet(ingress)
    BY <2>2, ConcatNodes
  <2>4. /\ m \in Nat /\ n \in Nat /\ DOMAIN queue = 1 .. m /\ DOMAIN ingress = 1 .. n
        /\ DOMAIN waiting = 1 .. m + n
        /\ \A i \in 1 .. m + n : waiting[i] = IF i <= m THEN queue[i] ELSE ingress[i - m]
    BY <2>2, ConcatProperties, LenProperties
  <2> HIDE DEF waiting, m, n
  <2>5. {waiting[i] : i \in due} = Due(pool)
    BY <2>3 DEF Due, ToSet
  <2>6. {tick[waiting[i]] : i \in due} = {tick[node] : node \in Due(pool)}
    BY <2>5
  <2>7. ASSUME NEW i \in due, NEW j \in due, i < j
        PROVE  tick[waiting[i]] < tick[waiting[j]]
    <3>1. CASE j <= m
      <4>1. i \in 1 .. m /\ j \in 1 .. m /\ waiting[i] = queue[i] /\ waiting[j] = queue[j]
        BY <2>4, <2>7, <3>1
      <4>2. QED
        BY <2>1, <2>4, <2>7, <4>1 DEF WaitInv
    <3>2. CASE i <= m /\ ~ j <= m
      <4>1. i \in 1 .. m /\ j - m \in 1 .. n /\ waiting[i] = queue[i] /\ waiting[j] = ingress[j - m]
        BY <2>4, <3>2
      <4>2. queue[i] \in NetworkNodes
        BY <2>1, <2>4, <4>1, WaitingTypes, PoolOf
      <4>3. QED
        BY <2>1, <2>4, <4>1, <4>2 DEF WaitInv
    <3>3. CASE ~ i <= m
      <4>1. /\ i - m \in 1 .. n /\ j - m \in 1 .. n /\ i - m < j - m
            /\ waiting[i] = ingress[i - m] /\ waiting[j] = ingress[j - m]
        BY <2>4, <2>7, <3>3
      <4>2. QED
        BY <2>1, <2>4, <4>1 DEF WaitInv
    <3>4. QED
      BY <2>4, <3>1, <3>2, <3>3
  <2>8. \A k \in DOMAIN delivered[pool], i \in due : delivered[pool][k] < tick[waiting[i]]
    BY <2>1, <2>5 DEF DoneInv
  <2>9. QED
    BY <2>1, <2>6, <2>7, <2>8 DEF DoneInv, waiting
<1>2. QED
  BY <1>1, Invariance, PTL

=============================================================================
