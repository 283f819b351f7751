------------------------------- MODULE FatTree -------------------------------
(***************************************************************************)
(* The network of examples/sim.cc: nodes, and three layers of switches.    *)
(* Each cluster has as many switches of layer 1 as of layer 2, all linked; *)
(* the i-th switch of layer 2 of every cluster is linked to the i-th of    *)
(* layer 3.  The device a switch has towards a neighbour is the pair of    *)
(* the two.  The delays are those of the fibres, in nanoseconds.           *)
(***************************************************************************)
EXTENDS Integers, Sequences

CONSTANTS
  NodesPerSwitch,  \* nodes_per_switch
  ClusterSize,     \* cluster_size
  NumClusters      \* num_clusters

ASSUME FatTreeAssumption ==
  {NodesPerSwitch, ClusterSize, NumClusters} \subseteq Nat \ {0}

NumNodes == NodesPerSwitch * ClusterSize * NumClusters

\* What a device is attached to: layer 0 are the nodes.
Place == {0} \X (0..(NumNodes - 1))
           \cup {1, 2} \X (0..(ClusterSize * NumClusters - 1))
           \cup {3} \X (0..(ClusterSize - 1))

ClusterOf(switch) == switch \div ClusterSize
Column(switch) == switch % ClusterSize

\* `distance` grows with every second turn of the loops.
NodeDelay(node) == (3 + 3 * (((node % NodesPerSwitch) + 1) \div 2)) * 5

CrossDelay(l1, l2) ==
  LET apart == Column(l1) - Column(l2)
  IN (3 + 3 * (NodesPerSwitch - 1) * (IF apart < 0 THEN -apart ELSE apart)) * 5

TopDelay(l2) == (3 + 5 * ((Column(l2) + 1) \div 2)) * 5

\* The links the loops install, the end of the lower layer first.
Fibre ==
  [link \in {<<a, b>> \in Place \X Place :
       \/ a[1] = 0 /\ b[1] = 1 /\ b[2] = a[2] \div NodesPerSwitch
       \/ a[1] = 1 /\ b[1] = 2 /\ ClusterOf(a[2]) = ClusterOf(b[2])
       \/ a[1] = 2 /\ b[1] = 3 /\ b[2] = Column(a[2])}
   |-> CASE link[1][1] = 0 -> NodeDelay(link[1][2])
         [] link[1][1] = 1 -> CrossDelay(link[1][2], link[2][2])
         [] link[1][1] = 2 -> TopDelay(link[1][2])]

Port == DOMAIN Fibre \cup {<<link[2], link[1]>> : link \in DOMAIN Fibre}

DelayOf == [d \in Port |-> IF d \in DOMAIN Fibre THEN Fibre[d] ELSE Fibre[<<d[2], d[1]>>]]

\* The places on a shortest way from one node to another.  Global routing takes
\* one of those that differ in the column `via`.
Way(from, to, via) ==
  LET leaf == from \div NodesPerSwitch
      target == to \div NodesPerSwitch
      Over(switch) == <<2, ClusterOf(switch) * ClusterSize + via>>
      between == IF leaf = target THEN <<>>
                 ELSE IF ClusterOf(leaf) = ClusterOf(target) THEN <<Over(leaf), <<1, target>>>>
                 ELSE <<Over(leaf), <<3, via>>, Over(target), <<1, target>>>>
  IN <<<<0, from>>, <<1, leaf>>>> \o between \o <<<<0, to>>>>

\* The devices a message leaves by on that way.
RouteOf(from, to, via) ==
  LET way == Way(from, to, via)
  IN [k \in 1..(Len(way) - 1) |-> <<way[k], way[k + 1]>>]
=============================================================================
