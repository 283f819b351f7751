---------------------------- MODULE MCControlPath ----------------------------
(***************************************************************************)
(* Two clusters of examples/sim.cc, with its times in nanoseconds: the     *)
(* transmission times are the 14 and 30 of scripts/instance.sh.            *)
(***************************************************************************)
EXTENDS FatTree, ControlPath

CONSTANTS m1, m2, m3

MCMessage == {m1, m2, m3}

\* Two messages of one sender and one of another, both of the first cluster, to
\* the last node of the second.
From == (m1 :> 0) @@ (m2 :> 0) @@ (m3 :> 2)
MCPath == [m \in MCMessage |-> RouteOf(From[m], NumNodes - 1, 0)]
MCBack == [m \in MCMessage |-> RouteOf(NumNodes - 1, From[m], 0)]

\* The devices on those ways; nothing happens at the others.
MCDevice == UNION {ToSet(MCPath[m]) \cup ToSet(MCBack[m]) : m \in MCMessage}
MCDelay == [d \in MCDevice |-> DelayOf[d]]

SumOf(route, k) == FoldFunction(LAMBDA d, sum : MCDelay[d] + sum, 0, SubSeq(route, 1, k))
Sums(route) == [k \in 0..Len(route) |-> SumOf(route, k)]
MCReach == [m \in MCMessage |-> Sums(MCPath[m])]
MCReturn == [m \in MCMessage |-> Sums(MCBack[m])]
=============================================================================
