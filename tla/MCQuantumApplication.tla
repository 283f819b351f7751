------------------------ MODULE MCQuantumApplication ------------------------
(***************************************************************************)
(* Three nodes that are all peers of each other, as the simulations set    *)
(* them up: the smallest network in which m_peers[1] may be the wrong one. *)
(***************************************************************************)
EXTENDS QuantumApplicationRefinement

CONSTANTS a, b, c

MCPeers == (a :> <<b, c>>) @@ (b :> <<a, c>>) @@ (c :> <<a, b>>)

\* One operation per node: each application starts one as it starts.
OneEach == [n \in Node |-> 1]

\* a starts a second one: more than it has qubits, or two at one receiver.
TwoAtA == (a :> 2) @@ (b :> 1) @@ (c :> 1)
=============================================================================
