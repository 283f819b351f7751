-------------------- MODULE QuantumApplicationRefinement --------------------
(***************************************************************************)
(* The application implements Teleportation: how the phases of an          *)
(* operation can be read from the lists of its two nodes.                  *)
(***************************************************************************)
EXTENDS QuantumApplication

Op == UNION {{n} \X (0..(MaxMsg[n] - 1)) : n \in Node}

Found(seq, id) == seq[Slot(seq, id)]

SenderPhase(id) ==
  LET n == id[1]
      item == Found(tx_qubits[n], id)
  IN IF id[2] >= msg_count[n] THEN "new"
     ELSE IF Has(tx_queue[n], id) THEN "waiting"
     ELSE IF ~Has(tx_qubits[n], id) THEN "done"
     ELSE IF item.operating THEN "gating"
     ELSE IF item.x \/ item.z THEN "spent"
     ELSE "holding"

\* The nodes that have a place in m_rx_qubits for the operation: one at most.
Places(id) == {n \in Node : Has(rx_qubits[n], id)}

\* A receiver without a place has given it back if its result is kept, or if the
\* sender has used the result.
ReceiverPhase(id) ==
  LET places == Places(id)
      item == Found(rx_qubits[CHOOSE n \in places : TRUE], id)
  IN IF places = {}
     THEN IF (\E n \in Node : Has(storage[n], id)) \/ SenderPhase(id) \in {"spent", "done"}
          THEN "done" ELSE "idle"
     ELSE IF item.operating THEN "measuring"
     ELSE IF ~item.has_qubit THEN "idle"
     ELSE IF item.x \/ item.z THEN "spent"
     ELSE "measured"

\* Told by the sender's item, or by the receiver's once the sender has none.
Job(id) ==
  LET n == id[1]
      mine == tx_queue[n] \o tx_qubits[n]
      item == Found(mine, id)
      places == Places(id)
      peer == CHOOSE m \in places : TRUE
  IN IF Has(mine, id) THEN <<item.protocol, Peers[n][item.peer]>>
     ELSE IF places # {} THEN <<Found(rx_qubits[peer], id).protocol, peer>>
     ELSE <<>>

Tele == INSTANCE Teleportation WITH
  Qubits <- NumQubits,
  sender <- [id \in Op |-> SenderPhase(id)],
  receiver <- [id \in Op |-> ReceiverPhase(id)],
  job <- [id \in Op |-> Job(id)]

\* Every event of the application is a step of Teleportation, or changes nothing
\* that can be seen there: with one qubit per direction no loss of a result, no
\* retransmission and no promotion of a queued operation makes an end measure,
\* gate or correct twice, too early, or with the other half already given away,
\* and qubits are handed out in the order of Run.
TeleSpec == Tele!Spec
=============================================================================
