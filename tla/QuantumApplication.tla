-------------------------- MODULE QuantumApplication --------------------------
(***************************************************************************)
(* The teledata / telegate application of model/quantum-application.cc.    *)
(* Every node runs one application.  An operation is started by Run at one *)
(* node (its sender) towards a random peer (its receiver) and goes through *)
(*                                                                         *)
(*   sender   --Qubit-->     receiver   (Send, DataReceiveCallback case 0) *)
(*   receiver --Classical--> sender     (SendClassical, case 1)            *)
(*   sender   --Classical--> receiver   (telegate only)                    *)
(*   whoever applied the result --AWK--> the other (ApplyConditional)      *)
(*                                                                         *)
(* with a NACK answering a packet that the random failure rate spoiled,    *)
(* and also asking for the qubit of an operation that waited in m_rx_queue.*)
(*                                                                         *)
(* The simulator runs one event at a time: each handler is one action.     *)
(* Time is left out: an event that is scheduled may run in any order with  *)
(* the others, since its delay depends on attributes and random numbers.   *)
(* The build has its assertions on: one that fails stops the program, and  *)
(* `failed` then holds the name of the function it is in.                  *)
(***************************************************************************)
EXTENDS Integers, SequencesExt

CONSTANTS
  Node,        \* the nodes, one application each
  Peers,       \* Peers[n]: m_peers of n, in the order of the AddPeer calls
  Protocols,   \* the protocols Run draws from: "teledata" (0), "telegate" (1)
  NumQubits,   \* m_num_qubits: qubits for each direction
  MaxTxQueue,  \* m_max_tx_queue
  QFail,       \* TRUE iff m_q_failure_rate > 0
  CFail,       \* TRUE iff m_c_failure_rate > 0
  Lossy,       \* TRUE iff the optical network may lose a packet for good
  Stops,       \* the nodes whose application is stopped during the run
  MaxMsg       \* bound: operations started by each node (m_msg_count)

\* AddPeer keeps m_peers free of duplicates, and the simulations make peering
\* mutual.  ApplyConditional indexes m_peers[1], so two peers are needed.
ASSUME PeersAssumption ==
  /\ Peers \in [Node -> Seq(Node)]
  /\ \A n \in Node :
       /\ Len(Peers[n]) >= 2
       /\ \A i \in DOMAIN Peers[n] :
            /\ \E j \in DOMAIN Peers[Peers[n][i]] : Peers[Peers[n][i]][j] = n
            /\ \A j \in DOMAIN Peers[n] : Peers[n][i] = Peers[n][j] => i = j

ASSUME ParametersAssumption ==
  /\ Protocols \subseteq {"teledata", "telegate"}
  /\ NumQubits \in Nat
  /\ MaxTxQueue \in Nat
  /\ {QFail, CFail, Lossy} \subseteq BOOLEAN
  /\ Stops \subseteq Node
  /\ MaxMsg \in [Node -> Nat]

VARIABLES
  sock,        \* m_sock: "unbound" before StartApplication, "closed" after a stop
  msg_count,   \* m_msg_count
  tx_queue,    \* m_tx_queue:  operations waiting for a qubit of their sender
  tx_qubits,   \* m_tx_qubits: operations holding a qubit of their sender
  rx_queue,    \* m_rx_queue:  operations waiting for a qubit of their receiver
  rx_qubits,   \* m_rx_qubits: operations holding a qubit of their receiver
  storage,     \* m_classic_storage: results kept until they are acknowledged
  data,        \* the keys of m_data
  net,         \* packets in flight, in no order
  events,      \* events scheduled by the handlers
  failed       \* the function whose assertion stopped the program, or "none"

held == <<tx_queue, tx_qubits, rx_queue, rx_qubits, storage>>
vars == <<sock, msg_count, held, data, net, events, failed>>

(***************************************************************************)
(* Data.  An id is <<sender, count>>, the two halves of the 32-bit id.  A  *)
(* result is TRUE once it is a measured bit and FALSE while it is 255: the *)
(* value of the bit only decides how long the correction takes.            *)
(***************************************************************************)
Id == Node \X Nat

Item(n) == [id : Id, peer : DOMAIN Peers[n], protocol : Protocols,
            has_qubit : BOOLEAN, operating : BOOLEAN, x : BOOLEAN, z : BOOLEAN]

Message == [type : {"Qubit", "Classical", "NACK", "AWK"}, id : Id,
            protocol : Protocols, src : Node, dst : Node,
            x : BOOLEAN, z : BOOLEAN]

Event == [fn : {"SendClassical", "LocalGate", "ReleaseQubit"},
          node : Node, id : Id, sender : BOOLEAN]

Functions == {"Send", "ReceiveQubit", "ReceiveClassical", "ReceiveNACK",
              "SendClassical", "ReleaseQubit"}

Matches(seq, id) == {i \in DOMAIN seq : seq[i].id = id}
Has(seq, id) == \E i \in DOMAIN seq : seq[i].id = id

\* The index the search loops find: the first item with this id.
Slot(seq, id) == CHOOSE i \in Matches(seq, id) :
                   \A j \in Matches(seq, id) : i <= j

\* The index the loop over m_classic_storage ends with: it has no break.
LastSlot(seq, id) == CHOOSE i \in Matches(seq, id) :
                       \A j \in Matches(seq, id) : j <= i

PeerIndex(n, m) == CHOOSE i \in DOMAIN Peers[n] : Peers[n][i] = m

\* Mutant of Packet: sent to the index in place of the address.
PacketToIndex(type, n, peer, id, protocol, x, z) ==
  [type |-> type, id |-> id, protocol |-> protocol,
   src |-> n, dst |-> peer, x |-> x, z |-> z]

Packet(type, n, peer, id, protocol, x, z) ==
  [type |-> type, id |-> id, protocol |-> protocol,
   src |-> n, dst |-> Peers[n][peer], x |-> x, z |-> z]

QubitOf(n, it) ==
  Packet("Qubit", n, it.peer, it.id, it.protocol, FALSE, FALSE)

NACKFor(n, peer, id, protocol) ==
  Packet("NACK", n, peer, id, protocol, FALSE, FALSE)

\* SendTo on a socket that StopApplication closed returns an error, ignored.
Out(n, packets) == IF sock[n] = "bound" THEN packets ELSE {}

\* Mutant of WithoutClassic: the result is kept.
KeepClassic(seq, id) == seq

\* ReleaseClassic erases the first stored result with this id, if any.
WithoutClassic(seq, id) ==
  IF Has(seq, id) THEN RemoveAt(seq, Slot(seq, id)) ELSE seq

\* Mutant of Movable: one qubit stays unused.
MovableOneTooFew(queue, qubits) ==
  IF Len(queue) < NumQubits - Len(qubits) THEN Len(queue)
  ELSE IF Len(qubits) < NumQubits THEN NumQubits - 1 - Len(qubits) ELSE 0

\* How many operations the recursion of Send moves from queue to qubits.
Movable(queue, qubits) ==
  IF Len(queue) <= NumQubits - Len(qubits)
  THEN Len(queue) ELSE NumQubits - Len(qubits)

FirstOf(seq, k) == SubSeq(seq, 1, k)
AfterFirst(seq, k) == SubSeq(seq, k + 1, Len(seq))

\* Handlers run once the applications have started (all at the same instant,
\* ahead of any delivery) and until an assertion fails.
Running == failed = "none" /\ \A n \in Node : sock[n] # "unbound"

\* NS_ASSERT_MSG: the program stops in function fn.
Abort(fn) == /\ failed' = fn
             /\ UNCHANGED <<sock, msg_count, held, data, net, events>>

-----------------------------------------------------------------------------
(***************************************************************************)
(* Starting and stopping.                                                  *)
(***************************************************************************)
\* Run: a new operation joins m_tx_queue, Send moves what fits into m_tx_qubits,
\* and a full queue stops the application.  The event that calls Run again is
\* pending exactly while the socket is bound.
RunBody(n) ==
  \E p \in DOMAIN Peers[n], protocol \in Protocols :
    LET item == [id |-> <<n, msg_count[n]>>, peer |-> p, protocol |-> protocol,
                 has_qubit |-> FALSE, operating |-> FALSE, x |-> FALSE, z |-> FALSE]
        waiting == Append(tx_queue[n], item)
        k == Movable(waiting, tx_qubits[n])
    IN IF \A i \in 1..k : waiting[i].id \in data[n] \cup {item.id}
       THEN /\ msg_count' = [msg_count EXCEPT ![n] = @ + 1]
            /\ tx_queue'  = [tx_queue EXCEPT ![n] = AfterFirst(waiting, k)]
            /\ tx_qubits' = [tx_qubits EXCEPT ![n] = @ \o FirstOf(waiting, k)]
            /\ data' = [data EXCEPT ![n] = @ \cup {item.id}]
            /\ net'  = net \cup {QubitOf(n, waiting[i]) : i \in 1..k}
            /\ sock' = [sock EXCEPT ![n] = IF Len(waiting) - k >= MaxTxQueue
                                           THEN "closed" ELSE "bound"]
            /\ UNCHANGED <<rx_queue, rx_qubits, storage, events, failed>>
       ELSE Abort("Send")

StartApplication(n) ==
  /\ failed = "none"
  /\ sock[n] = "unbound"
  /\ RunBody(n)

Run(n) ==
  /\ Running
  /\ sock[n] = "bound"
  /\ msg_count[n] < MaxMsg[n]
  /\ RunBody(n)

StopApplication(n) ==
  /\ Running
  /\ n \in Stops
  /\ sock[n] = "bound"
  /\ sock' = [sock EXCEPT ![n] = "closed"]
  /\ UNCHANGED <<msg_count, held, data, net, events, failed>>

-----------------------------------------------------------------------------
(***************************************************************************)
(* ReleaseQubit.  At the sender the freed qubit goes to the next operation *)
(* of m_tx_queue (Send).                                                   *)
(***************************************************************************)
ReleaseAtSender(n, id) ==
  LET rest == RemoveAt(tx_qubits[n], Slot(tx_qubits[n], id))
      k == Movable(tx_queue[n], rest)
      moved == FirstOf(tx_queue[n], k)
  IN IF Has(tx_qubits[n], id) /\ id \in data[n]
          /\ \A i \in 1..k : moved[i].id \in data[n]
     THEN /\ tx_qubits' = [tx_qubits EXCEPT ![n] = rest \o moved]
          /\ tx_queue' = [tx_queue EXCEPT ![n] = AfterFirst(@, k)]
          /\ data' = [data EXCEPT ![n] = @ \ {id}]
          /\ net' = net \cup Out(n, {QubitOf(n, moved[i]) : i \in 1..k})
          /\ UNCHANGED <<sock, msg_count, rx_queue, rx_qubits, storage, failed>>
     ELSE failed' = "ReleaseQubit"
          /\ UNCHANGED <<sock, msg_count, held, data, net>>

(***************************************************************************)
(* At the receiver the head of m_rx_queue is asked for again with a NACK.  *)
(* `item` is a reference into m_rx_qubits that outlives the erase, so      *)
(* `item = m_rx_queue[0]` overwrites whatever moved into the erased place. *)
(* Only when the erased item was the last one does it write behind the end *)
(* of the vector: then no place is kept for the promoted operation.        *)
(***************************************************************************)
ReleasedRx(n, id) ==
  LET s == Slot(rx_qubits[n], id)
      rest == RemoveAt(rx_qubits[n], s)
  IN IF rx_queue[n] # <<>> /\ s <= Len(rest)
     THEN [rest EXCEPT ![s] = Head(rx_queue[n])] ELSE rest

\* Mutant of Promoted: nobody is asked.
PromotedNone(n) == {}

Promoted(n) ==
  LET h == Head(rx_queue[n])
  IN IF rx_queue[n] = <<>> THEN {} ELSE {NACKFor(n, h.peer, h.id, h.protocol)}

CanReleaseRx(n, id) ==
  /\ Has(rx_qubits[n], id)
  /\ id \in data[n]
  /\ rx_queue[n] # <<>> => Head(rx_queue[n]).id \in data[n]

\* sent: the packets the calling handler sends in the same event.
ReleaseAtReceiver(n, id, sent) ==
  /\ rx_qubits' = [rx_qubits EXCEPT ![n] = ReleasedRx(n, id)]
  /\ rx_queue' = [rx_queue EXCEPT ![n] = IF @ = <<>> THEN @ ELSE Tail(@)]
  /\ data' = [data EXCEPT ![n] = @ \ {id}]
  /\ net' = net \cup Out(n, sent \cup Promoted(n))

ReleaseQubit(n, id) ==
  /\ Running
  /\ \E e \in events :
       /\ e.fn = "ReleaseQubit" /\ e.node = n /\ e.id = id
       /\ events' = events \ {e}
       /\ \/ e.sender /\ ReleaseAtSender(n, id)
          \/ /\ ~e.sender
             /\ IF CanReleaseRx(n, id)
                THEN /\ ReleaseAtReceiver(n, id, {})
                     /\ UNCHANGED <<sock, msg_count, tx_queue, tx_qubits, storage, failed>>
                ELSE failed' = "ReleaseQubit"
                     /\ UNCHANGED <<sock, msg_count, held, data, net>>

-----------------------------------------------------------------------------
(***************************************************************************)
(* DataReceiveCallback.                                                    *)
(***************************************************************************)
Arrives(m, type, n, id) ==
  m.type = type /\ m.dst = n /\ m.id = id /\ sock[n] = "bound"

\* Mutant of SendNACK: the packet is not discarded, a break is missing.
SendNACKFallThrough(n, m) ==
  /\ net' = net \cup {NACKFor(n, PeerIndex(n, m.src), m.id, m.protocol)}
  /\ data' = [data EXCEPT ![n] = @ \cup {m.id}]
  /\ UNCHANGED <<sock, msg_count, held, events, failed>>

\* A spoiled packet is answered with a NACK.  m_data[id].nacks++ makes a record
\* when there is none, which keeps the key; insert does not replace it later.
SendNACK(n, m) ==
  /\ net' = (net \ {m}) \cup {NACKFor(n, PeerIndex(n, m.src), m.id, m.protocol)}
  /\ data' = [data EXCEPT ![n] = @ \cup {m.id}]
  /\ UNCHANGED <<sock, msg_count, held, events, failed>>

QubitSpoiled(n, id) ==
  /\ Running /\ QFail
  /\ \E m \in net : Arrives(m, "Qubit", n, id) /\ SendNACK(n, m)

ClassicalSpoiled(n, id) ==
  /\ Running /\ CFail
  /\ \E m \in net : Arrives(m, "Classical", n, id) /\ SendNACK(n, m)

\* Mutant of Room: one qubit too many.
RoomOneTooMany(n) == Len(rx_qubits[n]) <= NumQubits

Room(n) == Len(rx_qubits[n]) < NumQubits

\* Case 0: a qubit.  An operation that has no place yet takes a free qubit or
\* waits in m_rx_queue; with a qubit it starts its local operation.
ReceiveQubit(n, id) ==
  /\ Running
  /\ \E m \in net :
       LET s == Slot(rx_qubits[n], id)
           known == Has(rx_qubits[n], id)
           room == Room(n)
           item == [id |-> id, peer |-> PeerIndex(n, m.src), protocol |-> m.protocol,
                    has_qubit |-> ~known /\ room, operating |-> ~known /\ room,
                    x |-> FALSE, z |-> FALSE]
       IN /\ Arrives(m, "Qubit", n, id)
          /\ IF ~Has(rx_queue[n], id)
                  /\ known => ~rx_qubits[n][s].operating /\ ~rx_qubits[n][s].has_qubit
             THEN /\ rx_qubits' = [rx_qubits EXCEPT ![n] =
                       IF known THEN [@ EXCEPT ![s].has_qubit = TRUE, ![s].operating = TRUE]
                       ELSE IF room THEN Append(@, item) ELSE @]
                  /\ rx_queue' = [rx_queue EXCEPT ![n] =
                       IF known \/ room THEN @ ELSE Append(@, item)]
                  /\ data' = [data EXCEPT ![n] = IF known THEN @ ELSE @ \cup {id}]
                  /\ events' = events \cup
                       IF known \/ room
                       THEN {[fn |-> "SendClassical", node |-> n, id |-> id, sender |-> FALSE]}
                       ELSE {}
                  /\ net' = net \ {m}
                  /\ UNCHANGED <<sock, msg_count, tx_queue, tx_qubits, storage, failed>>
             ELSE Abort("ReceiveQubit")

\* The two results written into the item of the operation.
WithResults(seq, id, x, z) ==
  [seq EXCEPT ![Slot(seq, id)].x = x, ![Slot(seq, id)].z = z]

\* Mutant of AckPeer: m_peers[1] for a telegate too.
AckPeerSecond(atSender, item) == 2

\* The index of the peer an AWK goes to.
AckPeer(atSender, item) == IF atSender THEN 2 ELSE item.peer

\* Case 1: a classical result.  ApplyConditional corrects the qubit, drops the
\* own stored result and acknowledges: the receiver of a telegate to its peer,
\* the sender of a teledata to m_peers[1], because `true` is passed as the peer.
\* The sender of a telegate first runs its local gate.
ReceiveClassical(n, id) ==
  /\ Running
  /\ \E m \in net :
       LET atReceiver == Has(rx_qubits[n], id)
           atSender == ~atReceiver /\ Has(tx_qubits[n], id)
           Update(seq) == WithResults(seq, id, m.x, m.z)
           item == rx_qubits[n][Slot(rx_qubits[n], id)]
           ack(peer) == Packet("AWK", n, peer, id, m.protocol, FALSE, FALSE)
           local == atSender /\ m.protocol = "telegate"
       IN /\ Arrives(m, "Classical", n, id)
          /\ IF \/ local
                \/ atSender /\ m.x /\ m.z /\ id \in data[n]
                \/ atReceiver /\ m.protocol = "telegate" /\ m.z /\ id \in data[n]
             THEN /\ rx_qubits' = [rx_qubits EXCEPT ![n] = IF atReceiver THEN Update(@) ELSE @]
                  /\ tx_qubits' = [tx_qubits EXCEPT ![n] =
                       IF local THEN [Update(@) EXCEPT ![Slot(@, id)].operating = TRUE]
                       ELSE IF atSender THEN Update(@) ELSE @]
                  /\ events' = events \cup
                       {[fn |-> IF local THEN "LocalGate" ELSE "ReleaseQubit",
                         node |-> n, id |-> id, sender |-> atSender]}
                  /\ net' = (net \ {m}) \cup
                       IF local THEN {} ELSE {ack(AckPeer(atSender, item))}
                  /\ storage' = [storage EXCEPT ![n] =
                       IF local THEN @ ELSE WithoutClassic(@, id)]
                  /\ UNCHANGED <<sock, msg_count, tx_queue, rx_queue, data, failed>>
             ELSE Abort("ReceiveClassical")

\* Case 2: a NACK.  The stored result is sent again, or else the qubit.
ReceiveNACK(n, id) ==
  /\ Running
  /\ \E m \in net :
       LET stored == Has(storage[n], id)
           it == storage[n][LastSlot(storage[n], id)]
           qubit == tx_qubits[n][Slot(tx_qubits[n], id)]
       IN /\ Arrives(m, "NACK", n, id)
          /\ IF /\ stored \/ Has(tx_qubits[n], id)
                /\ Has(tx_qubits[n], id) => ~qubit.operating
                /\ \A i \in Matches(storage[n], id) : storage[n][i].x \/ storage[n][i].z
             THEN /\ net' = (net \ {m}) \cup
                       {IF stored
                        THEN Packet("Classical", n, it.peer, id, it.protocol, it.x, it.z)
                        ELSE QubitOf(n, qubit)}
                  /\ UNCHANGED <<sock, msg_count, held, data, events, failed>>
             ELSE Abort("ReceiveNACK")

\* Case 3: an AWK.
ReceiveAWK(n, id) ==
  /\ Running
  /\ \E m \in net :
       /\ Arrives(m, "AWK", n, id)
       /\ net' = net \ {m}
       /\ storage' = [storage EXCEPT ![n] = WithoutClassic(@, id)]
       /\ UNCHANGED <<sock, msg_count, tx_queue, tx_qubits, rx_queue, rx_qubits,
                      data, events, failed>>

-----------------------------------------------------------------------------
\* Mutant of DoneAtOnce: the test for the protocol is missing.
DoneAlways(protocol) == TRUE

\* A teledata receiver is done with its qubit once it has measured it.
DoneAtOnce(protocol) == protocol = "teledata"

(***************************************************************************)
(* SendClassical at the receiver: the measured result is stored and sent.  *)
(* The lookups take index 0 when the id is missing and then compare the    *)
(* ids.  On an empty vector that reads the storage of an erased item,      *)
(* which no longer holds the missing id, so the comparison fails too.      *)
(***************************************************************************)
SendClassical(n, id) ==
  LET s == Slot(rx_qubits[n], id)
      item == rx_qubits[n][s]
      teledata == item.protocol = "teledata"
      result == [item EXCEPT !.operating = FALSE, !.x = TRUE, !.z = teledata]
      sent == {Packet("Classical", n, item.peer, id, item.protocol, TRUE, teledata)}
  IN /\ Running
     /\ \E e \in events :
          /\ e.fn = "SendClassical" /\ e.node = n /\ e.id = id
          /\ events' = events \ {e}
     /\ IF ~Has(rx_qubits[n], id)
        THEN failed' = "SendClassical" /\ UNCHANGED <<sock, msg_count, held, data, net>>
        ELSE IF ~item.operating
        THEN UNCHANGED <<sock, msg_count, held, data, net, failed>>
        ELSE IF DoneAtOnce(item.protocol) /\ ~CanReleaseRx(n, id)
        THEN failed' = "ReleaseQubit" /\ UNCHANGED <<sock, msg_count, held, data, net>>
        ELSE /\ storage' = [storage EXCEPT ![n] = Append(@, result)]
             /\ IF DoneAtOnce(item.protocol)
                THEN ReleaseAtReceiver(n, id, sent)
                ELSE /\ rx_qubits' = [rx_qubits EXCEPT ![n][s].operating = FALSE]
                     /\ net' = net \cup Out(n, sent)
                     /\ UNCHANGED <<rx_queue, data>>
             /\ UNCHANGED <<sock, msg_count, tx_queue, tx_qubits, failed>>

(***************************************************************************)
(* At the sender of a telegate SendClassical and ApplyConditional are      *)
(* scheduled by the same handler for the same instant: the simulator runs  *)
(* them one right after the other, and they are one step here.             *)
(***************************************************************************)
LocalGate(n, id) ==
  LET s == Slot(tx_qubits[n], id)
      item == tx_qubits[n][s]
      result == [item EXCEPT !.operating = FALSE, !.x = FALSE, !.z = TRUE]
      release == [fn |-> "ReleaseQubit", node |-> n, id |-> id, sender |-> TRUE]
  IN /\ Running
     /\ \E e \in events :
          /\ e.fn = "LocalGate" /\ e.node = n /\ e.id = id
          /\ IF Has(tx_qubits[n], id) /\ item.protocol = "telegate" /\ item.x
             THEN /\ events' = (events \ {e}) \cup {release}
                  /\ IF item.operating
                     THEN /\ tx_qubits' = [tx_qubits EXCEPT ![n][s].operating = FALSE]
                          /\ storage' = [storage EXCEPT ![n] = Append(@, result)]
                          /\ net' = net \cup Out(n,
                               {Packet("Classical", n, item.peer, id, item.protocol, FALSE, TRUE)})
                     ELSE UNCHANGED <<tx_qubits, storage, net>>
                  /\ UNCHANGED <<sock, msg_count, tx_queue, rx_queue, rx_qubits, data, failed>>
             ELSE Abort("SendClassical")

-----------------------------------------------------------------------------
\* A packet that reaches no bound socket, or that the optical network lost.
Lose ==
  /\ Running
  /\ \E m \in net :
       /\ Lossy \/ sock[m.dst] # "bound"
       /\ net' = net \ {m}
  /\ UNCHANGED <<sock, msg_count, held, data, events, failed>>

Init ==
  /\ sock = [n \in Node |-> "unbound"]
  /\ msg_count = [n \in Node |-> 0]
  /\ tx_queue = [n \in Node |-> <<>>]
  /\ tx_qubits = [n \in Node |-> <<>>]
  /\ rx_queue = [n \in Node |-> <<>>]
  /\ rx_qubits = [n \in Node |-> <<>>]
  /\ storage = [n \in Node |-> <<>>]
  /\ data = [n \in Node |-> {}]
  /\ net = {}
  /\ events = {}
  /\ failed = "none"

InFlight == {m.id : m \in net}
Scheduled == {e.id : e \in events}

Timer(n, id) ==
  SendClassical(n, id) \/ LocalGate(n, id) \/ ReleaseQubit(n, id)

Next ==
  \/ \E n \in Node : StartApplication(n)
  \/ \E n \in Node : Run(n)
  \/ \E n \in Node : StopApplication(n)
  \/ \E n \in Node, id \in InFlight : QubitSpoiled(n, id)
  \/ \E n \in Node, id \in InFlight : ClassicalSpoiled(n, id)
  \/ \E n \in Node, id \in InFlight : ReceiveQubit(n, id)
  \/ \E n \in Node, id \in InFlight : ReceiveClassical(n, id)
  \/ \E n \in Node, id \in InFlight : ReceiveNACK(n, id)
  \/ \E n \in Node, id \in InFlight : ReceiveAWK(n, id)
  \/ \E n \in Node, id \in Scheduled : SendClassical(n, id)
  \/ \E n \in Node, id \in Scheduled : LocalGate(n, id)
  \/ \E n \in Node, id \in Scheduled : ReleaseQubit(n, id)
  \/ Lose

Spec == Init /\ [][Next]_vars

(***************************************************************************)
(* Fairness.  The simulator runs every scheduled event and every delivery. *)
(* A packet that is sent again and again is spoiled each time with a       *)
(* probability below one, so that infinitely many deliveries include a     *)
(* good one: strong fairness on the deliveries that can be spoiled.        *)
(***************************************************************************)
Fairness ==
  /\ WF_vars(\E n \in Node : StartApplication(n))
  /\ WF_vars(\E n \in Node, id \in Scheduled : Timer(n, id))
  /\ WF_vars(\E n \in Node, id \in InFlight : ReceiveNACK(n, id) \/ ReceiveAWK(n, id))
  /\ SF_vars(\E n \in Node, id \in InFlight : ReceiveQubit(n, id))
  /\ SF_vars(\E n \in Node, id \in InFlight : ReceiveClassical(n, id))

FairSpec == Spec /\ Fairness
-----------------------------------------------------------------------------
(***************************************************************************)
(* Properties.                                                             *)
(***************************************************************************)
TypeOK ==
  /\ sock \in [Node -> {"unbound", "bound", "closed"}]
  /\ msg_count \in [Node -> Nat]
  /\ DOMAIN tx_queue = Node /\ DOMAIN tx_qubits = Node
  /\ DOMAIN rx_queue = Node /\ DOMAIN rx_qubits = Node /\ DOMAIN storage = Node
  /\ \A n \in Node :
       /\ tx_queue[n] \in Seq(Item(n)) /\ tx_qubits[n] \in Seq(Item(n))
       /\ rx_queue[n] \in Seq(Item(n)) /\ rx_qubits[n] \in Seq(Item(n))
       /\ storage[n] \in Seq(Item(n))
  /\ data \in [Node -> SUBSET Id]
  /\ net \subseteq Message
  /\ events \subseteq Event
  /\ failed \in Functions \cup {"none"}

\* A node never holds more qubits for a direction than NumQubits, whatever path
\* filled the place: Run, the recursion of Send, a qubit that arrives, or the
\* assignment of a queued operation in ReleaseQubit.
QubitLimit ==
  \A n \in Node : /\ Len(tx_qubits[n]) <= NumQubits
                  /\ Len(rx_qubits[n]) <= NumQubits

\* An operation waits in m_tx_queue only while every qubit of its node is in
\* use: Run and ReleaseQubit never leave a free qubit beside a waiting one.
WorkConserving ==
  \A n \in Node : tx_queue[n] # <<>> => Len(tx_qubits[n]) >= NumQubits

\* No NS_ASSERT_MSG of the application fails.
AssertionsHold == failed = "none"

\* What will make operation id take its next step: a packet in flight, an event,
\* or a place in the m_rx_queue of its receiver.  The sender of a telegate frees
\* its qubit on its own while the receiver still waits for the result.
Drivers(id) ==
       {m \in net : m.id = id /\ m.type # "AWK"}
  \cup {e \in events : e.id = id /\ ~(e.fn = "ReleaseQubit" /\ e.sender)}
  \cup {n \in Node : Has(rx_queue[n], id)}

SenderRelease(id) ==
  {e \in events : e.id = id /\ e.fn = "ReleaseQubit" /\ e.sender}

Known == UNION {data[n] : n \in Node}

\* An operation is never driven twice: no qubit or result is on its way while
\* another, a retransmission request or a local operation is pending for it.
SingleDriver == \A id \in Known : Cardinality(Drivers(id)) <= 1

\* No operation keeps a qubit with nothing left to free it.
NoOrphan ==
  Running => \A n \in Node :
    /\ \A i \in DOMAIN tx_qubits[n] :
         LET id == tx_qubits[n][i].id IN Drivers(id) # {} \/ SenderRelease(id) # {}
    /\ \A i \in DOMAIN rx_qubits[n] : Drivers(rx_qubits[n][i].id) # {}

Completed(id) == id[2] < msg_count[id[1]] /\ id \notin data[id[1]]

\* Once the sender has finished an operation no receiver starts it again or
\* waits for its qubit.
NoZombie ==
  /\ \A m \in net : m.type = "Qubit" => ~Completed(m.id)
  /\ \A e \in events : e.fn = "SendClassical" => ~Completed(e.id)
  /\ \A n \in Node : \A i \in DOMAIN rx_queue[n] : ~Completed(rx_queue[n][i].id)

\* When nothing is pending, every operation started has given back its qubits,
\* its queue places, its record and, for a telegate, its stored results.
CleanAtRest ==
  Running /\ net = {} /\ events = {} =>
    \A n \in Node :
      /\ <<tx_queue[n], tx_qubits[n], rx_queue[n], rx_qubits[n]>> = <<<<>>, <<>>, <<>>, <<>>>>
      /\ data[n] = {}
      /\ \A i \in DOMAIN storage[n] : storage[n][i].protocol = "teledata"

\* The acknowledgement of a telegate is addressed to a node that still keeps the
\* result it is for.  (A teledata one goes to m_peers[1], whoever that is.)
AckReachesHolder ==
  \A m \in net : m.type = "AWK" /\ m.protocol = "telegate" => Has(storage[m.dst], m.id)

\* The assertion "Item not found." of SendClassical, ApplyConditional and
\* ReleaseQubit: an event scheduled for an operation finds it.
ItemFound == failed \notin {"SendClassical", "ReleaseQubit"}

\* Every operation a node starts is finished at both ends.
EveryOperationCompletes ==
  \A n \in Node : \A k \in 0..(MaxMsg[n] - 1) :
    (<<n, k>> \in data[n]) ~> (<<n, k>> \notin Known)
=============================================================================
