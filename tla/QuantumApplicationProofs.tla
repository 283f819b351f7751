----------------------- MODULE QuantumApplicationProofs -----------------------
(***************************************************************************)
(* Proofs about the application, for any peers, any number of qubits and   *)
(* any faults: its type invariant, that no more qubits are held than there *)
(* are, and that no operation waits in m_tx_queue beside a free one.       *)
(*                                                                         *)
(* The induction needs that a packet comes from a peer of the node it is   *)
(* addressed to (DataReceiveCallback looks its index up), which holds      *)
(* because peering is mutual.  The properties of the lists are kept per    *)
(* node: a handler changes the lists of its own node only.                 *)
(*                                                                         *)
(* The second part relates the two ends of an operation, for the           *)
(* assertions and for what must not be lost, and the last one says that    *)
(* nothing is left behind; see there.                                      *)
(***************************************************************************)
EXTENDS QuantumApplication, SequencesExt, SequenceTheorems, WellFoundedInduction,
        FiniteSetTheorems, TLAPS

\* The search loops find a first match whenever there is one.
LEMMA SetHasMin ==
  ASSUME NEW S \in SUBSET Nat, S # {}
  PROVE  \E x \in S : \A y \in S : x <= y
<1>1. PICK x \in S : \A y \in S : ~ (<<y, x>> \in OpToRel(<, Nat))
  BY WFMin, NatLessThanWellFounded
<1>2. \A y \in S : ~(y < x)
  BY <1>1 DEF OpToRel
<1> QED BY <1>2

\* vector::erase keeps the other items, in their order.
LEMMA RemoveAtElements ==
  ASSUME NEW S, NEW s \in Seq(S), NEW k \in 1..Len(s)
  PROVE  /\ RemoveAt(s, k) \in Seq(S)
         /\ Len(RemoveAt(s, k)) = Len(s) - 1
         /\ \A i \in 1..(Len(s) - 1) : RemoveAt(s, k)[i] = IF i < k THEN s[i] ELSE s[i + 1]
<1> DEFINE a == SubSeq(s, 1, k - 1)
           b == SubSeq(s, k + 1, Len(s))
<1>1. /\ a \in Seq(S) /\ Len(a) = k - 1 /\ \A i \in 1..(k - 1) : a[i] = s[i]
  BY SubSeqProperties
<1>2. /\ b \in Seq(S) /\ Len(b) = Len(s) - k /\ \A i \in 1..(Len(s) - k) : b[i] = s[k + i]
  BY SubSeqProperties
<1>3. RemoveAt(s, k) = a \o b
  BY DEF RemoveAt
<1>4. Len(s) \in Nat
  BY LenProperties
<1> HIDE DEF a, b
<1>5. /\ a \o b \in Seq(S) /\ Len(a \o b) = Len(a) + Len(b)
      /\ \A i \in 1..(Len(a) + Len(b)) :
           (a \o b)[i] = IF i <= Len(a) THEN a[i] ELSE b[i - Len(a)]
  BY <1>1, <1>2, ConcatProperties
<1>6. Len(a) + Len(b) = Len(s) - 1
  BY <1>1, <1>2, <1>4
<1>7. ASSUME NEW i \in 1..(Len(s) - 1)
      PROVE  (a \o b)[i] = IF i < k THEN s[i] ELSE s[i + 1]
  <2>0. (a \o b)[i] = IF i <= k - 1 THEN a[i] ELSE b[i - (k - 1)]
    BY <1>1, <1>5, <1>6
  <2>1. CASE i < k
    <3>1. i \in 1..(k - 1) /\ i <= k - 1
      BY <1>4, <2>1
    <3> QED
      BY <1>1, <2>0, <2>1, <3>1
  <2>2. CASE ~(i < k)
    <3>1. i - (k - 1) \in 1..(Len(s) - k) /\ k + (i - (k - 1)) = i + 1 /\ ~(i <= k - 1)
      BY <1>4, <2>2
    <3> QED
      BY <1>2, <2>0, <2>2, <3>1
  <2> QED
    BY <2>1, <2>2
<1> QED
  BY <1>3, <1>5, <1>6, <1>7

\* A packet whose sender is a peer of the node it is addressed to.
PeerMessage == {m \in Message : \E i \in DOMAIN Peers[m.dst] : Peers[m.dst][i] = m.src}

\* What is true of the lists of node n.
NodeOK(n, txq, tx, rxq, rx, st) ==
  /\ txq \in Seq(Item(n)) /\ tx \in Seq(Item(n))
  /\ rxq \in Seq(Item(n)) /\ rx \in Seq(Item(n)) /\ st \in Seq(Item(n))
  /\ Len(tx) <= NumQubits /\ Len(rx) <= NumQubits
  /\ txq # <<>> => Len(tx) >= NumQubits

HeldOK ==
  /\ DOMAIN tx_queue = Node /\ DOMAIN tx_qubits = Node
  /\ DOMAIN rx_queue = Node /\ DOMAIN rx_qubits = Node /\ DOMAIN storage = Node
  /\ \A n \in Node :
       NodeOK(n, tx_queue[n], tx_qubits[n], rx_queue[n], rx_qubits[n], storage[n])

RestOK ==
  /\ sock \in [Node -> {"unbound", "bound", "closed"}]
  /\ msg_count \in [Node -> Nat]
  /\ data \in [Node -> SUBSET Id]
  /\ net \subseteq PeerMessage
  /\ events \subseteq Event
  /\ failed \in Functions \cup {"none"}

IInv == HeldOK /\ RestOK

-----------------------------------------------------------------------------
(***************************************************************************)
(* Searching and changing lists.                                           *)
(***************************************************************************)

\* The search loops end at an item with this id, when there is one.
LEMMA SlotFound ==
  ASSUME NEW S, NEW seq \in Seq(S), NEW id, Has(seq, id)
  PROVE  Slot(seq, id) \in 1..Len(seq) /\ seq[Slot(seq, id)].id = id
<1>1. Matches(seq, id) \subseteq 1..Len(seq) /\ Len(seq) \in Nat
  BY LenProperties DEF Matches
<1>2. PICK i \in Matches(seq, id) : \A j \in Matches(seq, id) : i <= j
  <2>1. Matches(seq, id) \in SUBSET Nat /\ Matches(seq, id) # {}
    BY <1>1 DEF Has, Matches
  <2> QED
    BY <2>1, SetHasMin
<1>3. Slot(seq, id) \in Matches(seq, id)
  BY <1>2 DEF Slot
<1> QED
  BY <1>1, <1>3 DEF Matches

\* The loop without a break ends at an item with this id too.
LEMMA LastSlotFound ==
  ASSUME NEW S, NEW seq \in Seq(S), NEW id, Has(seq, id)
  PROVE  LastSlot(seq, id) \in 1..Len(seq) /\ seq[LastSlot(seq, id)].id = id
<1> DEFINE FromEnd == {k \in Nat : Len(seq) - k \in Matches(seq, id)}
<1>1. Matches(seq, id) \subseteq 1..Len(seq) /\ Len(seq) \in Nat
  BY LenProperties DEF Matches
<1>2. PICK i \in Matches(seq, id) : TRUE
  BY DEF Has, Matches
<1>3. Len(seq) - i \in FromEnd
  <2>1. Len(seq) - i \in Nat /\ Len(seq) - (Len(seq) - i) = i
    BY <1>1, <1>2
  <2> QED
    BY <1>2, <2>1
<1>4. PICK k \in FromEnd : \A l \in FromEnd : k <= l
  <2>1. FromEnd \in SUBSET Nat /\ FromEnd # {}
    BY <1>3
  <2> HIDE DEF FromEnd
  <2> QED
    BY <2>1, SetHasMin
<1>5. ASSUME NEW j \in Matches(seq, id)
      PROVE  j <= Len(seq) - k
  <2>1. Len(seq) - j \in Nat /\ Len(seq) - (Len(seq) - j) = j
    BY <1>1
  <2>2. k <= Len(seq) - j
    BY <1>4, <2>1
  <2> QED
    BY <1>1, <1>4, <2>2
<1>6. LastSlot(seq, id) \in Matches(seq, id)
  BY <1>4, <1>5 DEF LastSlot
<1> QED
  BY <1>1, <1>6 DEF Matches

LEMMA WithoutClassicType ==
  ASSUME NEW S, NEW seq \in Seq(S), NEW id
  PROVE  WithoutClassic(seq, id) \in Seq(S)
BY SlotFound, RemoveAtElements DEF WithoutClassic

\* Send moves no more operations than there are and than there are free qubits,
\* and leaves none waiting unless the qubits are all in use.
LEMMA MovableRange ==
  ASSUME NEW S, NEW queue \in Seq(S), NEW qubits \in Seq(S), Len(qubits) <= NumQubits
  PROVE  /\ Movable(queue, qubits) \in 0..Len(queue)
         /\ Len(qubits) + Movable(queue, qubits) <= NumQubits
         /\ Movable(queue, qubits) # Len(queue) =>
              Len(qubits) + Movable(queue, qubits) = NumQubits
<1>1. Len(queue) \in Nat /\ Len(qubits) \in Nat /\ NumQubits \in Nat
  BY LenProperties, ParametersAssumption
<1> QED
  BY <1>1 DEF Movable

LEMMA SplitAt ==
  ASSUME NEW S, NEW seq \in Seq(S), NEW k \in 0..Len(seq)
  PROVE  /\ FirstOf(seq, k) \in Seq(S) /\ Len(FirstOf(seq, k)) = k
         /\ \A i \in 1..k : FirstOf(seq, k)[i] = seq[i] /\ seq[i] \in S
         /\ AfterFirst(seq, k) \in Seq(S) /\ Len(AfterFirst(seq, k)) = Len(seq) - k
<1>1. Len(seq) \in Nat /\ \A i \in 1..Len(seq) : seq[i] \in S
  BY LenProperties, ElementOfSeq
<1>2. /\ SubSeq(seq, 1, k) \in Seq(S) /\ Len(SubSeq(seq, 1, k)) = k
      /\ \A i \in 1..k : SubSeq(seq, 1, k)[i] = seq[i]
  <2>1. \A i \in 1..k : seq[i] \in S
    BY <1>1
  <2>2. /\ SubSeq(seq, 1, k) \in Seq(S)
        /\ Len(SubSeq(seq, 1, k)) = IF 1 <= k THEN k - 1 + 1 ELSE 0
        /\ \A i \in 1..(k - 1 + 1) : SubSeq(seq, 1, k)[i] = seq[1 + i - 1]
    BY <2>1, SubSeqProperties
  <2> QED
    BY <2>2
<1>3. /\ SubSeq(seq, k + 1, Len(seq)) \in Seq(S)
      /\ Len(SubSeq(seq, k + 1, Len(seq))) = Len(seq) - k
  <2>1. \A i \in (k + 1)..Len(seq) : seq[i] \in S
    BY <1>1
  <2>2. /\ SubSeq(seq, k + 1, Len(seq)) \in Seq(S)
        /\ Len(SubSeq(seq, k + 1, Len(seq))) =
             IF k + 1 <= Len(seq) THEN Len(seq) - (k + 1) + 1 ELSE 0
    BY <1>1, <2>1, SubSeqProperties
  <2> QED
    BY <1>1, <2>2
<1> QED
  BY <1>1, <1>2, <1>3 DEF FirstOf, AfterFirst

\* What Send does to the two lists of a sender.
LEMMA SendMoves ==
  ASSUME NEW S, NEW queue \in Seq(S), NEW qubits \in Seq(S), Len(qubits) <= NumQubits
  PROVE  LET k == Movable(queue, qubits)
             after == AfterFirst(queue, k)
             held_after == qubits \o FirstOf(queue, k)
         IN /\ k \in 0..Len(queue)
            /\ after \in Seq(S) /\ held_after \in Seq(S)
            /\ Len(held_after) <= NumQubits
            /\ after # <<>> => Len(held_after) >= NumQubits
            /\ \A i \in 1..k : FirstOf(queue, k)[i] = queue[i] /\ queue[i] \in S
<1> DEFINE k == Movable(queue, qubits)
<1>1. /\ k \in 0..Len(queue)
      /\ Len(qubits) + k <= NumQubits
      /\ k # Len(queue) => Len(qubits) + k = NumQubits
  BY MovableRange
<1> HIDE DEF k
<1>2. /\ FirstOf(queue, k) \in Seq(S) /\ Len(FirstOf(queue, k)) = k
      /\ \A i \in 1..k : FirstOf(queue, k)[i] = queue[i] /\ queue[i] \in S
      /\ AfterFirst(queue, k) \in Seq(S) /\ Len(AfterFirst(queue, k)) = Len(queue) - k
  BY <1>1, SplitAt
<1>3. qubits \o FirstOf(queue, k) \in Seq(S) /\ Len(qubits \o FirstOf(queue, k)) = Len(qubits) + k
  BY <1>2, ConcatProperties
<1>4. Len(queue) \in Nat /\ Len(qubits) \in Nat
  BY LenProperties
<1>5. AfterFirst(queue, k) # <<>> => k # Len(queue)
  <2>1. AfterFirst(queue, k) # <<>> => Len(AfterFirst(queue, k)) \in Nat \ {0}
    BY <1>2, EmptySeq
  <2> QED
    BY <1>2, <2>1, <1>4, <1>1
<1>6. /\ Len(qubits \o FirstOf(queue, k)) <= NumQubits
      /\ AfterFirst(queue, k) # <<>> => Len(qubits \o FirstOf(queue, k)) >= NumQubits
  BY <1>1, <1>3, <1>4, <1>5, ParametersAssumption
<1> QED
  BY <1>1, <1>2, <1>3, <1>6 DEF k
-----------------------------------------------------------------------------
(***************************************************************************)
(* Packets and items.                                                      *)
(***************************************************************************)
LEMMA PeersFacts ==
  ASSUME NEW n \in Node
  PROVE  /\ DOMAIN Peers[n] = 1..Len(Peers[n]) /\ Len(Peers[n]) \in Nat
         /\ 2 \in DOMAIN Peers[n]
         /\ \A i \in DOMAIN Peers[n] :
              /\ Peers[n][i] \in Node
              /\ \E j \in DOMAIN Peers[Peers[n][i]] : Peers[Peers[n][i]][j] = n
<1>1. Peers[n] \in Seq(Node)
  BY PeersAssumption
<1>2. DOMAIN Peers[n] = 1..Len(Peers[n]) /\ Len(Peers[n]) \in Nat
  BY <1>1, LenProperties
<1>3. \A i \in DOMAIN Peers[n] : Peers[n][i] \in Node
  BY <1>1, <1>2, ElementOfSeq
<1>4. Len(Peers[n]) >= 2
  BY PeersAssumption
<1>5. \A i \in DOMAIN Peers[n] : \E j \in DOMAIN Peers[Peers[n][i]] : Peers[Peers[n][i]][j] = n
  BY PeersAssumption
<1> QED
  BY <1>2, <1>3, <1>4, <1>5

\* What a node sends to a peer comes from a peer of the one that gets it.
LEMMA PacketType ==
  ASSUME NEW n \in Node, NEW peer \in DOMAIN Peers[n], NEW id \in Id,
         NEW protocol \in Protocols,
         NEW type \in {"Qubit", "Classical", "NACK", "AWK"},
         NEW x \in BOOLEAN, NEW z \in BOOLEAN
  PROVE  Packet(type, n, peer, id, protocol, x, z) \in PeerMessage
<1> DEFINE p == Packet(type, n, peer, id, protocol, x, z)
<1>1. Peers[n][peer] \in Node /\ \E j \in DOMAIN Peers[Peers[n][peer]] : Peers[Peers[n][peer]][j] = n
  BY PeersFacts
<1>2. p \in Message
  BY <1>1 DEF Packet, Message
<1>3. p.dst = Peers[n][peer] /\ p.src = n
  BY DEF Packet
<1> QED
  BY <1>1, <1>2, <1>3 DEF PeerMessage

LEMMA MessageFields ==
  ASSUME NEW m \in PeerMessage
  PROVE  /\ m.id \in Id /\ m.protocol \in Protocols
         /\ m.src \in Node /\ m.dst \in Node /\ m.x \in BOOLEAN /\ m.z \in BOOLEAN
         /\ PeerIndex(m.dst, m.src) \in DOMAIN Peers[m.dst]
<1>1. m \in Message /\ \E i \in DOMAIN Peers[m.dst] : Peers[m.dst][i] = m.src
  BY DEF PeerMessage
<1>2. PeerIndex(m.dst, m.src) \in DOMAIN Peers[m.dst]
  BY <1>1 DEF PeerIndex
<1> QED
  BY <1>1, <1>2 DEF Message

LEMMA ItemFields ==
  ASSUME NEW n, NEW it \in Item(n)
  PROVE  /\ it.id \in Id /\ it.peer \in DOMAIN Peers[n] /\ it.protocol \in Protocols
         /\ it.has_qubit \in BOOLEAN /\ it.operating \in BOOLEAN
         /\ it.x \in BOOLEAN /\ it.z \in BOOLEAN
BY DEF Item

LEMMA QubitOfType ==
  ASSUME NEW n \in Node, NEW it \in Item(n)
  PROVE  QubitOf(n, it) \in PeerMessage
BY ItemFields, PacketType DEF QubitOf

LEMMA NACKForType ==
  ASSUME NEW n \in Node, NEW peer \in DOMAIN Peers[n], NEW id \in Id, NEW protocol \in Protocols
  PROVE  NACKFor(n, peer, id, protocol) \in PeerMessage
BY PacketType DEF NACKFor

LEMMA OutType ==
  ASSUME NEW n, NEW packets, packets \subseteq PeerMessage
  PROVE  Out(n, packets) \subseteq PeerMessage
BY DEF Out

\* A handler changes the lists of its own node only.
OnlyAt(n, f, g) == DOMAIN g = DOMAIN f /\ \A m \in Node \ {n} : g[m] = f[m]

LEMMA HeldPreserved ==
  ASSUME HeldOK, NEW n \in Node,
         OnlyAt(n, tx_queue, tx_queue'), OnlyAt(n, tx_qubits, tx_qubits'),
         OnlyAt(n, rx_queue, rx_queue'), OnlyAt(n, rx_qubits, rx_qubits'),
         OnlyAt(n, storage, storage'),
         NodeOK(n, tx_queue'[n], tx_qubits'[n], rx_queue'[n], rx_qubits'[n], storage'[n])
  PROVE  HeldOK'
<1>1. ASSUME NEW m \in Node
      PROVE  NodeOK(m, tx_queue'[m], tx_qubits'[m], rx_queue'[m], rx_qubits'[m], storage'[m])
  <2>1. CASE m = n
    BY <2>1
  <2>2. CASE m # n
    <3>1. /\ tx_queue'[m] = tx_queue[m] /\ tx_qubits'[m] = tx_qubits[m]
          /\ rx_queue'[m] = rx_queue[m] /\ rx_qubits'[m] = rx_qubits[m]
          /\ storage'[m] = storage[m]
      BY <2>2 DEF OnlyAt
    <3> QED
      BY <3>1 DEF HeldOK
  <2> QED
    BY <2>1, <2>2
<1>2. /\ DOMAIN tx_queue' = Node /\ DOMAIN tx_qubits' = Node
      /\ DOMAIN rx_queue' = Node /\ DOMAIN rx_qubits' = Node /\ DOMAIN storage' = Node
  BY DEF HeldOK, OnlyAt
<1> QED
  BY <1>1, <1>2 DEF HeldOK, NodeOK

LEMMA OnlyAtExcept ==
  ASSUME NEW n, NEW f, NEW v
  PROVE  /\ OnlyAt(n, f, [f EXCEPT ![n] = v])
         /\ OnlyAt(n, f, f)
         /\ n \in DOMAIN f => [f EXCEPT ![n] = v][n] = v
BY DEF OnlyAt

LEMMA HeldUnchanged ==
  ASSUME HeldOK, UNCHANGED held
  PROVE  HeldOK'
BY DEF HeldOK, held, NodeOK

-----------------------------------------------------------------------------
(***************************************************************************)
(* The steps.                                                              *)
(***************************************************************************)
LEMMA InitIInv == Init => IInv
<1> SUFFICES ASSUME Init PROVE IInv
  OBVIOUS
<1>1. HeldOK
  <2>1. \A n \in Node : NodeOK(n, <<>>, <<>>, <<>>, <<>>, <<>>)
    BY EmptySeq, ParametersAssumption DEF NodeOK
  <2> QED
    BY <2>1 DEF Init, HeldOK
<1>2. RestOK
  BY DEF Init, RestOK
<1> QED
  BY <1>1, <1>2 DEF IInv

LEMMA AbortIInv ==
  ASSUME IInv, NEW fn \in Functions, Abort(fn)
  PROVE  IInv'
<1>1. HeldOK'
  BY HeldUnchanged DEF Abort, IInv
<1>2. RestOK'
  BY DEF Abort, IInv, RestOK
<1> QED
  BY <1>1, <1>2 DEF IInv

LEMMA RunBodyIInv ==
  ASSUME IInv, NEW n \in Node, RunBody(n)
  PROVE  IInv'
<1>1. PICK p \in DOMAIN Peers[n], protocol \in Protocols :
        LET item == [id |-> <<n, msg_count[n]>>, peer |-> p, protocol |-> protocol,
                     has_qubit |-> FALSE, operating |-> FALSE, x |-> FALSE, z |-> FALSE]
            waiting == Append(tx_queue[n], item)
            k == Movable(waiting, tx_qubits[n])
        IN \/ /\ msg_count' = [msg_count EXCEPT ![n] = @ + 1]
              /\ tx_queue'  = [tx_queue EXCEPT ![n] = AfterFirst(waiting, k)]
              /\ tx_qubits' = [tx_qubits EXCEPT ![n] = @ \o FirstOf(waiting, k)]
              /\ data' = [data EXCEPT ![n] = @ \cup {item.id}]
              /\ net'  = net \cup {QubitOf(n, waiting[i]) : i \in 1..k}
              /\ sock' = [sock EXCEPT ![n] = IF Len(waiting) - k >= MaxTxQueue
                                             THEN "closed" ELSE "bound"]
              /\ UNCHANGED <<rx_queue, rx_qubits, storage, events, failed>>
           \/ Abort("Send")
  BY DEF RunBody
<1> DEFINE item == [id |-> <<n, msg_count[n]>>, peer |-> p, protocol |-> protocol,
                    has_qubit |-> FALSE, operating |-> FALSE, x |-> FALSE, z |-> FALSE]
           waiting == Append(tx_queue[n], item)
           k == Movable(waiting, tx_qubits[n])
<1>2. CASE Abort("Send")
  BY <1>2, AbortIInv DEF Functions
<1>3. ASSUME /\ msg_count' = [msg_count EXCEPT ![n] = @ + 1]
             /\ tx_queue'  = [tx_queue EXCEPT ![n] = AfterFirst(waiting, k)]
             /\ tx_qubits' = [tx_qubits EXCEPT ![n] = @ \o FirstOf(waiting, k)]
             /\ data' = [data EXCEPT ![n] = @ \cup {item.id}]
             /\ net'  = net \cup {QubitOf(n, waiting[i]) : i \in 1..k}
             /\ sock' = [sock EXCEPT ![n] = IF Len(waiting) - k >= MaxTxQueue
                                            THEN "closed" ELSE "bound"]
             /\ UNCHANGED <<rx_queue, rx_qubits, storage, events, failed>>
      PROVE  IInv'
  <2>1. NodeOK(n, tx_queue[n], tx_qubits[n], rx_queue[n], rx_qubits[n], storage[n])
    BY DEF IInv, HeldOK
  <2>2. item \in Item(n) /\ item.id \in Id
    <3>1. <<n, msg_count[n]>> \in Id
      BY DEF IInv, RestOK, Id
    <3> QED
      BY <3>1 DEF Item
  <2> HIDE DEF item
  <2>3. waiting \in Seq(Item(n))
    BY <2>1, <2>2, AppendProperties DEF NodeOK
  <2> HIDE DEF waiting
  <2>4. /\ AfterFirst(waiting, k) \in Seq(Item(n))
        /\ tx_qubits[n] \o FirstOf(waiting, k) \in Seq(Item(n))
        /\ Len(tx_qubits[n] \o FirstOf(waiting, k)) <= NumQubits
        /\ AfterFirst(waiting, k) # <<>> => Len(tx_qubits[n] \o FirstOf(waiting, k)) >= NumQubits
        /\ \A i \in 1..k : waiting[i] \in Item(n)
    BY <2>1, <2>3, SendMoves DEF NodeOK
  <2> HIDE DEF k
  <2>5. NodeOK(n, tx_queue'[n], tx_qubits'[n], rx_queue'[n], rx_qubits'[n], storage'[n])
    BY <1>3, <2>1, <2>4 DEF NodeOK, IInv, HeldOK
  <2>6. HeldOK'
    BY <1>3, <2>5, OnlyAtExcept, HeldPreserved DEF IInv
  <2>7. {QubitOf(n, waiting[i]) : i \in 1..k} \subseteq PeerMessage
    BY <2>4, QubitOfType
  <2>8. RestOK'
    <3>1. sock' \in [Node -> {"unbound", "bound", "closed"}]
      BY <1>3 DEF IInv, RestOK
    <3>2. msg_count' \in [Node -> Nat]
      BY <1>3 DEF IInv, RestOK
    <3>3. data' \in [Node -> SUBSET Id]
      BY <1>3, <2>2 DEF IInv, RestOK
    <3> QED
      BY <1>3, <2>7, <3>1, <3>2, <3>3 DEF IInv, RestOK
  <2> QED
    BY <2>6, <2>8 DEF IInv
<1> QED
  BY <1>1, <1>2, <1>3
LEMMA ReleaseAtSenderIInv ==
  ASSUME IInv, NEW n \in Node, NEW id, ReleaseAtSender(n, id), events' \subseteq events
  PROVE  IInv'
<1> DEFINE rest == RemoveAt(tx_qubits[n], Slot(tx_qubits[n], id))
           k == Movable(tx_queue[n], rest)
           moved == FirstOf(tx_queue[n], k)
<1>1. NodeOK(n, tx_queue[n], tx_qubits[n], rx_queue[n], rx_qubits[n], storage[n])
  BY DEF IInv, HeldOK
<1>2. CASE /\ failed' = "ReleaseQubit"
           /\ UNCHANGED <<sock, msg_count, held, data, net>>
  <2>1. HeldOK'
    BY <1>2, HeldUnchanged DEF IInv
  <2> QED
    BY <1>2, <2>1 DEF IInv, RestOK, Functions
<1>3. ASSUME /\ Has(tx_qubits[n], id)
             /\ tx_qubits' = [tx_qubits EXCEPT ![n] = rest \o moved]
             /\ tx_queue' = [tx_queue EXCEPT ![n] = AfterFirst(@, k)]
             /\ data' = [data EXCEPT ![n] = @ \ {id}]
             /\ net' = net \cup Out(n, {QubitOf(n, moved[i]) : i \in 1..k})
             /\ UNCHANGED <<sock, msg_count, rx_queue, rx_qubits, storage, failed>>
      PROVE  IInv'
  <2>1. rest \in Seq(Item(n)) /\ Len(rest) <= NumQubits
    <3>1. Slot(tx_qubits[n], id) \in 1..Len(tx_qubits[n])
      BY <1>1, <1>3, SlotFound DEF NodeOK
    <3>2. Len(rest) = Len(tx_qubits[n]) - 1 /\ rest \in Seq(Item(n))
      BY <1>1, <3>1, RemoveAtElements DEF NodeOK
    <3>3. Len(tx_qubits[n]) \in Nat
      BY <1>1, LenProperties DEF NodeOK
    <3> QED
      BY <1>1, <3>2, <3>3, ParametersAssumption DEF NodeOK
  <2> HIDE DEF rest
  <2>2. /\ AfterFirst(tx_queue[n], k) \in Seq(Item(n))
        /\ rest \o moved \in Seq(Item(n))
        /\ Len(rest \o moved) <= NumQubits
        /\ AfterFirst(tx_queue[n], k) # <<>> => Len(rest \o moved) >= NumQubits
        /\ \A i \in 1..k : moved[i] \in Item(n)
    <3>1. tx_queue[n] \in Seq(Item(n))
      BY <1>1 DEF NodeOK
    <3>2. /\ AfterFirst(tx_queue[n], k) \in Seq(Item(n))
          /\ rest \o moved \in Seq(Item(n))
          /\ Len(rest \o moved) <= NumQubits
          /\ AfterFirst(tx_queue[n], k) # <<>> => Len(rest \o moved) >= NumQubits
          /\ \A i \in 1..k : moved[i] = tx_queue[n][i] /\ tx_queue[n][i] \in Item(n)
      BY <2>1, <3>1, SendMoves
    <3> QED
      BY <3>2
  <2> HIDE DEF k, moved
  <2>3. NodeOK(n, tx_queue'[n], tx_qubits'[n], rx_queue'[n], rx_qubits'[n], storage'[n])
    BY <1>1, <1>3, <2>2 DEF NodeOK, IInv, HeldOK
  <2>4. HeldOK'
    BY <1>3, <2>3, OnlyAtExcept, HeldPreserved DEF IInv
  <2>5. net' \subseteq PeerMessage
    <3>1. {QubitOf(n, moved[i]) : i \in 1..k} \subseteq PeerMessage
      BY <2>2, QubitOfType
    <3> QED
      BY <1>3, <3>1, OutType DEF IInv, RestOK
  <2>6. data' \in [Node -> SUBSET Id]
    BY <1>3 DEF IInv, RestOK
  <2> QED
    BY <1>3, <2>4, <2>5, <2>6 DEF IInv, RestOK
<1> QED
  BY <1>2, <1>3 DEF ReleaseAtSender

\* The list of the receiver after an operation left it, and the NACK that asks
\* for the qubit of the next one.
LEMMA ReleasedRxType ==
  ASSUME NEW n \in Node, NEW id, Has(rx_qubits[n], id),
         NodeOK(n, tx_queue[n], tx_qubits[n], rx_queue[n], rx_qubits[n], storage[n])
  PROVE  /\ ReleasedRx(n, id) \in Seq(Item(n)) /\ Len(ReleasedRx(n, id)) <= NumQubits
         /\ (IF rx_queue[n] = <<>> THEN rx_queue[n] ELSE Tail(rx_queue[n])) \in Seq(Item(n))
         /\ Promoted(n) \subseteq PeerMessage
<1> DEFINE s == Slot(rx_qubits[n], id)
           rest == RemoveAt(rx_qubits[n], s)
<1>1. s \in 1..Len(rx_qubits[n])
  BY SlotFound DEF NodeOK
<1> HIDE DEF s
<1>2. /\ rest \in Seq(Item(n)) /\ Len(rest) = Len(rx_qubits[n]) - 1
      /\ Len(rx_qubits[n]) \in Nat
  BY <1>1, RemoveAtElements, LenProperties DEF NodeOK
<1> HIDE DEF rest
<1>3. rx_queue[n] # <<>> => Head(rx_queue[n]) \in Item(n) /\ Tail(rx_queue[n]) \in Seq(Item(n))
  BY HeadTailProperties DEF NodeOK
<1>4. ReleasedRx(n, id) \in Seq(Item(n)) /\ Len(ReleasedRx(n, id)) = Len(rest)
  <2>1. CASE rx_queue[n] # <<>> /\ s <= Len(rest)
    <3>1. s \in 1..Len(rest)
      BY <1>1, <1>2, <2>1
    <3>2. [rest EXCEPT ![s] = Head(rx_queue[n])] \in Seq(Item(n))
          /\ Len([rest EXCEPT ![s] = Head(rx_queue[n])]) = Len(rest)
      BY <1>2, <1>3, <2>1, <3>1, ExceptSeq
    <3>3. ReleasedRx(n, id) = [rest EXCEPT ![s] = Head(rx_queue[n])]
      BY <2>1 DEF ReleasedRx, rest, s
    <3> QED
      BY <3>2, <3>3
  <2>2. CASE ~(rx_queue[n] # <<>> /\ s <= Len(rest))
    <3>1. ReleasedRx(n, id) = rest
      BY <2>2 DEF ReleasedRx, rest, s
    <3> QED
      BY <1>2, <3>1
  <2> QED
    BY <2>1, <2>2
<1>5. Len(ReleasedRx(n, id)) <= NumQubits
  BY <1>2, <1>4, ParametersAssumption DEF NodeOK
<1>6. Promoted(n) \subseteq PeerMessage
  BY <1>3, ItemFields, NACKForType DEF Promoted
<1> QED
  BY <1>3, <1>4, <1>5, <1>6 DEF NodeOK

\* What the two handlers that give back a qubit of the receiver have in common.
LEMMA ReleaseAtReceiverIInv ==
  ASSUME IInv, NEW n \in Node, NEW id, NEW sent,
         CanReleaseRx(n, id), ReleaseAtReceiver(n, id, sent), sent \subseteq PeerMessage,
         OnlyAt(n, storage, storage'), storage'[n] \in Seq(Item(n)),
         events' \subseteq events, UNCHANGED <<sock, msg_count, tx_queue, tx_qubits, failed>>
  PROVE  IInv'
<1>1. NodeOK(n, tx_queue[n], tx_qubits[n], rx_queue[n], rx_qubits[n], storage[n])
  BY DEF IInv, HeldOK
<1>2. /\ ReleasedRx(n, id) \in Seq(Item(n)) /\ Len(ReleasedRx(n, id)) <= NumQubits
      /\ (IF rx_queue[n] = <<>> THEN rx_queue[n] ELSE Tail(rx_queue[n])) \in Seq(Item(n))
      /\ Promoted(n) \subseteq PeerMessage
  BY <1>1, ReleasedRxType DEF CanReleaseRx
<1>3. /\ rx_qubits' = [rx_qubits EXCEPT ![n] = ReleasedRx(n, id)]
      /\ rx_queue' = [rx_queue EXCEPT ![n] =
                        IF rx_queue[n] = <<>> THEN rx_queue[n] ELSE Tail(rx_queue[n])]
      /\ data' = [data EXCEPT ![n] = @ \ {id}]
      /\ net' = net \cup Out(n, sent \cup Promoted(n))
  BY DEF ReleaseAtReceiver
<1>4. rx_qubits'[n] = ReleasedRx(n, id)
      /\ rx_queue'[n] = IF rx_queue[n] = <<>> THEN rx_queue[n] ELSE Tail(rx_queue[n])
  BY <1>3, OnlyAtExcept DEF IInv, HeldOK
<1>5. NodeOK(n, tx_queue'[n], tx_qubits'[n], rx_queue'[n], rx_qubits'[n], storage'[n])
  BY <1>1, <1>2, <1>4 DEF NodeOK
<1>6. HeldOK'
  BY <1>3, <1>5, OnlyAtExcept, HeldPreserved DEF IInv
<1>7. net' \subseteq PeerMessage
  BY <1>2, <1>3, OutType DEF IInv, RestOK
<1>8. data' \in [Node -> SUBSET Id]
  BY <1>3 DEF IInv, RestOK
<1> QED
  BY <1>6, <1>7, <1>8 DEF IInv, RestOK

LEMMA ReleaseQubitIInv ==
  ASSUME IInv, NEW n \in Node, NEW id, ReleaseQubit(n, id)
  PROVE  IInv'
<1>1. PICK e \in events :
        /\ events' = events \ {e}
        /\ \/ e.sender /\ ReleaseAtSender(n, id)
           \/ /\ ~e.sender
              /\ IF CanReleaseRx(n, id)
                 THEN /\ ReleaseAtReceiver(n, id, {})
                      /\ UNCHANGED <<sock, msg_count, tx_queue, tx_qubits, storage, failed>>
                 ELSE failed' = "ReleaseQubit"
                      /\ UNCHANGED <<sock, msg_count, held, data, net>>
  BY DEF ReleaseQubit
<1>2. CASE ReleaseAtSender(n, id)
  BY <1>1, <1>2, ReleaseAtSenderIInv
<1>3. CASE /\ CanReleaseRx(n, id)
           /\ ReleaseAtReceiver(n, id, {})
           /\ UNCHANGED <<sock, msg_count, tx_queue, tx_qubits, storage, failed>>
  <2>1. OnlyAt(n, storage, storage') /\ storage'[n] \in Seq(Item(n))
    BY <1>3 DEF OnlyAt, IInv, HeldOK, NodeOK
  <2> QED
    BY <1>1, <1>3, <2>1, ReleaseAtReceiverIInv
<1>4. CASE failed' = "ReleaseQubit" /\ UNCHANGED <<sock, msg_count, held, data, net>>
  <2>1. HeldOK'
    BY <1>4, HeldUnchanged DEF IInv
  <2> QED
    BY <1>1, <1>4, <2>1 DEF IInv, RestOK, Functions
<1> QED
  BY <1>1, <1>2, <1>3, <1>4
LEMMA SendNACKIInv ==
  ASSUME IInv, NEW n \in Node, NEW m \in net, m.dst = n, SendNACK(n, m)
  PROVE  IInv'
<1>1. m \in PeerMessage
  BY DEF IInv, RestOK
<1>2. NACKFor(n, PeerIndex(n, m.src), m.id, m.protocol) \in PeerMessage
  BY <1>1, MessageFields, NACKForType
<1>3. HeldOK'
  BY HeldUnchanged DEF SendNACK, IInv
<1>4. data' \in [Node -> SUBSET Id]
  BY <1>1, MessageFields DEF SendNACK, IInv, RestOK
<1> QED
  BY <1>2, <1>3, <1>4 DEF SendNACK, IInv, RestOK

LEMMA ReceiveQubitIInv ==
  ASSUME IInv, NEW n \in Node, NEW id, ReceiveQubit(n, id)
  PROVE  IInv'
<1> DEFINE s == Slot(rx_qubits[n], id)
           known == Has(rx_qubits[n], id)
           room == Room(n)
           Update == [rx_qubits[n] EXCEPT ![s].has_qubit = TRUE, ![s].operating = TRUE]
           Event1 == [fn |-> "SendClassical", node |-> n, id |-> id, sender |-> FALSE]
<1>1. PICK m \in net :
       LET item == [id |-> id, peer |-> PeerIndex(n, m.src), protocol |-> m.protocol,
                    has_qubit |-> ~known /\ room, operating |-> ~known /\ room,
                    x |-> FALSE, z |-> FALSE]
       IN /\ Arrives(m, "Qubit", n, id)
          /\ \/ /\ rx_qubits' = [rx_qubits EXCEPT ![n] =
                       IF known THEN Update
                       ELSE IF room THEN Append(rx_qubits[n], item) ELSE rx_qubits[n]]
                /\ rx_queue' = [rx_queue EXCEPT ![n] =
                       IF known \/ room THEN rx_queue[n] ELSE Append(rx_queue[n], item)]
                /\ data' = [data EXCEPT ![n] = IF known THEN @ ELSE @ \cup {id}]
                /\ events' = events \cup (IF known \/ room THEN {Event1} ELSE {})
                /\ net' = net \ {m}
                /\ UNCHANGED <<sock, msg_count, tx_queue, tx_qubits, storage, failed>>
             \/ Abort("ReceiveQubit")
  BY DEF ReceiveQubit
<1> DEFINE item == [id |-> id, peer |-> PeerIndex(n, m.src), protocol |-> m.protocol,
                    has_qubit |-> ~known /\ room, operating |-> ~known /\ room,
                    x |-> FALSE, z |-> FALSE]
<1>2. CASE Abort("ReceiveQubit")
  BY <1>2, AbortIInv DEF Functions
<1>3. ASSUME /\ rx_qubits' = [rx_qubits EXCEPT ![n] =
                       IF known THEN Update
                       ELSE IF room THEN Append(rx_qubits[n], item) ELSE rx_qubits[n]]
             /\ rx_queue' = [rx_queue EXCEPT ![n] =
                    IF known \/ room THEN rx_queue[n] ELSE Append(rx_queue[n], item)]
             /\ data' = [data EXCEPT ![n] = IF known THEN @ ELSE @ \cup {id}]
             /\ events' = events \cup (IF known \/ room THEN {Event1} ELSE {})
             /\ net' = net \ {m}
             /\ UNCHANGED <<sock, msg_count, tx_queue, tx_qubits, storage, failed>>
      PROVE  IInv'
  <2>1. NodeOK(n, tx_queue[n], tx_qubits[n], rx_queue[n], rx_qubits[n], storage[n])
    BY DEF IInv, HeldOK
  <2>2. m \in PeerMessage /\ m.id = id /\ m.dst = n
    BY <1>1 DEF IInv, RestOK, Arrives
  <2>3. id \in Id
    BY <2>2, MessageFields
  <2>4. item \in Item(n)
    <3>1. PeerIndex(n, m.src) \in DOMAIN Peers[n] /\ m.protocol \in Protocols
      BY <2>2, MessageFields
    <3>2. (~known /\ room) \in BOOLEAN
      OBVIOUS
    <3> QED
      BY <2>3, <3>1, <3>2 DEF Item
  <2> HIDE DEF item
  <2>5. known => Update \in Seq(Item(n)) /\ Len(Update) = Len(rx_qubits[n])
    <3> SUFFICES ASSUME known PROVE Update \in Seq(Item(n)) /\ Len(Update) = Len(rx_qubits[n])
      OBVIOUS
    <3>1. s \in 1..Len(rx_qubits[n]) /\ rx_qubits[n] \in Seq(Item(n))
      BY <2>1, SlotFound DEF NodeOK
    <3>2. rx_qubits[n][s] \in Item(n) /\ DOMAIN rx_qubits[n] = 1..Len(rx_qubits[n])
      BY <3>1, ElementOfSeq, LenProperties
    <3> DEFINE new == [rx_qubits[n][s] EXCEPT !.has_qubit = TRUE, !.operating = TRUE]
    <3>3. new \in Item(n)
      BY <3>2 DEF Item
    <3>4. Update = [rx_qubits[n] EXCEPT ![s] = new]
      <4> HIDE DEF s
      <4> QED
        BY <3>1, <3>2
    <3> HIDE DEF new, s, Update
    <3> QED
      BY <3>1, <3>3, <3>4, ExceptSeq
  <2> HIDE DEF Update
  <2>6. Append(rx_qubits[n], item) \in Seq(Item(n))
        /\ Len(Append(rx_qubits[n], item)) = Len(rx_qubits[n]) + 1
    BY <2>1, <2>4, AppendProperties DEF NodeOK
  <2>7. Append(rx_queue[n], item) \in Seq(Item(n))
    BY <2>1, <2>4, AppendProperties DEF NodeOK
  <2>8. room => Len(rx_qubits[n]) + 1 <= NumQubits
    BY <2>1, LenProperties, ParametersAssumption DEF NodeOK, Room
  <2> HIDE DEF known, room
  <2>9. NodeOK(n, tx_queue'[n], tx_qubits'[n], rx_queue'[n], rx_qubits'[n], storage'[n])
    <3>1. rx_qubits'[n] = IF known THEN Update
                          ELSE IF room THEN Append(rx_qubits[n], item) ELSE rx_qubits[n]
      BY <1>3 DEF IInv, HeldOK
    <3>2. rx_queue'[n] = IF known \/ room THEN rx_queue[n] ELSE Append(rx_queue[n], item)
      BY <1>3 DEF IInv, HeldOK
    <3>3. rx_qubits'[n] \in Seq(Item(n)) /\ Len(rx_qubits'[n]) <= NumQubits
      BY <2>1, <2>5, <2>6, <2>8, <3>1 DEF NodeOK
    <3>4. rx_queue'[n] \in Seq(Item(n))
      BY <2>1, <2>7, <3>2 DEF NodeOK
    <3> QED
      BY <1>3, <2>1, <3>3, <3>4 DEF NodeOK
  <2>10. HeldOK'
    BY <1>3, <2>9, OnlyAtExcept, HeldPreserved DEF IInv
  <2>11. events' \subseteq Event
    <3>1. Event1 \in Event
      BY <2>3 DEF Event
    <3> HIDE DEF Event1
    <3> QED
      BY <1>3, <3>1 DEF IInv, RestOK
  <2>12. data' \in [Node -> SUBSET Id]
    BY <1>3, <2>3 DEF IInv, RestOK
  <2> QED
    BY <1>3, <2>10, <2>11, <2>12 DEF IInv, RestOK
<1> QED
  BY <1>1, <1>2, <1>3
LEMMA ResultsUpdated ==
  ASSUME NEW n, NEW seq \in Seq(Item(n)), NEW id, Has(seq, id),
         NEW x \in BOOLEAN, NEW z \in BOOLEAN
  PROVE  /\ WithResults(seq, id, x, z) \in Seq(Item(n))
         /\ Len(WithResults(seq, id, x, z)) = Len(seq)
<1> DEFINE s == Slot(seq, id)
<1>1. s \in 1..Len(seq) /\ seq[s] \in Item(n) /\ DOMAIN seq = 1..Len(seq)
  BY SlotFound, ElementOfSeq, LenProperties
<1> HIDE DEF s
<1> DEFINE it == [seq[s] EXCEPT !.x = x, !.z = z]
           new == [seq EXCEPT ![s].x = x, ![s].z = z]
<1>2. it \in Item(n)
  BY <1>1 DEF Item
<1>3. new = [seq EXCEPT ![s] = it]
  BY <1>1
<1> HIDE DEF it, new
<1>4. new \in Seq(Item(n)) /\ Len(new) = Len(seq)
  BY <1>1, <1>2, <1>3, ExceptSeq
<1> QED
  BY <1>4 DEF new, s, WithResults

LEMMA OperatingSet ==
  ASSUME NEW n, NEW seq \in Seq(Item(n)), NEW s \in 1..Len(seq), NEW on \in BOOLEAN
  PROVE  LET new == [seq EXCEPT ![s].operating = on]
         IN new \in Seq(Item(n)) /\ Len(new) = Len(seq)
<1>1. seq[s] \in Item(n) /\ DOMAIN seq = 1..Len(seq)
  BY ElementOfSeq, LenProperties
<1> DEFINE it == [seq[s] EXCEPT !.operating = on]
           new == [seq EXCEPT ![s].operating = on]
<1>2. it \in Item(n)
  BY <1>1 DEF Item
<1>3. new = [seq EXCEPT ![s] = it]
  BY <1>1
<1> HIDE DEF it, new
<1>4. new \in Seq(Item(n)) /\ Len(new) = Len(seq)
  BY <1>2, <1>3, ExceptSeq
<1> QED
  BY <1>4 DEF new

LEMMA ReceiveClassicalIInv ==
  ASSUME IInv, NEW n \in Node, NEW id, ReceiveClassical(n, id)
  PROVE  IInv'
<1> DEFINE atReceiver == Has(rx_qubits[n], id)
           atSender == ~atReceiver /\ Has(tx_qubits[n], id)
           item == rx_qubits[n][Slot(rx_qubits[n], id)]
<1>1. PICK m \in net :
       LET Update(seq) == WithResults(seq, id, m.x, m.z)
           ack(peer) == Packet("AWK", n, peer, id, m.protocol, FALSE, FALSE)
           local == atSender /\ m.protocol = "telegate"
       IN /\ Arrives(m, "Classical", n, id)
          /\ \/ /\ \/ atSender
                   \/ atReceiver
                /\ rx_qubits' = [rx_qubits EXCEPT ![n] = IF atReceiver THEN Update(@) ELSE @]
                /\ tx_qubits' = [tx_qubits EXCEPT ![n] =
                       IF local THEN [Update(@) EXCEPT ![Slot(@, id)].operating = TRUE]
                       ELSE IF atSender THEN Update(@) ELSE @]
                /\ events' = events \cup
                       {[fn |-> IF local THEN "LocalGate" ELSE "ReleaseQubit",
                         node |-> n, id |-> id, sender |-> atSender]}
                /\ net' = (net \ {m}) \cup
                       IF local THEN {} ELSE {ack(AckPeer(atSender, item))}
                /\ storage' = [storage EXCEPT ![n] =
                       IF local THEN @ ELSE WithoutClassic(@, id)]
                /\ UNCHANGED <<sock, msg_count, tx_queue, rx_queue, data, failed>>
             \/ Abort("ReceiveClassical")
  BY DEF ReceiveClassical
<1> DEFINE Update(seq) == WithResults(seq, id, m.x, m.z)
           local == atSender /\ m.protocol = "telegate"
           rx == IF atReceiver THEN Update(rx_qubits[n]) ELSE rx_qubits[n]
           tx == IF local THEN [Update(tx_qubits[n]) EXCEPT ![Slot(tx_qubits[n], id)].operating = TRUE]
                 ELSE IF atSender THEN Update(tx_qubits[n]) ELSE tx_qubits[n]
           st == IF local THEN storage[n] ELSE WithoutClassic(storage[n], id)
           event == [fn |-> IF local THEN "LocalGate" ELSE "ReleaseQubit",
                     node |-> n, id |-> id, sender |-> atSender]
           ack == Packet("AWK", n, AckPeer(atSender, item), id, m.protocol, FALSE, FALSE)
<1>2. CASE Abort("ReceiveClassical")
  BY <1>2, AbortIInv DEF Functions
<1>3. ASSUME /\ atSender \/ atReceiver
             /\ rx_qubits' = [rx_qubits EXCEPT ![n] = rx]
             /\ tx_qubits' = [tx_qubits EXCEPT ![n] = tx]
             /\ events' = events \cup {event}
             /\ net' = (net \ {m}) \cup IF local THEN {} ELSE {ack}
             /\ storage' = [storage EXCEPT ![n] = st]
             /\ UNCHANGED <<sock, msg_count, tx_queue, rx_queue, data, failed>>
      PROVE  IInv'
  <2>1. NodeOK(n, tx_queue[n], tx_qubits[n], rx_queue[n], rx_qubits[n], storage[n])
    BY DEF IInv, HeldOK
  <2>2. m \in PeerMessage /\ m.id = id /\ m.dst = n
    BY <1>1 DEF IInv, RestOK, Arrives
  <2>3. id \in Id /\ m.protocol \in Protocols /\ m.x \in BOOLEAN /\ m.z \in BOOLEAN
    BY <2>2, MessageFields
  <2>4. rx \in Seq(Item(n)) /\ Len(rx) <= NumQubits
    <3>1. rx_qubits[n] \in Seq(Item(n)) /\ Len(rx_qubits[n]) <= NumQubits
      BY <2>1 DEF NodeOK
    <3>2. CASE atReceiver
      <4>1. Update(rx_qubits[n]) \in Seq(Item(n)) /\ Len(Update(rx_qubits[n])) = Len(rx_qubits[n])
        BY ONLY <2>3, <3>1, <3>2, ResultsUpdated
      <4> HIDE DEF Update
      <4> QED
        BY <3>1, <3>2, <4>1
    <3>3. CASE ~atReceiver
      BY <3>1, <3>3
    <3> QED
      BY <3>2, <3>3
  <2>5. tx \in Seq(Item(n)) /\ Len(tx) = Len(tx_qubits[n])
    <3>1. CASE atSender
      <4>1. Update(tx_qubits[n]) \in Seq(Item(n)) /\ Len(Update(tx_qubits[n])) = Len(tx_qubits[n])
        <5>1. tx_qubits[n] \in Seq(Item(n))
          BY <2>1 DEF NodeOK
        <5> QED
          BY ONLY <2>3, <3>1, <5>1, ResultsUpdated
      <4>2. Slot(tx_qubits[n], id) \in 1..Len(tx_qubits[n])
        BY <2>1, <3>1, SlotFound DEF NodeOK
      <4> HIDE DEF Update
      <4>3. /\ [Update(tx_qubits[n]) EXCEPT ![Slot(tx_qubits[n], id)].operating = TRUE] \in Seq(Item(n))
            /\ Len([Update(tx_qubits[n]) EXCEPT ![Slot(tx_qubits[n], id)].operating = TRUE]) = Len(tx_qubits[n])
        BY <4>1, <4>2, OperatingSet
      <4> HIDE DEF local
      <4> QED
        BY <3>1, <4>1, <4>3
    <3>2. CASE ~atSender
      BY <2>1, <3>2 DEF NodeOK
    <3> QED
      BY <3>1, <3>2
  <2>6. st \in Seq(Item(n))
    BY <2>1, WithoutClassicType DEF NodeOK
  <2>7. event \in Event
    <3>1. atSender \in BOOLEAN
      OBVIOUS
    <3> HIDE DEF atSender
    <3> QED
      BY <2>3, <3>1 DEF Event
  <2>8. ack \in PeerMessage
    <3>1. AckPeer(atSender, item) \in DOMAIN Peers[n]
      <4>1. CASE atSender
        BY <4>1, PeersFacts DEF AckPeer
      <4>2. CASE ~atSender
        <5>1. item \in Item(n)
          BY <1>3, <2>1, <4>2, SlotFound, ElementOfSeq DEF NodeOK
        <5> QED
          BY <4>2, <5>1, ItemFields DEF AckPeer
      <4> QED
        BY <4>1, <4>2
    <3> HIDE DEF atSender, item
    <3> QED
      BY <2>3, <3>1, PacketType
  <2> HIDE DEF rx, tx, st, event, ack, local
  <2>9. NodeOK(n, tx_queue'[n], tx_qubits'[n], rx_queue'[n], rx_qubits'[n], storage'[n])
    <3>1. tx_qubits'[n] = tx /\ rx_qubits'[n] = rx /\ storage'[n] = st
      BY <1>3 DEF IInv, HeldOK
    <3> QED
      BY <1>3, <2>1, <2>4, <2>5, <2>6, <3>1 DEF NodeOK
  <2>10. HeldOK'
    BY <1>3, <2>9, OnlyAtExcept, HeldPreserved DEF IInv
  <2> QED
    BY <1>3, <2>7, <2>8, <2>10 DEF IInv, RestOK
<1> QED
  BY <1>1, <1>2, <1>3
LEMMA ReceiveNACKIInv ==
  ASSUME IInv, NEW n \in Node, NEW id, ReceiveNACK(n, id)
  PROVE  IInv'
<1> DEFINE stored == Has(storage[n], id)
           it == storage[n][LastSlot(storage[n], id)]
           qubit == tx_qubits[n][Slot(tx_qubits[n], id)]
           again == IF stored
                    THEN Packet("Classical", n, it.peer, id, it.protocol, it.x, it.z)
                    ELSE QubitOf(n, qubit)
<1>1. PICK m \in net :
        /\ Arrives(m, "NACK", n, id)
        /\ \/ /\ stored \/ Has(tx_qubits[n], id)
              /\ net' = (net \ {m}) \cup {again}
              /\ UNCHANGED <<sock, msg_count, held, data, events, failed>>
           \/ Abort("ReceiveNACK")
  BY DEF ReceiveNACK
<1>2. CASE Abort("ReceiveNACK")
  BY <1>2, AbortIInv DEF Functions
<1>3. ASSUME /\ stored \/ Has(tx_qubits[n], id)
             /\ net' = (net \ {m}) \cup {again}
             /\ UNCHANGED <<sock, msg_count, held, data, events, failed>>
      PROVE  IInv'
  <2>1. NodeOK(n, tx_queue[n], tx_qubits[n], rx_queue[n], rx_qubits[n], storage[n])
    BY DEF IInv, HeldOK
  <2>2. id \in Id
    <3>1. m \in PeerMessage /\ m.id = id
      BY <1>1 DEF IInv, RestOK, Arrives
    <3> QED
      BY <3>1, MessageFields
  <2>3. again \in PeerMessage
    <3>1. CASE stored
      <4>1. it \in Item(n)
        BY <2>1, <3>1, LastSlotFound, ElementOfSeq DEF NodeOK
      <4>2. /\ it.peer \in DOMAIN Peers[n] /\ it.protocol \in Protocols
            /\ it.x \in BOOLEAN /\ it.z \in BOOLEAN
        BY <4>1, ItemFields
      <4> HIDE DEF it
      <4>3. Packet("Classical", n, it.peer, id, it.protocol, it.x, it.z) \in PeerMessage
        BY <2>2, <4>2, PacketType
      <4> QED
        BY <3>1, <4>3
    <3>2. CASE ~stored
      <4>1. qubit \in Item(n)
        BY <1>3, <2>1, <3>2, SlotFound, ElementOfSeq DEF NodeOK
      <4>2. QubitOf(n, qubit) \in PeerMessage
        BY <4>1, QubitOfType
      <4> QED
        BY <3>2, <4>2
    <3> QED
      BY <3>1, <3>2
  <2> HIDE DEF again
  <2>4. HeldOK'
    BY <1>3, HeldUnchanged DEF IInv
  <2> QED
    BY <1>3, <2>3, <2>4 DEF IInv, RestOK
<1> QED
  BY <1>1, <1>2, <1>3

LEMMA ReceiveAWKIInv ==
  ASSUME IInv, NEW n \in Node, NEW id, ReceiveAWK(n, id)
  PROVE  IInv'
<1>1. /\ storage' = [storage EXCEPT ![n] = WithoutClassic(storage[n], id)]
      /\ net' \subseteq net
      /\ UNCHANGED <<sock, msg_count, tx_queue, tx_qubits, rx_queue, rx_qubits,
                     data, events, failed>>
  BY DEF ReceiveAWK
<1>2. NodeOK(n, tx_queue[n], tx_qubits[n], rx_queue[n], rx_qubits[n], storage[n])
  BY DEF IInv, HeldOK
<1>3. storage'[n] = WithoutClassic(storage[n], id)
  BY <1>1 DEF IInv, HeldOK
<1>4. NodeOK(n, tx_queue'[n], tx_qubits'[n], rx_queue'[n], rx_qubits'[n], storage'[n])
  BY <1>1, <1>2, <1>3, WithoutClassicType DEF NodeOK
<1>5. HeldOK'
  BY <1>1, <1>4, OnlyAtExcept, HeldPreserved DEF IInv
<1> QED
  BY <1>1, <1>5 DEF IInv, RestOK

\* A result stored for an operation that holds a qubit.
LEMMA ResultType ==
  ASSUME NEW n, NEW it \in Item(n), NEW x \in BOOLEAN, NEW z \in BOOLEAN
  PROVE  [it EXCEPT !.operating = FALSE, !.x = x, !.z = z] \in Item(n)
BY DEF Item

LEMMA SendClassicalIInv ==
  ASSUME IInv, NEW n \in Node, NEW id, SendClassical(n, id)
  PROVE  IInv'
<1> DEFINE s == Slot(rx_qubits[n], id)
           item == rx_qubits[n][s]
           teledata == item.protocol = "teledata"
           result == [item EXCEPT !.operating = FALSE, !.x = TRUE, !.z = teledata]
           packet == Packet("Classical", n, item.peer, id, item.protocol, TRUE, teledata)
           sent == {packet}
<1>1. events' \subseteq events
  BY DEF SendClassical
<1>2. NodeOK(n, tx_queue[n], tx_qubits[n], rx_queue[n], rx_qubits[n], storage[n])
  BY DEF IInv, HeldOK
<1>3. CASE /\ failed' \in Functions \cup {"none"}
           /\ UNCHANGED <<sock, msg_count, held, data, net>>
  <2>1. HeldOK'
    BY <1>3, HeldUnchanged DEF IInv
  <2> QED
    BY <1>1, <1>3, <2>1 DEF IInv, RestOK
<1>4. ASSUME /\ Has(rx_qubits[n], id)
             /\ DoneAtOnce(item.protocol) => CanReleaseRx(n, id)
             /\ storage' = [storage EXCEPT ![n] = Append(@, result)]
             /\ \/ /\ DoneAtOnce(item.protocol)
                   /\ ReleaseAtReceiver(n, id, sent)
                \/ /\ rx_qubits' = [rx_qubits EXCEPT ![n][s].operating = FALSE]
                   /\ net' = net \cup Out(n, sent)
                   /\ UNCHANGED <<rx_queue, data>>
             /\ UNCHANGED <<sock, msg_count, tx_queue, tx_qubits, failed>>
      PROVE  IInv'
  <2>1. s \in 1..Len(rx_qubits[n]) /\ item \in Item(n) /\ item.id = id
    BY <1>2, <1>4, SlotFound, ElementOfSeq DEF NodeOK
  <2>2. teledata \in BOOLEAN
    OBVIOUS
  <2> HIDE DEF teledata
  <2>3. result \in Item(n)
    <3> HIDE DEF item
    <3> QED
      BY <2>1, <2>2, ResultType
  <2>4. packet \in PeerMessage
    <3>1. item.peer \in DOMAIN Peers[n] /\ item.protocol \in Protocols /\ item.id \in Id
      BY <2>1, ItemFields
    <3> HIDE DEF item
    <3> QED
      BY <2>1, <2>2, <3>1, PacketType
  <2>5. OnlyAt(n, storage, storage') /\ storage'[n] \in Seq(Item(n))
    <3> HIDE DEF result
    <3>1. storage'[n] = Append(storage[n], result)
      BY <1>4 DEF IInv, HeldOK
    <3>2. OnlyAt(n, storage, storage')
      BY <1>4, OnlyAtExcept
    <3> QED
      BY <1>2, <2>3, <3>1, <3>2, AppendProperties DEF NodeOK
  <2> HIDE DEF packet, result
  <2>6. sent \subseteq PeerMessage
    BY <2>4
  <2> HIDE DEF sent, item
  <2>7. CASE DoneAtOnce(item.protocol) /\ ReleaseAtReceiver(n, id, sent)
    BY <1>1, <1>4, <2>5, <2>6, <2>7, ReleaseAtReceiverIInv
  <2>8. CASE /\ rx_qubits' = [rx_qubits EXCEPT ![n][s].operating = FALSE]
             /\ net' = net \cup Out(n, sent)
             /\ UNCHANGED <<rx_queue, data>>
    <3> DEFINE new == [rx_qubits[n] EXCEPT ![s].operating = FALSE]
    <3>1. new \in Seq(Item(n)) /\ Len(new) = Len(rx_qubits[n])
      <4> HIDE DEF s
      <4> QED
        BY <1>2, <2>1, OperatingSet DEF NodeOK
    <3>2. rx_qubits' = [rx_qubits EXCEPT ![n] = new]
      BY <2>8
    <3> HIDE DEF new
    <3>3. rx_qubits'[n] = new
      BY <3>2 DEF IInv, HeldOK
    <3>4. NodeOK(n, tx_queue'[n], tx_qubits'[n], rx_queue'[n], rx_qubits'[n], storage'[n])
      BY <1>2, <1>4, <2>5, <2>8, <3>1, <3>3 DEF NodeOK
    <3>5. HeldOK'
      <4>1. OnlyAt(n, rx_qubits, rx_qubits')
        BY <3>2, OnlyAtExcept
      <4>2. /\ OnlyAt(n, tx_queue, tx_queue') /\ OnlyAt(n, tx_qubits, tx_qubits')
            /\ OnlyAt(n, rx_queue, rx_queue')
        BY <1>4, <2>8, OnlyAtExcept
      <4> QED
        BY <2>5, <3>4, <4>1, <4>2, HeldPreserved DEF IInv
    <3> QED
      BY <1>1, <1>4, <2>6, <2>8, <3>5, OutType DEF IInv, RestOK
  <2> QED
    BY <1>4, <2>7, <2>8 DEF sent, packet, item, teledata
<1> QED
  <2>1. CASE ~Has(rx_qubits[n], id)
    BY <1>3, <2>1 DEF SendClassical, Functions
  <2>2. CASE Has(rx_qubits[n], id) /\ ~item.operating
    BY <1>3, <2>2 DEF SendClassical, IInv, RestOK
  <2>3. CASE /\ Has(rx_qubits[n], id) /\ item.operating
             /\ DoneAtOnce(item.protocol) /\ ~CanReleaseRx(n, id)
    BY <1>3, <2>3 DEF SendClassical, Functions
  <2>4. CASE /\ Has(rx_qubits[n], id) /\ item.operating
             /\ ~(DoneAtOnce(item.protocol) /\ ~CanReleaseRx(n, id))
    BY <1>4, <2>4 DEF SendClassical
  <2> QED
    BY <2>1, <2>2, <2>3, <2>4
LEMMA LocalGateIInv ==
  ASSUME IInv, NEW n \in Node, NEW id, LocalGate(n, id)
  PROVE  IInv'
<1> DEFINE s == Slot(tx_qubits[n], id)
           item == tx_qubits[n][s]
           result == [item EXCEPT !.operating = FALSE, !.x = FALSE, !.z = TRUE]
           release == [fn |-> "ReleaseQubit", node |-> n, id |-> id, sender |-> TRUE]
           packet == Packet("Classical", n, item.peer, id, item.protocol, FALSE, TRUE)
           new == [tx_qubits[n] EXCEPT ![s].operating = FALSE]
<1>1. PICK e \in events :
        \/ /\ Has(tx_qubits[n], id)
           /\ events' = (events \ {e}) \cup {release}
           /\ \/ /\ tx_qubits' = [tx_qubits EXCEPT ![n][s].operating = FALSE]
                 /\ storage' = [storage EXCEPT ![n] = Append(@, result)]
                 /\ net' = net \cup Out(n, {packet})
              \/ UNCHANGED <<tx_qubits, storage, net>>
           /\ UNCHANGED <<sock, msg_count, tx_queue, rx_queue, rx_qubits, data, failed>>
        \/ Abort("SendClassical")
  BY DEF LocalGate
<1>2. CASE Abort("SendClassical")
  BY <1>2, AbortIInv DEF Functions
<1>3. ASSUME /\ Has(tx_qubits[n], id)
             /\ events' = (events \ {e}) \cup {release}
             /\ \/ /\ tx_qubits' = [tx_qubits EXCEPT ![n][s].operating = FALSE]
                   /\ storage' = [storage EXCEPT ![n] = Append(@, result)]
                   /\ net' = net \cup Out(n, {packet})
                \/ UNCHANGED <<tx_qubits, storage, net>>
             /\ UNCHANGED <<sock, msg_count, tx_queue, rx_queue, rx_qubits, data, failed>>
      PROVE  IInv'
  <2>1. NodeOK(n, tx_queue[n], tx_qubits[n], rx_queue[n], rx_qubits[n], storage[n])
    BY DEF IInv, HeldOK
  <2>2. s \in 1..Len(tx_qubits[n]) /\ item \in Item(n) /\ item.id = id
    BY <1>3, <2>1, SlotFound, ElementOfSeq DEF NodeOK
  <2>3. item.peer \in DOMAIN Peers[n] /\ item.protocol \in Protocols /\ id \in Id
    BY <2>2, ItemFields
  <2>4. result \in Item(n)
    <3> HIDE DEF item
    <3> QED
      BY <2>2, ResultType
  <2>5. packet \in PeerMessage
    <3> HIDE DEF item
    <3> QED
      BY <2>3, PacketType
  <2>6. new \in Seq(Item(n)) /\ Len(new) = Len(tx_qubits[n])
    <3> HIDE DEF s
    <3> QED
      BY <2>1, <2>2, OperatingSet DEF NodeOK
  <2>7. release \in Event
    BY <2>3 DEF Event
  <2> HIDE DEF result, packet, release
  <2>8. CASE UNCHANGED <<tx_qubits, storage, net>>
    <3>1. HeldOK'
      BY <1>3, <2>8, HeldUnchanged DEF IInv, held
    <3> QED
      BY <1>3, <2>7, <2>8, <3>1 DEF IInv, RestOK
  <2>9. CASE /\ tx_qubits' = [tx_qubits EXCEPT ![n][s].operating = FALSE]
             /\ storage' = [storage EXCEPT ![n] = Append(@, result)]
             /\ net' = net \cup Out(n, {packet})
    <3>1. tx_qubits' = [tx_qubits EXCEPT ![n] = new]
      BY <2>9
    <3> HIDE DEF new
    <3>2. tx_qubits'[n] = new /\ storage'[n] = Append(storage[n], result)
      BY <2>9, <3>1 DEF IInv, HeldOK
    <3>3. Append(storage[n], result) \in Seq(Item(n))
      BY <2>1, <2>4, AppendProperties DEF NodeOK
    <3>4. NodeOK(n, tx_queue'[n], tx_qubits'[n], rx_queue'[n], rx_qubits'[n], storage'[n])
      BY <1>3, <2>1, <2>6, <3>2, <3>3 DEF NodeOK
    <3>5. OnlyAt(n, tx_qubits, tx_qubits') /\ OnlyAt(n, storage, storage')
      <4>1. OnlyAt(n, tx_qubits, tx_qubits')
        BY ONLY <3>1, OnlyAtExcept
      <4>2. OnlyAt(n, storage, storage')
        BY <2>9, OnlyAtExcept
      <4> QED
        BY <4>1, <4>2
    <3>6. /\ OnlyAt(n, tx_queue, tx_queue') /\ OnlyAt(n, rx_queue, rx_queue')
          /\ OnlyAt(n, rx_qubits, rx_qubits')
      BY <1>3, OnlyAtExcept
    <3>7. HeldOK'
      BY <3>4, <3>5, <3>6, HeldPreserved DEF IInv
    <3>8. net' \subseteq PeerMessage
      BY <2>5, <2>9, OutType DEF IInv, RestOK
    <3> QED
      BY <1>3, <2>7, <3>7, <3>8 DEF IInv, RestOK
  <2> QED
    BY <1>3, <2>8, <2>9
<1> QED
  BY <1>1, <1>2, <1>3

\* Steps that leave every list as it is.
LEMMA QuietIInv ==
  ASSUME IInv, Lose \/ (\E n \in Node : StopApplication(n)) \/ UNCHANGED vars
  PROVE  IInv'
<1>1. UNCHANGED held
  BY DEF Lose, StopApplication, vars
<1>2. /\ net' \subseteq net
      /\ sock' \in [Node -> {"unbound", "bound", "closed"}]
      /\ UNCHANGED <<msg_count, data, events, failed>>
  <2>1. CASE Lose
    BY <2>1 DEF Lose, IInv, RestOK
  <2>2. CASE \E n \in Node : StopApplication(n)
    BY <2>2 DEF StopApplication, IInv, RestOK
  <2>3. CASE UNCHANGED vars
    BY <2>3 DEF vars, IInv, RestOK
  <2> QED
    BY <2>1, <2>2, <2>3
<1>3. HeldOK'
  BY <1>1, HeldUnchanged DEF IInv
<1> QED
  BY <1>2, <1>3 DEF IInv, RestOK

-----------------------------------------------------------------------------
LEMMA StepIInv == IInv /\ [Next]_vars => IInv'
<1> SUFFICES ASSUME IInv, [Next]_vars PROVE IInv'
  OBVIOUS
<1>1. ASSUME NEW n \in Node, StartApplication(n) \/ Run(n)
      PROVE  IInv'
  BY <1>1, RunBodyIInv DEF StartApplication, Run
<1>2. CASE Lose \/ (\E n \in Node : StopApplication(n)) \/ UNCHANGED vars
  BY <1>2, QuietIInv
<1>3. ASSUME NEW n \in Node, NEW id, QubitSpoiled(n, id) \/ ClassicalSpoiled(n, id)
      PROVE  IInv'
  BY <1>3, SendNACKIInv DEF QubitSpoiled, ClassicalSpoiled, Arrives
<1>4. ASSUME NEW n \in Node, NEW id, ReceiveQubit(n, id)
      PROVE  IInv'
  BY <1>4, ReceiveQubitIInv
<1>5. ASSUME NEW n \in Node, NEW id, ReceiveClassical(n, id)
      PROVE  IInv'
  BY <1>5, ReceiveClassicalIInv
<1>6. ASSUME NEW n \in Node, NEW id, ReceiveNACK(n, id) \/ ReceiveAWK(n, id)
      PROVE  IInv'
  BY <1>6, ReceiveNACKIInv, ReceiveAWKIInv
<1>7. ASSUME NEW n \in Node, NEW id, SendClassical(n, id)
      PROVE  IInv'
  BY <1>7, SendClassicalIInv
<1>8. ASSUME NEW n \in Node, NEW id, LocalGate(n, id)
      PROVE  IInv'
  BY <1>8, LocalGateIInv
<1>9. ASSUME NEW n \in Node, NEW id, ReleaseQubit(n, id)
      PROVE  IInv'
  BY <1>9, ReleaseQubitIInv
<1> QED
  BY <1>1, <1>2, <1>3, <1>4, <1>5, <1>6, <1>7, <1>8, <1>9 DEF Next

\* The invariant of the induction holds, whatever is spoiled, lost or stopped.
THEOREM Invariance == Spec => []IInv
BY InitIInv, StepIInv, PTL DEF Spec

\* The state keeps its types: every record names a peer of its node, and every
\* packet in flight goes to a node (all handlers of the application).
THEOREM TypeCorrect == Spec => []TypeOK
<1>1. IInv => TypeOK
  BY DEF IInv, HeldOK, NodeOK, RestOK, TypeOK, PeerMessage
<1> QED
  BY <1>1, Invariance, PTL

\* No node holds more qubits than NumQubits (Run, Send, DataReceiveCallback,
\* ReleaseQubit), the records overwritten by ReleaseQubit included.
THEOREM QubitLimitHolds == Spec => []QubitLimit
<1>1. IInv => QubitLimit
  BY DEF IInv, HeldOK, NodeOK, QubitLimit
<1> QED
  BY <1>1, Invariance, PTL

\* No operation waits in m_tx_queue beside a free qubit (Run, ReleaseQubit).
THEOREM WorkConservingHolds == Spec => []WorkConserving
<1>1. IInv => WorkConserving
  BY DEF IInv, HeldOK, NodeOK, WorkConserving
<1> QED
  BY <1>1, Invariance, PTL
-------------------------------------------------------------------------------
(***************************************************************************)
(* Proofs about the operations of the application: an operation is never   *)
(* driven twice.  Every handler uses up one driver of its operation (a     *)
(* packet, an event, a place in m_rx_queue) and makes at most one new one; *)
(* an operation that Send takes from m_tx_queue had none before, because   *)
(* no other node has heard of it, and a new id has never been used.        *)
(***************************************************************************)

AtMostOne(S) == \A d, e \in S : d = e

\* No two items of a list carry the same id.
Distinct(seq) == \A i, j \in DOMAIN seq : seq[i].id = seq[j].id => i = j

\* Drivers, each with its kind.
IsDriver(e) == ~(e.fn = "ReleaseQubit" /\ e.sender)

DrivenIn(packets, scheduled, queues, id) ==
       {<<"net", m>> : m \in {m \in packets : m.id = id /\ m.type # "AWK"}}
  \cup {<<"event", e>> : e \in {e \in scheduled : e.id = id /\ IsDriver(e)}}
  \cup {<<"queue", n>> : n \in {n \in Node : Has(queues[n], id)}}

Driven(id) == DrivenIn(net, events, rx_queue, id)
DrivenNext(id) == DrivenIn(net', events', rx_queue', id)

\* What waits in m_tx_queue is known to its own node only.
WaitingUnheard ==
  \A n \in Node :
    /\ Distinct(tx_queue[n])
    /\ \A i \in DOMAIN tx_queue[n] :
         LET id == tx_queue[n][i].id
         IN id[1] = n /\ id[2] < msg_count[n] /\ Driven(id) = {}

DInv ==
  /\ IInv
  /\ \A id \in Id : AtMostOne(Driven(id))
  /\ \A id \in Id : Driven(id) # {} => id[2] < msg_count[id[1]]
  /\ \A n \in Node : Distinct(rx_queue[n])
  /\ WaitingUnheard

-----------------------------------------------------------------------------
(***************************************************************************)
(* Lists.                                                                  *)
(***************************************************************************)
LEMMA DomainOfSeq ==
  ASSUME NEW S, NEW seq \in Seq(S)
  PROVE  DOMAIN seq = 1..Len(seq) /\ Len(seq) \in Nat
BY LenProperties

\* m_rx_queue.push_back of an operation that is not in it.
LEMMA AppendDistinct ==
  ASSUME NEW S, NEW seq \in Seq(S), NEW it \in S
  PROVE  /\ Distinct(seq) /\ ~Has(seq, it.id) => Distinct(Append(seq, it))
         /\ \A id : Has(Append(seq, it), id) => Has(seq, id) \/ id = it.id
<1>1. /\ DOMAIN Append(seq, it) = 1..(Len(seq) + 1) /\ DOMAIN seq = 1..Len(seq)
      /\ Len(seq) \in Nat
      /\ \A i \in 1..Len(seq) : Append(seq, it)[i] = seq[i]
      /\ Append(seq, it)[Len(seq) + 1] = it
  <2>1. Append(seq, it) \in Seq(S) /\ Len(Append(seq, it)) = Len(seq) + 1
    BY AppendProperties
  <2>2. \A i \in 1..Len(seq) : Append(seq, it)[i] = seq[i]
    BY AppendProperties
  <2>3. Append(seq, it)[Len(seq) + 1] = it
    BY AppendProperties
  <2> QED
    BY <2>1, <2>2, <2>3, DomainOfSeq
<1>2. \A i \in 1..(Len(seq) + 1) : i \in 1..Len(seq) \/ i = Len(seq) + 1
  BY <1>1
<1> DEFINE new == Append(seq, it)
<1> HIDE DEF new
<1>3. /\ DOMAIN new = 1..(Len(seq) + 1)
      /\ \A i \in 1..Len(seq) : new[i] = seq[i]
      /\ new[Len(seq) + 1] = it
  BY <1>1 DEF new
<1>4. \A id : Has(new, id) => Has(seq, id) \/ id = it.id
  BY <1>1, <1>2, <1>3 DEF Has
<1>5. Distinct(seq) /\ ~Has(seq, it.id) => Distinct(new)
  BY <1>1, <1>2, <1>3 DEF Has, Distinct
<1> QED
  BY <1>4, <1>5 DEF new

\* m_rx_queue without its head.
LEMMA TailDistinct ==
  ASSUME NEW S, NEW seq \in Seq(S), seq # <<>>
  PROVE  /\ Has(seq, Head(seq).id)
         /\ \A id : Has(Tail(seq), id) => Has(seq, id)
         /\ Distinct(seq) => Distinct(Tail(seq)) /\ ~Has(Tail(seq), Head(seq).id)
<1>1. /\ Len(seq) \in Nat \ {0} /\ DOMAIN seq = 1..Len(seq)
      /\ Head(seq) = seq[1]
      /\ Tail(seq) \in Seq(S) /\ Len(Tail(seq)) = Len(seq) - 1
      /\ \A i \in 1..Len(Tail(seq)) : Tail(seq)[i] = seq[i + 1]
  BY EmptySeq, HeadTailProperties, DomainOfSeq
<1>2. DOMAIN Tail(seq) = 1..(Len(seq) - 1)
  BY <1>1, DomainOfSeq
<1> DEFINE tail == Tail(seq)
<1>3. /\ DOMAIN tail = 1..(Len(seq) - 1)
      /\ \A i \in 1..(Len(seq) - 1) : tail[i] = seq[i + 1]
  BY <1>1, <1>2
<1> HIDE DEF tail
<1>4. /\ \A i \in 1..(Len(seq) - 1) : i + 1 \in 1..Len(seq) /\ i + 1 # 1
      /\ \A i, j \in 1..(Len(seq) - 1) : i + 1 = j + 1 => i = j
      /\ 1 \in 1..Len(seq)
  BY <1>1
<1>5. Has(seq, Head(seq).id)
  BY <1>1, <1>4 DEF Has
<1>6. \A id : Has(tail, id) => Has(seq, id)
  BY <1>1, <1>3, <1>4 DEF Has
<1>7. ASSUME Distinct(seq)
      PROVE  Distinct(tail)
  <2>1. ASSUME NEW i \in DOMAIN tail, NEW j \in DOMAIN tail, tail[i].id = tail[j].id
        PROVE  i = j
    <3>1. i + 1 \in DOMAIN seq /\ j + 1 \in DOMAIN seq /\ seq[i + 1].id = seq[j + 1].id
      BY <1>1, <1>3, <1>4, <2>1
    <3>2. i + 1 = j + 1
      BY <1>7, <3>1 DEF Distinct
    <3> QED
      BY <1>3, <1>4, <3>2
  <2> QED
    BY <2>1 DEF Distinct
<1>8. ASSUME Distinct(seq), Has(tail, Head(seq).id)
      PROVE  FALSE
  <2>1. PICK i \in DOMAIN tail : tail[i].id = Head(seq).id
    BY <1>8 DEF Has
  <2>2. i + 1 \in DOMAIN seq /\ 1 \in DOMAIN seq /\ seq[i + 1].id = seq[1].id
    BY <1>1, <1>3, <1>4, <2>1
  <2>3. i + 1 = 1
    BY <1>8, <2>2 DEF Distinct
  <2> QED
    BY <1>3, <1>4, <2>3
<1> QED
  BY <1>5, <1>6, <1>7, <1>8 DEF tail

\* What Send leaves in m_tx_queue.
LEMMA RestDistinct ==
  ASSUME NEW S, NEW seq \in Seq(S), NEW k \in 0..Len(seq), Distinct(seq)
  PROVE  /\ Distinct(AfterFirst(seq, k))
         /\ \A j \in DOMAIN AfterFirst(seq, k) :
              \E i \in DOMAIN seq :
                 /\ AfterFirst(seq, k)[j] = seq[i]
                 /\ \A l \in 1..k : seq[l].id # seq[i].id
<1>1. DOMAIN seq = 1..Len(seq) /\ Len(seq) \in Nat
  BY DomainOfSeq
<1> DEFINE rest == AfterFirst(seq, k)
<1>2. DOMAIN rest = 1..(Len(seq) - k) /\ \A j \in 1..(Len(seq) - k) : rest[j] = seq[k + j]
  <2>1. \A i \in (k + 1)..Len(seq) : seq[i] \in S
    BY <1>1, ElementOfSeq
  <2>2. \A i \in 1..(Len(seq) - (k + 1) + 1) :
           SubSeq(seq, k + 1, Len(seq))[i] = seq[k + 1 + i - 1]
    BY <1>1, <2>1, SubSeqProperties
  <2>3. /\ SubSeq(seq, k + 1, Len(seq)) \in Seq(S)
        /\ Len(SubSeq(seq, k + 1, Len(seq))) = Len(seq) - k
    BY SplitAt DEF AfterFirst
  <2>4. Len(seq) - (k + 1) + 1 = Len(seq) - k
    BY <1>1
  <2>5. \A i \in 1..(Len(seq) - k) : k + 1 + i - 1 = k + i
    BY <1>1
  <2> QED
    BY <2>2, <2>3, <2>4, <2>5, DomainOfSeq DEF AfterFirst
<1> HIDE DEF rest
<1>3. /\ \A j \in 1..(Len(seq) - k) : k + j \in 1..Len(seq) /\ \A l \in 1..k : l # k + j
      /\ \A i, j \in 1..(Len(seq) - k) : k + i = k + j => i = j
      /\ \A l \in 1..k : l \in 1..Len(seq)
  BY <1>1
<1>4. Distinct(rest)
  <2>1. ASSUME NEW i \in DOMAIN rest, NEW j \in DOMAIN rest, rest[i].id = rest[j].id
        PROVE  i = j
    <3>1. k + i \in DOMAIN seq /\ k + j \in DOMAIN seq /\ seq[k + i].id = seq[k + j].id
      BY <1>1, <1>2, <1>3, <2>1
    <3>2. k + i = k + j
      BY <3>1 DEF Distinct
    <3> QED
      BY <1>2, <1>3, <3>2
  <2> QED
    BY <2>1 DEF Distinct
<1>5. ASSUME NEW j \in DOMAIN rest
      PROVE  \E i \in DOMAIN seq : rest[j] = seq[i] /\ \A l \in 1..k : seq[l].id # seq[i].id
  <2>1. k + j \in DOMAIN seq /\ rest[j] = seq[k + j]
    BY <1>1, <1>2, <1>3
  <2>2. \A l \in 1..k : seq[l].id # seq[k + j].id
    BY <1>1, <1>2, <1>3, <2>1 DEF Distinct
  <2> QED
    BY <2>1, <2>2
<1> QED
  BY <1>4, <1>5 DEF rest

-----------------------------------------------------------------------------
(***************************************************************************)
(* Drivers.                                                                *)
(***************************************************************************)
LEMMA DrivenIs ==
  ASSUME NEW id, NEW d
  PROVE  d \in Driven(id) <=>
           \/ \E m \in net : m.id = id /\ m.type # "AWK" /\ d = <<"net", m>>
           \/ \E e \in events : e.id = id /\ IsDriver(e) /\ d = <<"event", e>>
           \/ \E n \in Node : Has(rx_queue[n], id) /\ d = <<"queue", n>>
BY DEF Driven, DrivenIn

LEMMA DrivenIsNext ==
  ASSUME NEW id, NEW d
  PROVE  d \in DrivenNext(id) <=>
           \/ \E m \in net' : m.id = id /\ m.type # "AWK" /\ d = <<"net", m>>
           \/ \E e \in events' : e.id = id /\ IsDriver(e) /\ d = <<"event", e>>
           \/ \E n \in Node : Has(rx_queue'[n], id) /\ d = <<"queue", n>>
BY DEF DrivenNext, DrivenIn

\* A step gives an operation at most one new driver, for one that it loses.
Turned(id) ==
  \A d \in DrivenNext(id) \ Driven(id) :
    /\ \A e \in DrivenNext(id) \ Driven(id) : d = e
    /\ Driven(id) \ DrivenNext(id) # {}

LEMMA TurnedDInv ==
  ASSUME DInv, IInv', UNCHANGED <<msg_count, tx_queue>>,
         \A id \in Id : Turned(id), \A n \in Node : Distinct(rx_queue[n])'
  PROVE  DInv'
<1>1. ASSUME NEW id \in Id
      PROVE  AtMostOne(DrivenNext(id))
  <2>1. Turned(id) /\ AtMostOne(Driven(id))
    BY DEF DInv
  <2> QED
    BY <2>1 DEF Turned, AtMostOne
<1>2. \A id \in Id : DrivenNext(id) # {} => Driven(id) # {}
  BY DEF Turned
<1>3. \A id \in Id : DrivenNext(id) # {} => id[2] < msg_count'[id[1]]
  BY <1>2 DEF DInv
<1>4. WaitingUnheard'
  <2>1. ASSUME NEW n \in Node, NEW i \in DOMAIN tx_queue[n]
        PROVE  DrivenNext(tx_queue[n][i].id) = {}
    <3>1. tx_queue[n][i].id \in Id
      <4>1. tx_queue[n] \in Seq(Item(n))
        BY DEF DInv, IInv, HeldOK, NodeOK
      <4>2. tx_queue[n][i] \in Item(n)
        BY <4>1, DomainOfSeq, ElementOfSeq
      <4> QED
        BY <4>2, ItemFields
    <3> QED
      BY <1>2, <3>1 DEF DInv, WaitingUnheard
  <2> QED
    BY <2>1 DEF DInv, WaitingUnheard, Distinct, Driven, DrivenNext, DrivenIn, Has
<1>5. \A id \in Id : AtMostOne(Driven(id))' /\ Driven(id)' = DrivenNext(id)
  BY <1>1 DEF AtMostOne, Driven, DrivenNext, DrivenIn, Has
<1> QED
  BY <1>3, <1>4, <1>5 DEF DInv

\* Steps that make no driver.
LEMMA FewerDInv ==
  ASSUME DInv, IInv', net' \subseteq net, events' \subseteq events,
         UNCHANGED <<msg_count, tx_queue, rx_queue>>
  PROVE  DInv'
<1>1. \A id \in Id : DrivenNext(id) \subseteq Driven(id)
  BY DrivenIs, DrivenIsNext
<1>2. \A id \in Id : Turned(id)
  BY <1>1 DEF Turned
<1>3. \A n \in Node : Distinct(rx_queue[n])'
  BY DEF DInv, Distinct
<1> QED
  BY <1>2, <1>3, TurnedDInv

\* A handler takes driver c of its operation and makes at most driver d.
LEMMA OneForOne ==
  ASSUME NEW id \in Id, NEW c, NEW d, c \in Driven(id), c \notin DrivenNext(id),
         \A m \in net' : m.type # "AWK" => m \in net \/ (m.id = id /\ d = <<"net", m>>),
         \A e \in events' : IsDriver(e) => e \in events \/ (e.id = id /\ d = <<"event", e>>),
         \A n \in Node, j \in Id :
           Has(rx_queue'[n], j) => Has(rx_queue[n], j) \/ (j = id /\ d = <<"queue", n>>)
  PROVE  \A j \in Id : Turned(j)
<1>1. ASSUME NEW j \in Id, NEW f \in DrivenNext(j) \ Driven(j)
      PROVE  j = id /\ f = d
  <2>1. CASE \E m \in net' : m.id = j /\ m.type # "AWK" /\ f = <<"net", m>>
    BY <1>1, <2>1, DrivenIs
  <2>2. CASE \E e \in events' : e.id = j /\ IsDriver(e) /\ f = <<"event", e>>
    BY <1>1, <2>2, DrivenIs
  <2>3. CASE \E n \in Node : Has(rx_queue'[n], j) /\ f = <<"queue", n>>
    BY <1>1, <2>3, DrivenIs
  <2> QED
    BY <1>1, <2>1, <2>2, <2>3, DrivenIsNext
<1> QED
  BY <1>1 DEF Turned

LEMMA OneForPacket ==
  ASSUME NEW id \in Id, NEW c, NEW packet, c \in Driven(id), c \notin DrivenNext(id),
         packet.id = id, net' \subseteq net \cup {packet},
         \A e \in events' : IsDriver(e) => e \in events,
         \A n \in Node : rx_queue'[n] = rx_queue[n]
  PROVE  \A j \in Id : Turned(j)
<1>1. \A m \in net' : m.type # "AWK" =>
         m \in net \/ (m.id = id /\ <<"net", packet>> = <<"net", m>>)
  OBVIOUS
<1>2. PICK d : d = <<"net", packet>>
  OBVIOUS
<1> QED
  BY <1>1, <1>2, OneForOne

LEMMA OneForEvent ==
  ASSUME NEW id \in Id, NEW c, NEW event, c \in Driven(id), c \notin DrivenNext(id),
         event.id = id, events' \subseteq events \cup {event},
         \A m \in net' : m.type # "AWK" => m \in net,
         \A n \in Node : rx_queue'[n] = rx_queue[n]
  PROVE  \A j \in Id : Turned(j)
<1>1. \A e \in events' : IsDriver(e) =>
         e \in events \/ (e.id = id /\ <<"event", event>> = <<"event", e>>)
  OBVIOUS
<1>2. PICK d : d = <<"event", event>>
  OBVIOUS
<1> QED
  BY <1>1, <1>2, OneForOne

\* A packet that is taken from the network no longer drives its operation.
LEMMA PacketTaken ==
  ASSUME NEW m \in net, m.type # "AWK", m \notin net'
  PROVE  <<"net", m>> \in Driven(m.id) /\ <<"net", m>> \notin DrivenNext(m.id)
<1>1. <<"net", m>> \in Driven(m.id)
  BY DrivenIs
<1>2. <<"net", m>> \notin DrivenNext(m.id)
  BY DrivenIsNext
<1> QED
  BY <1>1, <1>2

LEMMA EventTaken ==
  ASSUME NEW e \in events, IsDriver(e), e \notin events'
  PROVE  <<"event", e>> \in Driven(e.id) /\ <<"event", e>> \notin DrivenNext(e.id)
<1>1. <<"event", e>> \in Driven(e.id)
  BY DrivenIs
<1>2. <<"event", e>> \notin DrivenNext(e.id)
  BY DrivenIsNext
<1> QED
  BY <1>1, <1>2

LEMMA NodeLists ==
  ASSUME IInv, NEW n \in Node
  PROVE  /\ tx_queue[n] \in Seq(Item(n)) /\ tx_qubits[n] \in Seq(Item(n))
         /\ rx_queue[n] \in Seq(Item(n)) /\ rx_qubits[n] \in Seq(Item(n))
         /\ storage[n] \in Seq(Item(n))
         /\ DOMAIN tx_queue = Node /\ DOMAIN tx_qubits = Node
         /\ DOMAIN rx_queue = Node /\ DOMAIN rx_qubits = Node /\ DOMAIN storage = Node
BY DEF IInv, HeldOK, NodeOK

LEMMA ArrivedId ==
  ASSUME IInv, NEW m \in net
  PROVE  m.id \in Id /\ m \in PeerMessage
BY MessageFields DEF IInv, RestOK

-----------------------------------------------------------------------------
(***************************************************************************)
(* Send: Run and ReleaseQubit take operations from m_tx_queue.             *)
(***************************************************************************)
LEMMA SendDInv ==
  ASSUME DInv, IInv', NEW n \in Node, NEW queue \in Seq(Item(n)), NEW k \in 0..Len(queue),
         Distinct(queue),
         \A i \in DOMAIN queue : /\ queue[i].id[1] = n
                                 /\ queue[i].id[2] < msg_count'[n]
                                 /\ Driven(queue[i].id) = {},
         \A r \in Node : msg_count[r] <= msg_count'[r],
         tx_queue' = [tx_queue EXCEPT ![n] = AfterFirst(queue, k)],
         net' \subseteq net \cup {QubitOf(n, queue[i]) : i \in 1..k},
         events' \subseteq events, UNCHANGED rx_queue
  PROVE  DInv'
<1>1. DOMAIN queue = 1..Len(queue) /\ 1..k \subseteq 1..Len(queue)
  BY DomainOfSeq
<1>2. \A i : QubitOf(n, queue[i]).id = queue[i].id
  BY DEF QubitOf, Packet
<1>3. ASSUME NEW id \in Id, NEW d \in DrivenNext(id) \ Driven(id)
      PROVE  \E i \in 1..k : queue[i].id = id /\ d = <<"net", QubitOf(n, queue[i])>>
  <2>1. PICK m \in net' : m.id = id /\ m.type # "AWK" /\ d = <<"net", m>>
    BY <1>3, DrivenIs, DrivenIsNext
  <2>2. m \notin net
    BY <1>3, <2>1, DrivenIs
  <2>3. PICK i \in 1..k : m = QubitOf(n, queue[i])
    BY <2>2
  <2> QED
    BY <1>2, <2>1, <2>3
<1>4. \A id \in Id : (\A i \in 1..k : queue[i].id # id) => DrivenNext(id) \subseteq Driven(id)
  BY <1>3
<1>5. ASSUME NEW id \in Id
      PROVE  AtMostOne(DrivenNext(id))
  <2>1. CASE \E i \in 1..k : queue[i].id = id
    <3>1. PICK i \in 1..k : queue[i].id = id
      BY <2>1
    <3>2. Driven(id) = {}
      BY <1>1, <3>1
    <3>3. \A j \in 1..k : queue[j].id = id => j = i
      BY <1>1, <3>1 DEF Distinct
    <3>4. \A d \in DrivenNext(id) : d = <<"net", QubitOf(n, queue[i])>>
      BY <1>3, <3>2, <3>3
    <3> QED
      BY <3>4 DEF AtMostOne
  <2>2. CASE \A i \in 1..k : queue[i].id # id
    BY <1>4, <2>2 DEF DInv, AtMostOne
  <2> QED
    BY <2>1, <2>2
<1>6. ASSUME NEW id \in Id, DrivenNext(id) # {}
      PROVE  id[2] < msg_count'[id[1]]
  <2>1. CASE \E i \in 1..k : queue[i].id = id
    BY <1>1, <2>1
  <2>2. CASE \A i \in 1..k : queue[i].id # id
    <3>1. id[2] < msg_count[id[1]]
      BY <1>4, <1>6, <2>2 DEF DInv
    <3>2. id[1] \in Node /\ id[2] \in Nat
      BY DEF Id
    <3>3. msg_count[id[1]] \in Nat /\ msg_count'[id[1]] \in Nat
      BY <3>2 DEF DInv, IInv, RestOK
    <3>4. msg_count[id[1]] <= msg_count'[id[1]]
      BY <3>2
    <3> QED
      BY <3>1, <3>2, <3>3, <3>4
  <2> QED
    BY <2>1, <2>2
<1>7. WaitingUnheard'
  <2> DEFINE Unheard(r, it) == /\ it.id[1] = r /\ it.id[2] < msg_count'[r]
                              /\ DrivenNext(it.id) = {}
  <2>1. Distinct(tx_queue'[n]) /\ \A j \in DOMAIN tx_queue'[n] : Unheard(n, tx_queue'[n][j])
    <3>1. tx_queue'[n] = AfterFirst(queue, k)
      BY NodeLists DEF DInv
    <3>2. /\ Distinct(AfterFirst(queue, k))
          /\ \A j \in DOMAIN AfterFirst(queue, k) :
                \E i \in DOMAIN queue :
                  /\ AfterFirst(queue, k)[j] = queue[i]
                  /\ \A l \in 1..k : queue[l].id # queue[i].id
      BY RestDistinct
    <3>3. \A i \in DOMAIN queue : queue[i].id \in Id
      BY <1>1, ElementOfSeq, ItemFields
    <3>4. ASSUME NEW j \in DOMAIN AfterFirst(queue, k)
          PROVE  Unheard(n, AfterFirst(queue, k)[j])
      <4>1. PICK i \in DOMAIN queue :
              /\ AfterFirst(queue, k)[j] = queue[i]
              /\ \A l \in 1..k : queue[l].id # queue[i].id
        BY <3>2
      <4>2. DrivenNext(queue[i].id) = {}
        BY <1>4, <3>3, <4>1
      <4> QED
        BY <4>1, <4>2
    <3> HIDE DEF Unheard
    <3> QED
      BY <3>1, <3>2, <3>4
  <2>2. ASSUME NEW r \in Node, r # n
        PROVE  Distinct(tx_queue'[r]) /\ \A j \in DOMAIN tx_queue'[r] : Unheard(r, tx_queue'[r][j])
    <3>1. tx_queue'[r] = tx_queue[r]
      BY <2>2, OnlyAtExcept DEF OnlyAt
    <3>2. ASSUME NEW j \in DOMAIN tx_queue[r]
          PROVE  Unheard(r, tx_queue[r][j])
      <4> DEFINE id == tx_queue[r][j].id
      <4>1. id[1] = r /\ id[2] < msg_count[r] /\ Driven(id) = {}
        BY DEF DInv, WaitingUnheard
      <4>2. id \in Id
        <5>1. tx_queue[r] \in Seq(Item(r))
          BY NodeLists DEF DInv
        <5>2. tx_queue[r][j] \in Item(r)
          BY <5>1, DomainOfSeq, ElementOfSeq
        <5> QED
          BY <5>2, ItemFields
      <4> HIDE DEF id
      <4>3. DrivenNext(id) = {}
        BY <1>1, <1>4, <2>2, <4>1, <4>2
      <4>4. id[2] < msg_count'[r]
        <5>1. id[2] \in Nat /\ msg_count[r] \in Nat /\ msg_count'[r] \in Nat
          BY <4>2 DEF DInv, IInv, RestOK, Id
        <5> QED
          BY <4>1, <5>1
      <4> QED
        BY <4>1, <4>3, <4>4 DEF id
    <3>3. Distinct(tx_queue[r])
      BY DEF DInv, WaitingUnheard
    <3> QED
      BY <3>1, <3>2, <3>3
  <2> QED
    BY <2>1, <2>2 DEF WaitingUnheard, Distinct, Driven, DrivenNext, DrivenIn, Has
<1>8. \A r \in Node : Distinct(rx_queue[r])'
  BY DEF DInv, Distinct
<1>9. \A id \in Id : AtMostOne(Driven(id))' /\ Driven(id)' = DrivenNext(id)
  BY <1>5 DEF AtMostOne, Driven, DrivenNext, DrivenIn, Has
<1> QED
  BY <1>6, <1>7, <1>8, <1>9 DEF DInv

\* The id that Run gives a new operation: nobody has heard of it.
LEMMA RunBodyDInv ==
  ASSUME DInv, IInv', NEW n \in Node, RunBody(n)
  PROVE  DInv'
<1>1. PICK p \in DOMAIN Peers[n], protocol \in Protocols :
        LET item == [id |-> <<n, msg_count[n]>>, peer |-> p, protocol |-> protocol,
                     has_qubit |-> FALSE, operating |-> FALSE, x |-> FALSE, z |-> FALSE]
            waiting == Append(tx_queue[n], item)
            k == Movable(waiting, tx_qubits[n])
        IN \/ /\ msg_count' = [msg_count EXCEPT ![n] = @ + 1]
              /\ tx_queue'  = [tx_queue EXCEPT ![n] = AfterFirst(waiting, k)]
              /\ net'  = net \cup {QubitOf(n, waiting[i]) : i \in 1..k}
              /\ UNCHANGED <<rx_queue, events>>
           \/ Abort("Send")
  BY DEF RunBody
<1> DEFINE id == <<n, msg_count[n]>>
           item == [id |-> id, peer |-> p, protocol |-> protocol,
                    has_qubit |-> FALSE, operating |-> FALSE, x |-> FALSE, z |-> FALSE]
           waiting == Append(tx_queue[n], item)
           k == Movable(waiting, tx_qubits[n])
<1>2. CASE Abort("Send")
  BY <1>2, FewerDInv DEF Abort, held
<1>3. ASSUME /\ msg_count' = [msg_count EXCEPT ![n] = @ + 1]
             /\ tx_queue'  = [tx_queue EXCEPT ![n] = AfterFirst(waiting, k)]
             /\ net'  = net \cup {QubitOf(n, waiting[i]) : i \in 1..k}
             /\ UNCHANGED <<rx_queue, events>>
      PROVE  DInv'
  <2>1. msg_count[n] \in Nat /\ msg_count \in [Node -> Nat] /\ id \in Id
    BY DEF DInv, IInv, RestOK, Id
  <2>2. item \in Item(n) /\ item.id = id
    BY <2>1 DEF Item
  <2>3. tx_queue[n] \in Seq(Item(n)) /\ tx_qubits[n] \in Seq(Item(n)) /\ Len(tx_qubits[n]) <= NumQubits
    BY DEF DInv, IInv, HeldOK, NodeOK
  <2>4. Driven(id) = {}
    BY <2>1 DEF DInv
  <2>5. ~Has(tx_queue[n], id)
    BY <2>1 DEF DInv, WaitingUnheard, Has
  <2> HIDE DEF item
  <2>6. waiting \in Seq(Item(n)) /\ Distinct(waiting)
        /\ \A j : Has(waiting, j) => Has(tx_queue[n], j) \/ j = id
    <3>1. Distinct(tx_queue[n]) /\ ~Has(tx_queue[n], item.id)
      BY <2>2, <2>5 DEF DInv, WaitingUnheard
    <3> HIDE DEF id
    <3>2. waiting \in Seq(Item(n))
      BY <2>2, <2>3, AppendProperties
    <3>3. /\ Distinct(Append(tx_queue[n], item))
          /\ \A j : Has(Append(tx_queue[n], item), j) => Has(tx_queue[n], j) \/ j = item.id
      BY <2>2, <2>3, <3>1, AppendDistinct
    <3> QED
      BY <2>2, <3>2, <3>3
  <2> HIDE DEF waiting
  <2>7. k \in 0..Len(waiting)
    BY <2>3, <2>6, MovableRange
  <2>8. msg_count'[n] = msg_count[n] + 1 /\ \A r \in Node : msg_count[r] <= msg_count'[r]
    BY <1>3, <2>1
  <2>9. ASSUME NEW i \in DOMAIN waiting
        PROVE  /\ waiting[i].id[1] = n /\ waiting[i].id[2] < msg_count'[n]
               /\ Driven(waiting[i].id) = {}
    <3>1. CASE waiting[i].id = id
      BY <2>1, <2>4, <2>8, <3>1
    <3>2. CASE waiting[i].id # id
      <4>1. PICK j \in DOMAIN tx_queue[n] : tx_queue[n][j].id = waiting[i].id
        BY <2>6, <3>2 DEF Has
      <4>2. /\ waiting[i].id[1] = n /\ waiting[i].id[2] < msg_count[n]
            /\ Driven(waiting[i].id) = {}
        BY <4>1 DEF DInv, WaitingUnheard
      <4>3. waiting[i].id[2] \in Nat
        <5>1. waiting[i] \in Item(n)
          BY <2>6, DomainOfSeq, ElementOfSeq
        <5> QED
          BY <5>1, ItemFields DEF Id
      <4> QED
        BY <2>1, <2>8, <4>2, <4>3
    <3> QED
      BY <3>1, <3>2
  <2> HIDE DEF k
  <2> QED
    BY <1>3, <2>6, <2>7, <2>8, <2>9, SendDInv
<1> QED
  BY <1>1, <1>2, <1>3

LEMMA ReleaseAtSenderDInv ==
  ASSUME DInv, IInv', NEW n \in Node, NEW id, ReleaseAtSender(n, id), events' \subseteq events
  PROVE  DInv'
<1> DEFINE rest == RemoveAt(tx_qubits[n], Slot(tx_qubits[n], id))
           k == Movable(tx_queue[n], rest)
           moved == FirstOf(tx_queue[n], k)
<1>1. CASE UNCHANGED <<sock, msg_count, held, data, net>>
  BY <1>1, FewerDInv DEF held
<1>2. ASSUME /\ Has(tx_qubits[n], id)
             /\ tx_queue' = [tx_queue EXCEPT ![n] = AfterFirst(@, k)]
             /\ net' = net \cup Out(n, {QubitOf(n, moved[i]) : i \in 1..k})
             /\ UNCHANGED <<msg_count, rx_queue>>
      PROVE  DInv'
  <2>1. tx_queue[n] \in Seq(Item(n)) /\ tx_qubits[n] \in Seq(Item(n)) /\ Len(tx_qubits[n]) <= NumQubits
    BY DEF DInv, IInv, HeldOK, NodeOK
  <2>2. rest \in Seq(Item(n)) /\ Len(rest) <= NumQubits
    <3>1. Slot(tx_qubits[n], id) \in 1..Len(tx_qubits[n])
      BY <1>2, <2>1, SlotFound
    <3>2. Len(rest) = Len(tx_qubits[n]) - 1 /\ rest \in Seq(Item(n))
      BY <2>1, <3>1, RemoveAtElements
    <3>3. Len(tx_qubits[n]) \in Nat
      BY <2>1, LenProperties
    <3> QED
      BY <2>1, <3>2, <3>3, ParametersAssumption
  <2> HIDE DEF rest
  <2>3. k \in 0..Len(tx_queue[n])
    BY <2>1, <2>2, MovableRange
  <2> HIDE DEF k
  <2>4. \A i \in 1..k : moved[i] = tx_queue[n][i]
    BY <2>1, <2>3, SplitAt
  <2>5. net' \subseteq net \cup {QubitOf(n, tx_queue[n][i]) : i \in 1..k}
    BY <1>2, <2>4 DEF Out
  <2>6. \A r \in Node : msg_count[r] <= msg_count'[r]
    BY <1>2 DEF DInv, IInv, RestOK
  <2>7. /\ Distinct(tx_queue[n])
        /\ \A i \in DOMAIN tx_queue[n] : /\ tx_queue[n][i].id[1] = n
                                         /\ tx_queue[n][i].id[2] < msg_count'[n]
                                         /\ Driven(tx_queue[n][i].id) = {}
    BY <1>2 DEF DInv, WaitingUnheard
  <2>8. tx_queue' = [tx_queue EXCEPT ![n] = AfterFirst(tx_queue[n], k)]
    BY <1>2
  <2> QED
    BY <1>2, <2>1, <2>3, <2>5, <2>6, <2>7, <2>8, SendDInv
<1> QED
  BY <1>1, <1>2 DEF ReleaseAtSender

-----------------------------------------------------------------------------
(***************************************************************************)
(* The other handlers.                                                     *)
(***************************************************************************)
LEMMA SendNACKDInv ==
  ASSUME DInv, IInv', NEW n \in Node, NEW m \in net, m.type \in {"Qubit", "Classical"},
         SendNACK(n, m)
  PROVE  DInv'
<1> DEFINE nack == NACKFor(n, PeerIndex(n, m.src), m.id, m.protocol)
<1>1. nack.id = m.id /\ nack.type = "NACK"
  BY DEF NACKFor, Packet
<1>2. net' = (net \ {m}) \cup {nack} /\ UNCHANGED <<msg_count, tx_queue, rx_queue, events>>
  BY DEF SendNACK, held
<1> HIDE DEF nack
<1>3. m.id \in Id
  BY ArrivedId DEF DInv
<1>4. <<"net", m>> \in Driven(m.id) /\ <<"net", m>> \notin DrivenNext(m.id)
  BY <1>1, <1>2, PacketTaken
<1>5. \A j \in Id : Turned(j)
  BY <1>1, <1>2, <1>3, <1>4, OneForOne
<1>6. \A r \in Node : Distinct(rx_queue[r])'
  BY <1>2 DEF DInv, Distinct
<1> QED
  BY <1>2, <1>5, <1>6, TurnedDInv

LEMMA ReceiveQubitDInv ==
  ASSUME DInv, IInv', NEW n \in Node, NEW id, ReceiveQubit(n, id)
  PROVE  DInv'
<1> DEFINE s == Slot(rx_qubits[n], id)
           known == Has(rx_qubits[n], id)
           room == Room(n)
           Update == [rx_qubits[n] EXCEPT ![s].has_qubit = TRUE, ![s].operating = TRUE]
           event == [fn |-> "SendClassical", node |-> n, id |-> id, sender |-> FALSE]
<1>1. PICK m \in net :
       LET item == [id |-> id, peer |-> PeerIndex(n, m.src), protocol |-> m.protocol,
                    has_qubit |-> ~known /\ room, operating |-> ~known /\ room,
                    x |-> FALSE, z |-> FALSE]
       IN /\ Arrives(m, "Qubit", n, id)
          /\ \/ /\ rx_qubits' = [rx_qubits EXCEPT ![n] =
                       IF known THEN Update
                       ELSE IF room THEN Append(rx_qubits[n], item) ELSE rx_qubits[n]]
                /\ rx_queue' = [rx_queue EXCEPT ![n] =
                       IF known \/ room THEN rx_queue[n] ELSE Append(rx_queue[n], item)]
                /\ data' = [data EXCEPT ![n] = IF known THEN @ ELSE @ \cup {id}]
                /\ events' = events \cup (IF known \/ room THEN {event} ELSE {})
                /\ net' = net \ {m}
                /\ UNCHANGED <<sock, msg_count, tx_queue, tx_qubits, storage, failed>>
             \/ Abort("ReceiveQubit")
  BY DEF ReceiveQubit
<1> DEFINE item == [id |-> id, peer |-> PeerIndex(n, m.src), protocol |-> m.protocol,
                    has_qubit |-> ~known /\ room, operating |-> ~known /\ room,
                    x |-> FALSE, z |-> FALSE]
<1>2. CASE Abort("ReceiveQubit")
  BY <1>2, FewerDInv DEF Abort, held
<1>3. ASSUME /\ rx_queue' = [rx_queue EXCEPT ![n] =
                    IF known \/ room THEN rx_queue[n] ELSE Append(rx_queue[n], item)]
             /\ events' = events \cup (IF known \/ room THEN {event} ELSE {})
             /\ net' = net \ {m}
             /\ UNCHANGED <<sock, msg_count, tx_queue, tx_qubits, storage, failed>>
      PROVE  DInv'
  <2>1. m.id = id /\ m.type = "Qubit" /\ m.dst = n /\ id \in Id /\ m \in PeerMessage
    BY <1>1, ArrivedId DEF Arrives, DInv
  <2>2. item \in Item(n) /\ item.id = id
    <3>1. PeerIndex(n, m.src) \in DOMAIN Peers[n] /\ m.protocol \in Protocols
      BY <2>1, MessageFields
    <3>2. (~known /\ room) \in BOOLEAN
      OBVIOUS
    <3> QED
      BY <2>1, <3>1, <3>2 DEF Item
  <2> HIDE DEF item, Update
  <2>3. event.id = id
    OBVIOUS
  <2> HIDE DEF event
  <2>4. <<"net", m>> \in Driven(id) /\ <<"net", m>> \notin DrivenNext(id)
    BY <1>3, <2>1, PacketTaken
  <2>5. rx_queue[n] \in Seq(Item(n)) /\ DOMAIN rx_queue = Node
    BY NodeLists DEF DInv
  <2>6. /\ Distinct(Append(rx_queue[n], item))
        /\ \A j : Has(Append(rx_queue[n], item), j) => Has(rx_queue[n], j) \/ j = id
    <3>1. Distinct(rx_queue[n])
      BY DEF DInv
    <3>2. ~Has(rx_queue[n], id)
      <4>1. Has(rx_queue[n], id) => <<"queue", n>> \in Driven(id)
        BY DrivenIs
      <4>2. <<"queue", n>> # <<"net", m>>
        OBVIOUS
      <4> QED
        BY <2>1, <2>4, <4>1, <4>2 DEF DInv, AtMostOne
    <3> QED
      BY <3>2, <2>2, <2>5, <3>1, AppendDistinct
  <2>7. \A r \in Node : r # n => rx_queue'[r] = rx_queue[r]
    BY <1>3, OnlyAtExcept DEF OnlyAt
  <2>8. CASE known \/ room
    <3>1. rx_queue'[n] = rx_queue[n] /\ \A r \in Node : rx_queue'[r] = rx_queue[r]
      BY <1>3, <2>5, <2>7, <2>8
    <3>2. \A j \in Id : Turned(j)
      BY <1>3, <2>1, <2>3, <2>4, <3>1, OneForEvent
    <3>3. \A r \in Node : Distinct(rx_queue[r])'
      BY <3>1 DEF DInv, Distinct
    <3> QED
      BY <1>3, <3>2, <3>3, TurnedDInv
  <2>9. CASE ~(known \/ room)
    <3>1. rx_queue'[n] = Append(rx_queue[n], item) /\ events' = events
      BY <1>3, <2>5, <2>9
    <3>2. \A j \in Id : Turned(j)
      <4>1. \A r \in Node, j \in Id :
              Has(rx_queue'[r], j) => Has(rx_queue[r], j) \/ (j = id /\ <<"queue", n>> = <<"queue", r>>)
        BY <2>6, <2>7, <3>1
      <4> QED
        BY <1>3, <2>1, <2>4, <3>1, <4>1, OneForOne
    <3>3. \A r \in Node : Distinct(rx_queue'[r])
      BY <2>6, <2>7, <3>1 DEF DInv
    <3> QED
      BY <1>3, <3>2, <3>3, TurnedDInv DEF Distinct
  <2> QED
    BY <2>8, <2>9
<1> QED
  BY <1>1, <1>2, <1>3

LEMMA ReceiveClassicalDInv ==
  ASSUME DInv, IInv', NEW n \in Node, NEW id, ReceiveClassical(n, id)
  PROVE  DInv'
<1> DEFINE atReceiver == Has(rx_qubits[n], id)
           atSender == ~atReceiver /\ Has(tx_qubits[n], id)
           item == rx_qubits[n][Slot(rx_qubits[n], id)]
           local(m) == atSender /\ m.protocol = "telegate"
           event(m) == [fn |-> IF local(m) THEN "LocalGate" ELSE "ReleaseQubit",
                        node |-> n, id |-> id, sender |-> atSender]
           ack(m) == Packet("AWK", n, AckPeer(atSender, item), id, m.protocol, FALSE, FALSE)
<1>0. PICK m \in net :
        /\ Arrives(m, "Classical", n, id)
        /\ \/ /\ events' = events \cup {event(m)}
              /\ net' = (net \ {m}) \cup IF local(m) THEN {} ELSE {ack(m)}
              /\ UNCHANGED <<msg_count, tx_queue, rx_queue>>
           \/ Abort("ReceiveClassical")
  BY DEF ReceiveClassical
<1>1. PICK ev, awk :
        /\ Arrives(m, "Classical", n, id)
        /\ \/ /\ ev.id = id /\ events' = events \cup {ev}
              /\ awk.type = "AWK"
              /\ net' \subseteq (net \ {m}) \cup {awk}
              /\ UNCHANGED <<msg_count, tx_queue, rx_queue>>
           \/ Abort("ReceiveClassical")
  <2>1. event(m).id = id /\ ack(m).type = "AWK"
    BY DEF Packet
  <2> HIDE DEF event, ack, local
  <2> QED
    BY <1>0, <2>1
<1> HIDE DEF event, ack, local, item, atSender, atReceiver
<1>2. CASE Abort("ReceiveClassical")
  BY <1>2, FewerDInv DEF Abort, held
<1>3. ASSUME /\ ev.id = id /\ events' = events \cup {ev}
             /\ awk.type = "AWK"
             /\ net' \subseteq (net \ {m}) \cup {awk}
             /\ UNCHANGED <<msg_count, tx_queue, rx_queue>>
      PROVE  DInv'
  <2>1. m.id = id /\ m.type = "Classical" /\ id \in Id
    BY <1>1, ArrivedId DEF Arrives, DInv
  <2>2. <<"net", m>> \in Driven(id) /\ <<"net", m>> \notin DrivenNext(id)
    BY <1>3, <2>1, PacketTaken
  <2>3. \A j \in Id : Turned(j)
    BY <1>3, <2>1, <2>2, OneForEvent
  <2>4. \A r \in Node : Distinct(rx_queue[r])'
    BY <1>3 DEF DInv, Distinct
  <2> QED
    BY <1>3, <2>3, <2>4, TurnedDInv
<1> QED
  BY <1>1, <1>2, <1>3

LEMMA ReceiveNACKDInv ==
  ASSUME DInv, IInv', NEW n \in Node, NEW id, ReceiveNACK(n, id)
  PROVE  DInv'
<1> DEFINE stored == Has(storage[n], id)
           it == storage[n][LastSlot(storage[n], id)]
           qubit == tx_qubits[n][Slot(tx_qubits[n], id)]
           again == IF stored
                    THEN Packet("Classical", n, it.peer, id, it.protocol, it.x, it.z)
                    ELSE QubitOf(n, qubit)
<1>1. PICK m \in net :
        /\ Arrives(m, "NACK", n, id)
        /\ \/ /\ stored \/ Has(tx_qubits[n], id)
              /\ net' = (net \ {m}) \cup {again}
              /\ UNCHANGED <<sock, msg_count, held, data, events, failed>>
           \/ Abort("ReceiveNACK")
  BY DEF ReceiveNACK
<1>2. CASE Abort("ReceiveNACK")
  BY <1>2, FewerDInv DEF Abort, held
<1>3. ASSUME /\ stored \/ Has(tx_qubits[n], id)
             /\ net' = (net \ {m}) \cup {again}
             /\ UNCHANGED <<sock, msg_count, held, data, events, failed>>
      PROVE  DInv'
  <2>1. m.id = id /\ m.type = "NACK" /\ id \in Id
    BY <1>1, ArrivedId DEF Arrives, DInv
  <2>2. again.id = id /\ again.type # "NACK"
    <3>1. CASE stored
      BY <3>1 DEF Packet
    <3>2. CASE ~stored
      <4>1. qubit.id = id
        BY <1>3, <3>2, NodeLists, SlotFound DEF DInv
      <4> QED
        BY <3>2, <4>1 DEF QubitOf, Packet
    <3> QED
      BY <3>1, <3>2
  <2> HIDE DEF again
  <2>3. <<"net", m>> \in Driven(id) /\ <<"net", m>> \notin DrivenNext(id)
    BY <1>3, <2>1, <2>2, PacketTaken
  <2>4. \A j \in Id : Turned(j)
    BY <1>3, <2>1, <2>2, <2>3, OneForOne DEF held
  <2>5. \A r \in Node : Distinct(rx_queue[r])'
    BY <1>3 DEF DInv, Distinct, held
  <2> QED
    BY <1>3, <2>4, <2>5, TurnedDInv DEF held
<1> QED
  BY <1>1, <1>2, <1>3

\* The operation at the head of m_rx_queue gives up its place there for the
\* NACK that is sent for it, and the one released its event for what it sends.
LEMMA ReleaseAtReceiverDInv ==
  ASSUME DInv, IInv', NEW n \in Node, NEW id \in Id, NEW e \in events, NEW sent, NEW packet,
         e.id = id, IsDriver(e), events' = events \ {e},
         sent \subseteq {packet}, packet.id = id,
         ReleaseAtReceiver(n, id, sent), UNCHANGED <<msg_count, tx_queue>>
  PROVE  DInv'
<1> DEFINE h == Head(rx_queue[n])
           nack == NACKFor(n, h.peer, h.id, h.protocol)
<1>1. rx_queue[n] \in Seq(Item(n)) /\ DOMAIN rx_queue = Node
  BY NodeLists DEF DInv
<1>2. \A r \in Node : r # n => rx_queue'[r] = rx_queue[r]
  BY OnlyAtExcept DEF OnlyAt, ReleaseAtReceiver
<1>3. rx_queue'[n] = IF rx_queue[n] = <<>> THEN rx_queue[n] ELSE Tail(rx_queue[n])
  BY <1>1 DEF ReleaseAtReceiver
<1>4. <<"event", e>> \in Driven(id) /\ <<"event", e>> \notin DrivenNext(id)
  BY EventTaken
<1>5. Distinct(rx_queue[n])
  BY DEF DInv
<1>6. CASE rx_queue[n] = <<>>
  <2>1. \A r \in Node : rx_queue'[r] = rx_queue[r]
    BY <1>2, <1>3, <1>6
  <2>2. net' \subseteq net \cup {packet}
    BY <1>6 DEF ReleaseAtReceiver, Promoted, Out
  <2>3. \A j \in Id : Turned(j)
    BY <1>4, <2>1, <2>2, OneForPacket
  <2>4. \A r \in Node : Distinct(rx_queue[r])'
    BY <2>1 DEF DInv, Distinct
  <2> QED
    BY <2>3, <2>4, TurnedDInv
<1>7. CASE rx_queue[n] # <<>>
  <2>1. /\ Has(rx_queue[n], h.id)
        /\ \A j : Has(Tail(rx_queue[n]), j) => Has(rx_queue[n], j)
        /\ Distinct(Tail(rx_queue[n])) /\ ~Has(Tail(rx_queue[n]), h.id)
    BY <1>1, <1>5, <1>7, TailDistinct
  <2>2. nack.id = h.id
    BY DEF NACKFor, Packet
  <2>3. net' \subseteq net \cup sent \cup {nack}
    BY <1>7 DEF ReleaseAtReceiver, Promoted, Out
  <2>4. h.id \in Id
    BY <1>1, <1>7, HeadTailProperties, ItemFields
  <2> HIDE DEF h, nack
  <2>5. <<"queue", n>> \in Driven(h.id)
    BY <2>1, DrivenIs
  <2>6. rx_queue'[n] = Tail(rx_queue[n])
    BY <1>3, <1>7
  <2>7. <<"queue", n>> \notin DrivenNext(h.id)
    BY <2>1, <2>6, DrivenIsNext
  <2>8. h.id # id
    <3>1. <<"queue", n>> # <<"event", e>>
      OBVIOUS
    <3> QED
      BY <1>4, <2>5, <3>1 DEF DInv, AtMostOne
  <2>9. ASSUME NEW j \in Id, NEW d \in DrivenNext(j) \ Driven(j)
        PROVE  (j = id /\ d = <<"net", packet>>) \/ (j = h.id /\ d = <<"net", nack>>)
    <3>1. CASE \E m \in net' : m.id = j /\ m.type # "AWK" /\ d = <<"net", m>>
      BY <2>2, <2>3, <2>9, <3>1, DrivenIs
    <3>2. CASE \E f \in events' : f.id = j /\ IsDriver(f) /\ d = <<"event", f>>
      BY <2>9, <3>2, DrivenIs
    <3>3. CASE \E r \in Node : Has(rx_queue'[r], j) /\ d = <<"queue", r>>
      BY <1>2, <2>1, <2>6, <2>9, <3>3, DrivenIs
    <3> QED
      BY <2>9, <3>1, <3>2, <3>3, DrivenIsNext
  <2>10. \A j \in Id : Turned(j)
    BY <1>4, <2>5, <2>7, <2>8, <2>9 DEF Turned
  <2>11. \A r \in Node : Distinct(rx_queue'[r])
    BY <1>2, <2>1, <2>6 DEF DInv
  <2> QED
    BY <2>10, <2>11, TurnedDInv DEF Distinct
<1> QED
  BY <1>6, <1>7

LEMMA ReleaseQubitDInv ==
  ASSUME DInv, IInv', NEW n \in Node, NEW id, ReleaseQubit(n, id)
  PROVE  DInv'
<1>1. PICK e \in events :
        /\ e.fn = "ReleaseQubit" /\ e.node = n /\ e.id = id
        /\ events' = events \ {e}
        /\ \/ e.sender /\ ReleaseAtSender(n, id)
           \/ /\ ~e.sender
              /\ ReleaseAtReceiver(n, id, {})
              /\ UNCHANGED <<sock, msg_count, tx_queue, tx_qubits, storage, failed>>
           \/ UNCHANGED <<sock, msg_count, held, data, net>>
  BY DEF ReleaseQubit
<1>2. CASE ReleaseAtSender(n, id)
  BY <1>1, <1>2, ReleaseAtSenderDInv
<1>3. CASE /\ ~e.sender
           /\ ReleaseAtReceiver(n, id, {})
           /\ UNCHANGED <<sock, msg_count, tx_queue, tx_qubits, storage, failed>>
  <2>1. id \in Id
    BY <1>1 DEF DInv, IInv, RestOK, Event
  <2>2. PICK packet : packet = [id |-> id]
    OBVIOUS
  <2> QED
    BY <1>1, <1>3, <2>1, <2>2, ReleaseAtReceiverDInv DEF IsDriver
<1>4. CASE UNCHANGED <<sock, msg_count, held, data, net>>
  BY <1>1, <1>4, FewerDInv DEF held
<1> QED
  BY <1>1, <1>2, <1>3, <1>4

LEMMA SendClassicalDInv ==
  ASSUME DInv, IInv', NEW n \in Node, NEW id, SendClassical(n, id)
  PROVE  DInv'
<1> DEFINE item == rx_qubits[n][Slot(rx_qubits[n], id)]
           packet == Packet("Classical", n, item.peer, id, item.protocol, TRUE,
                            item.protocol = "teledata")
<1>1. PICK e \in events :
        /\ e.fn = "SendClassical" /\ e.node = n /\ e.id = id
        /\ events' = events \ {e}
  BY DEF SendClassical
<1>2. \/ UNCHANGED <<sock, msg_count, held, data, net>>
      \/ /\ ReleaseAtReceiver(n, id, {packet})
         /\ UNCHANGED <<msg_count, tx_queue>>
      \/ /\ net' = net \cup Out(n, {packet})
         /\ UNCHANGED <<msg_count, tx_queue, rx_queue>>
  BY DEF SendClassical
<1>3. packet.id = id
  BY DEF Packet
<1> HIDE DEF packet
<1>4. id \in Id /\ IsDriver(e)
  BY <1>1 DEF DInv, IInv, RestOK, Event, IsDriver
<1>5. CASE UNCHANGED <<sock, msg_count, held, data, net>>
  BY <1>1, <1>5, FewerDInv DEF held
<1>6. CASE ReleaseAtReceiver(n, id, {packet}) /\ UNCHANGED <<msg_count, tx_queue>>
  BY <1>1, <1>3, <1>4, <1>6, ReleaseAtReceiverDInv
<1>7. CASE /\ net' = net \cup Out(n, {packet})
           /\ UNCHANGED <<msg_count, tx_queue, rx_queue>>
  <2>1. <<"event", e>> \in Driven(id) /\ <<"event", e>> \notin DrivenNext(id)
    BY <1>1, <1>4, EventTaken
  <2>2. net' \subseteq net \cup {packet}
    BY <1>7 DEF Out
  <2>3. \A j \in Id : Turned(j)
    BY <1>1, <1>3, <1>4, <1>7, <2>1, <2>2, OneForPacket
  <2>4. \A r \in Node : Distinct(rx_queue[r])'
    BY <1>7 DEF DInv, Distinct
  <2> QED
    BY <1>7, <2>3, <2>4, TurnedDInv
<1> QED
  BY <1>2, <1>5, <1>6, <1>7

LEMMA LocalGateDInv ==
  ASSUME DInv, IInv', NEW n \in Node, NEW id, LocalGate(n, id)
  PROVE  DInv'
<1> DEFINE item == tx_qubits[n][Slot(tx_qubits[n], id)]
           packet == Packet("Classical", n, item.peer, id, item.protocol, FALSE, TRUE)
           release == [fn |-> "ReleaseQubit", node |-> n, id |-> id, sender |-> TRUE]
<1>1. PICK e \in events :
        /\ e.fn = "LocalGate" /\ e.node = n /\ e.id = id
        /\ \/ /\ events' = (events \ {e}) \cup {release}
              /\ net' = net \cup Out(n, {packet}) \/ UNCHANGED net
              /\ UNCHANGED <<msg_count, tx_queue, rx_queue>>
           \/ Abort("SendClassical")
  BY DEF LocalGate
<1>2. CASE Abort("SendClassical")
  BY <1>2, FewerDInv DEF Abort, held
<1>3. ASSUME /\ events' = (events \ {e}) \cup {release}
             /\ net' = net \cup Out(n, {packet}) \/ UNCHANGED net
             /\ UNCHANGED <<msg_count, tx_queue, rx_queue>>
      PROVE  DInv'
  <2>1. packet.id = id
    BY DEF Packet
  <2>2. ~IsDriver(release) /\ release.fn # "LocalGate"
    BY DEF IsDriver
  <2> HIDE DEF packet, release
  <2>3. id \in Id /\ IsDriver(e)
    BY <1>1 DEF DInv, IInv, RestOK, Event, IsDriver
  <2>4. <<"event", e>> \in Driven(id) /\ <<"event", e>> \notin DrivenNext(id)
    BY <1>1, <1>3, <2>2, <2>3, EventTaken
  <2>5. net' \subseteq net \cup {packet}
    BY <1>3 DEF Out
  <2>6. \A j \in Id : Turned(j)
    BY <1>3, <2>1, <2>2, <2>3, <2>4, <2>5, OneForPacket
  <2>7. \A r \in Node : Distinct(rx_queue[r])'
    BY <1>3 DEF DInv, Distinct
  <2> QED
    BY <1>3, <2>6, <2>7, TurnedDInv
<1> QED
  BY <1>1, <1>2, <1>3

-----------------------------------------------------------------------------
LEMMA InitDInv == Init => DInv
<1> SUFFICES ASSUME Init PROVE DInv
  OBVIOUS
<1>1. \A id \in Id : Driven(id) = {}
  BY DrivenIs DEF Init, Has
<1>2. \A n \in Node : Distinct(rx_queue[n]) /\ Distinct(tx_queue[n]) /\ DOMAIN tx_queue[n] = {}
  BY DEF Init, Distinct
<1> QED
  BY <1>1, <1>2, InitIInv DEF DInv, AtMostOne, WaitingUnheard

LEMMA StepDInv == DInv /\ [Next]_vars => DInv'
<1> SUFFICES ASSUME DInv, [Next]_vars PROVE DInv'
  OBVIOUS
<1>0. IInv'
  BY StepIInv DEF DInv
<1>1. ASSUME NEW n \in Node, StartApplication(n) \/ Run(n)
      PROVE  DInv'
  BY <1>0, <1>1, RunBodyDInv DEF StartApplication, Run
<1>2. CASE Lose \/ (\E n \in Node : StopApplication(n)) \/ UNCHANGED vars
  BY <1>0, <1>2, FewerDInv DEF Lose, StopApplication, vars, held
<1>3. ASSUME NEW n \in Node, NEW id, QubitSpoiled(n, id) \/ ClassicalSpoiled(n, id)
      PROVE  DInv'
  BY <1>0, <1>3, SendNACKDInv DEF QubitSpoiled, ClassicalSpoiled, Arrives
<1>4. ASSUME NEW n \in Node, NEW id, ReceiveQubit(n, id)
      PROVE  DInv'
  BY <1>0, <1>4, ReceiveQubitDInv
<1>5. ASSUME NEW n \in Node, NEW id, ReceiveClassical(n, id)
      PROVE  DInv'
  BY <1>0, <1>5, ReceiveClassicalDInv
<1>6. ASSUME NEW n \in Node, NEW id, ReceiveNACK(n, id)
      PROVE  DInv'
  BY <1>0, <1>6, ReceiveNACKDInv
<1>7. ASSUME NEW n \in Node, NEW id, ReceiveAWK(n, id)
      PROVE  DInv'
  BY <1>0, <1>7, FewerDInv DEF ReceiveAWK
<1>8. ASSUME NEW n \in Node, NEW id, SendClassical(n, id)
      PROVE  DInv'
  BY <1>0, <1>8, SendClassicalDInv
<1>9. ASSUME NEW n \in Node, NEW id, LocalGate(n, id)
      PROVE  DInv'
  BY <1>0, <1>9, LocalGateDInv
<1>10. ASSUME NEW n \in Node, NEW id, ReleaseQubit(n, id)
      PROVE  DInv'
  BY <1>0, <1>10, ReleaseQubitDInv
<1> QED
  BY <1>1, <1>2, <1>3, <1>4, <1>5, <1>6, <1>7, <1>8, <1>9, <1>10 DEF Next

\* The drivers of every operation stay within one, and what waits in m_tx_queue
\* stays unheard of, whatever is spoiled, lost or stopped.
THEOREM DriversInvariant == Spec => []DInv
BY InitDInv, StepDInv, PTL DEF Spec

LEMMA AtMostOneCardinality ==
  ASSUME NEW S, AtMostOne(S)
  PROVE  Cardinality(S) <= 1
<1>1. CASE S = {}
  BY <1>1, FS_EmptySet
<1>2. CASE S # {}
  <2>1. PICK x : S = {x}
    BY <1>2 DEF AtMostOne
  <2>2. Cardinality(S) = 1
    BY <2>1, FS_Singleton
  <2> QED
    BY <2>2
<1> QED
  BY <1>1, <1>2

\* No operation is ever driven twice: no packet of it is in flight while an
\* event, a NACK or a place in m_rx_queue is pending for it (every handler of
\* the application, for any number of qubits and any faults).
THEOREM SingleDriverHolds == Spec => []SingleDriver
<1>1. DInv => SingleDriver
  <2> SUFFICES ASSUME DInv, NEW id \in Known
               PROVE  Cardinality(Drivers(id)) <= 1
    BY DEF SingleDriver
  <2>1. id \in Id
    BY DEF Known, DInv, IInv, RestOK
  <2>2. \A d \in Drivers(id) : \E kind : <<kind, d>> \in Driven(id)
    BY DEF Drivers, Driven, DrivenIn, IsDriver
  <2>3. ASSUME NEW d \in Drivers(id), NEW e \in Drivers(id)
        PROVE  d = e
    <3>1. PICK kd, ke : <<kd, d>> \in Driven(id) /\ <<ke, e>> \in Driven(id)
      BY <2>2
    <3>2. <<kd, d>> = <<ke, e>>
      BY <2>1, <3>1 DEF DInv, AtMostOne
    <3> QED
      BY <3>2
  <2>4. AtMostOne(Drivers(id))
    BY <2>3 DEF AtMostOne
  <2> QED
    BY <2>4, AtMostOneCardinality
<1> QED
  BY <1>1, DriversInvariant, PTL

-----------------------------------------------------------------------------
(***************************************************************************)
(* Proofs about the two ends of an operation.  The driver of an operation  *)
(* (a packet, an event or a place in m_rx_queue) says what its sender and  *)
(* its receiver must have written down: a qubit that is under way is still *)
(* held by its sender, which has no result yet; a result of the receiver   *)
(* finds the sender waiting, and the receiver keeps a copy; a result of    *)
(* the sender finds the receiver's item.  OInv states this for every id,   *)
(* and every handler leaves it true, for the operation it runs for and for *)
(* all the others whose items move in the lists.                           *)
(*                                                                         *)
(* What a receiver has written down lasts only while no item of its list   *)
(* is overwritten (see ReleasedRx): those parts of OInv, and with them the *)
(* assertions, are stated for one qubit in each direction.  The rest holds *)
(* for any number of qubits.                                               *)
(*                                                                         *)
(* LiveInv goes the other way: what the two ends hold says that something  *)
(* is still under way for the operation.  CleanInv says it of the places   *)
(* in a queue, of the keys of m_data and of the stored results.            *)
(***************************************************************************)
\* The simulations skip the node itself when they add peers.
NoOwnPeer == \A n \in Node : \A i \in DOMAIN Peers[n] : Peers[n][i] # n

\* With one qubit for each direction (the default of the attribute NumQubits)
\* no record is overwritten: only then do the records of a receiver last.
OneQubit == NumQubits <= 1

(***************************************************************************)
(* What the lists hold of operation id.  Its sender is id[1].              *)
(***************************************************************************)
At(seq, id) == {seq[i] : i \in Matches(seq, id)}

Tx(id) == At(tx_qubits[id[1]], id)
Rx(r, id) == At(rx_qubits[r], id)
Queued(r, id) == At(rx_queue[r], id)
Kept(r, id) == At(storage[r], id)
Msgs(id) == {m \in net : m.id = id}
Evs(id) == {e \in events : e.id = id}

\* The sender has its qubit and has not run its local gate, nor received the
\* result of a teledata.
Open(id) ==
  /\ Tx(id) # {} /\ Kept(id[1], id) = {}
  /\ \A e \in Evs(id) : IsDriver(e)

Idle(id) == \A t \in Tx(id) : t.operating = FALSE

Holding(id) == Open(id) /\ Idle(id)

\* What the sender has written down of the operation, if it still has it.
Agreed(id, protocol, r) ==
  \A t \in Tx(id) : t.protocol = protocol /\ Peers[id[1]][t.peer] = r

NoRx(id) == \A r \in Node : Rx(r, id) = {}

QubitOK(id, m) ==
  /\ m.src = id[1] /\ m.dst # id[1]
  /\ Holding(id) /\ Agreed(id, m.protocol, m.dst)
  /\ OneQubit => NoRx(id)

\* A NACK at the sender asks for the qubit, or for the stored result.
AskOK(id) ==
  /\ Kept(id[1], id) = {} => Holding(id) /\ (OneQubit => NoRx(id))
  /\ Idle(id)
  /\ OneQubit => \A s \in Kept(id[1], id) : Rx(Peers[id[1]][s.peer], id) # {}

\* Receiver r has measured its qubit and waits for the sender.
MeasuredOK(id, r, protocol) ==
  /\ r # id[1] /\ Holding(id) /\ Agreed(id, protocol, r)
  /\ Kept(r, id) # {}
  /\ OneQubit => IF protocol = "telegate" THEN Rx(r, id) # {} ELSE NoRx(id)

\* The result of the sender is on its way to the receiver.
ResultOK(id, m) ==
  /\ m.src = id[1] /\ m.protocol = "telegate" /\ m.z = TRUE
  /\ Kept(id[1], id) # {} /\ \A s \in Kept(id[1], id) : Peers[id[1]][s.peer] = m.dst
  /\ Idle(id)
  /\ OneQubit => Rx(m.dst, id) # {}

AwkOK(id, m) ==
  /\ Msgs(id) = {m}
  /\ \A e \in Evs(id) : e.fn = "ReleaseQubit"
  /\ \A r \in Node : Queued(r, id) = {}
  /\ m.protocol = "telegate" => m.dst = id[1] /\ Kept(id[1], id) # {}

MessageOK(id, m) ==
  /\ m.type = "Qubit" => QubitOK(id, m)
  /\ m.type = "NACK" /\ m.dst = id[1] => AskOK(id)
  /\ m.type = "NACK" /\ m.dst # id[1] => \E p \in Protocols : MeasuredOK(id, m.dst, p)
  /\ m.type = "Classical" /\ m.dst = id[1] =>
       /\ MeasuredOK(id, m.src, m.protocol)
       /\ m.x = TRUE /\ m.z = (m.protocol = "teledata")
  /\ m.type = "Classical" /\ m.dst # id[1] => ResultOK(id, m)
  /\ m.type = "AWK" => AwkOK(id, m)

EventOK(id, e) ==
  /\ e.fn = "SendClassical" =>
       /\ e.node # id[1] /\ Holding(id)
       /\ \A t \in Tx(id) : Peers[id[1]][t.peer] = e.node
       /\ OneQubit => Rx(e.node, id) # {}
  /\ e.fn = "LocalGate" =>
       /\ e.node = id[1] /\ Open(id)
       /\ \A t \in Tx(id) :
            /\ t.protocol = "telegate" /\ t.x = TRUE /\ t.operating = TRUE
            /\ OneQubit => Rx(Peers[id[1]][t.peer], id) # {}
  /\ ~IsDriver(e) => e.node = id[1] /\ Tx(id) # {} /\ Idle(id)
  /\ e.fn = "ReleaseQubit" /\ IsDriver(e) =>
       e.node # id[1] /\ (OneQubit => Rx(e.node, id) # {})

\* A record at receiver r was made from what the sender sent.
RecordOK(id, r, it) ==
  /\ r # id[1] /\ Peers[r][it.peer] = id[1]
  /\ \A t \in Tx(id) : t.protocol = it.protocol

QueuedOK(id, r, it) ==
  /\ RecordOK(id, r, it)
  /\ Holding(id) /\ Agreed(id, it.protocol, r)
  /\ OneQubit => NoRx(id)

KeptOK(id, r, s) ==
  /\ r = id[1] => s.protocol = "telegate" /\ s.x = FALSE /\ s.z = TRUE
  /\ r # id[1] => RecordOK(id, r, s) /\ s.x = TRUE /\ s.z = (s.protocol = "teledata")

\* Nobody but its own node knows the operation.
Untouched(id) ==
  /\ Tx(id) = {} /\ Msgs(id) = {} /\ Evs(id) = {}
  /\ \A r \in Node : Rx(r, id) = {} /\ Queued(r, id) = {} /\ Kept(r, id) = {}

Unsent(id) == id[2] >= msg_count[id[1]] \/ Has(tx_queue[id[1]], id)

DrivenOK(id) ==
  /\ \A m \in Msgs(id) : MessageOK(id, m)
  /\ \A e \in Evs(id) : EventOK(id, e)
  /\ \A r \in Node : \A it \in Queued(r, id) : QueuedOK(id, r, it)

PlacesOK(id) ==
  /\ \A r \in Node : /\ \A it \in Rx(r, id) : RecordOK(id, r, it)
                     /\ \A s \in Kept(r, id) : KeptOK(id, r, s)
  /\ AtMostOne(Kept(id[1], id))
  /\ OneQubit => \A r, q \in Node : Rx(r, id) # {} /\ Rx(q, id) # {} => r = q

KeysOK(id) ==
  /\ Tx(id) # {} => id \in data[id[1]]
  /\ OneQubit => \A r \in Node : Rx(r, id) # {} \/ Queued(r, id) # {} => id \in data[r]
  /\ Unsent(id) => Untouched(id)

OpOK(id) == DrivenOK(id) /\ PlacesOK(id) /\ KeysOK(id)

\* The lists of the sender.
SenderOK(n) ==
  /\ Distinct(tx_qubits[n])
  /\ \A i \in DOMAIN tx_qubits[n] : tx_qubits[n][i].id[1] = n
  /\ \A i \in DOMAIN tx_queue[n] : /\ tx_queue[n][i].id \in data[n]
                                   /\ tx_queue[n][i].operating = FALSE

OInv ==
  /\ DInv
  /\ \A n \in Node : SenderOK(n)
  /\ \A id \in Id : OpOK(id)
  /\ OneQubit => failed = "none"

-----------------------------------------------------------------------------
(***************************************************************************)
(* The items of one operation in a list.                                   *)
(***************************************************************************)
LEMMA AtIs ==
  ASSUME NEW seq, NEW id
  PROVE  /\ \A it : it \in At(seq, id) <=> \E i \in DOMAIN seq : seq[i].id = id /\ seq[i] = it
         /\ \A it \in At(seq, id) : it.id = id
         /\ Has(seq, id) <=> At(seq, id) # {}
BY DEF At, Matches, Has

LEMMA AtType ==
  ASSUME NEW S, NEW seq \in Seq(S), NEW id
  PROVE  At(seq, id) \subseteq S
<1>1. \A i \in DOMAIN seq : seq[i] \in S
  BY DomainOfSeq, ElementOfSeq
<1> QED
  BY <1>1, AtIs

LEMMA SlotAt ==
  ASSUME NEW S, NEW seq \in Seq(S), NEW id, Has(seq, id)
  PROVE  /\ Slot(seq, id) \in 1..Len(seq) /\ seq[Slot(seq, id)] \in At(seq, id)
         /\ seq[Slot(seq, id)].id = id /\ seq[Slot(seq, id)] \in S
         /\ seq[LastSlot(seq, id)] \in At(seq, id)
<1>1. Slot(seq, id) \in 1..Len(seq) /\ seq[Slot(seq, id)].id = id
  BY SlotFound
<1>2. LastSlot(seq, id) \in 1..Len(seq) /\ seq[LastSlot(seq, id)].id = id
  BY LastSlotFound
<1> QED
  BY <1>1, <1>2, AtIs, DomainOfSeq, ElementOfSeq

LEMMA DistinctAt ==
  ASSUME NEW seq, NEW id, Distinct(seq)
  PROVE  \A it, jt \in At(seq, id) : it = jt
BY AtIs DEF Distinct

LEMMA AtAppend ==
  ASSUME NEW S, NEW seq \in Seq(S), NEW it \in S, NEW id
  PROVE  At(Append(seq, it), id) = IF it.id = id THEN At(seq, id) \cup {it} ELSE At(seq, id)
<1> DEFINE new == Append(seq, it)
<1>1. /\ DOMAIN new = 1..(Len(seq) + 1) /\ DOMAIN seq = 1..Len(seq) /\ Len(seq) \in Nat
      /\ \A i \in 1..Len(seq) : new[i] = seq[i]
      /\ new[Len(seq) + 1] = it
  <2>1. new \in Seq(S) /\ Len(new) = Len(seq) + 1
    BY AppendProperties
  <2>2. \A i \in 1..Len(seq) : new[i] = seq[i]
    BY AppendProperties
  <2>3. new[Len(seq) + 1] = it
    BY AppendProperties
  <2> QED
    BY <2>1, <2>2, <2>3, DomainOfSeq
<1> HIDE DEF new
<1>2. \A i \in 1..(Len(seq) + 1) : i \in 1..Len(seq) \/ i = Len(seq) + 1
  BY <1>1
<1>3. 1..Len(seq) \subseteq 1..(Len(seq) + 1) /\ Len(seq) + 1 \in 1..(Len(seq) + 1)
  BY <1>1
<1>4. \A jt : jt \in At(new, id) <=> jt \in At(seq, id) \/ (jt = it /\ it.id = id)
  <2> SUFFICES ASSUME NEW jt
               PROVE  jt \in At(new, id) <=> jt \in At(seq, id) \/ (jt = it /\ it.id = id)
    OBVIOUS
  <2>1. ASSUME jt \in At(new, id)
        PROVE  jt \in At(seq, id) \/ (jt = it /\ it.id = id)
    <3>1. PICK i \in DOMAIN new : new[i].id = id /\ new[i] = jt
      BY <2>1, AtIs
    <3>2. CASE i \in 1..Len(seq)
      BY <1>1, <3>1, <3>2, AtIs
    <3>3. CASE i = Len(seq) + 1
      BY <1>1, <3>1, <3>3
    <3> QED
      BY <1>1, <1>2, <3>1, <3>2, <3>3
  <2>2. ASSUME jt \in At(seq, id)
        PROVE  jt \in At(new, id)
    <3>1. PICK i \in DOMAIN seq : seq[i].id = id /\ seq[i] = jt
      BY <2>2, AtIs
    <3>2. i \in DOMAIN new /\ new[i].id = id /\ new[i] = jt
      BY <1>1, <1>3, <3>1
    <3> QED
      BY <3>2, AtIs
  <2>3. ASSUME jt = it, it.id = id
        PROVE  jt \in At(new, id)
    <3>1. Len(seq) + 1 \in DOMAIN new /\ new[Len(seq) + 1].id = id /\ new[Len(seq) + 1] = jt
      BY <1>1, <1>3, <2>3
    <3> QED
      BY <3>1, AtIs
  <2> QED
    BY <2>1, <2>2, <2>3
<1> QED
  BY <1>4 DEF new

LEMMA AtRemove ==
  ASSUME NEW S, NEW seq \in Seq(S), NEW k \in 1..Len(seq), NEW id
  PROVE  /\ At(RemoveAt(seq, k), id) \subseteq At(seq, id)
         /\ seq[k].id # id => At(RemoveAt(seq, k), id) = At(seq, id)
         /\ Distinct(seq) => Distinct(RemoveAt(seq, k))
         /\ Distinct(seq) /\ seq[k].id = id => At(RemoveAt(seq, k), id) = {}
<1> DEFINE new == RemoveAt(seq, k)
           from(i) == IF i < k THEN i ELSE i + 1
<1>1. /\ new \in Seq(S) /\ Len(new) = Len(seq) - 1
      /\ \A i \in 1..(Len(seq) - 1) : new[i] = IF i < k THEN seq[i] ELSE seq[i + 1]
  BY RemoveAtElements
<1>2. DOMAIN seq = 1..Len(seq) /\ Len(seq) \in Nat /\ DOMAIN new = 1..(Len(seq) - 1)
  BY <1>1, DomainOfSeq
<1>3. \A i \in DOMAIN new : from(i) \in DOMAIN seq /\ from(i) # k /\ new[i] = seq[from(i)]
  BY <1>1, <1>2
<1>4. \A i, j \in DOMAIN new : from(i) = from(j) => i = j
  BY <1>2
<1>5. ASSUME NEW l \in DOMAIN seq, l # k
      PROVE  \E i \in DOMAIN new : from(i) = l
  <2>1. CASE l < k
    BY <1>2, <2>1
  <2>2. CASE l > k
    <3>1. l - 1 \in DOMAIN new /\ from(l - 1) = l
      BY <1>2, <2>2
    <3> QED
      BY <3>1
  <2> QED
    BY <1>2, <1>5, <2>1, <2>2
<1> HIDE DEF new, from
<1>6. ASSUME NEW it \in At(new, id)
      PROVE  it \in At(seq, id)
  <2>1. PICK i \in DOMAIN new : new[i].id = id /\ new[i] = it
    BY AtIs
  <2> QED
    BY <1>3, <2>1, AtIs
<1>7. ASSUME seq[k].id # id, NEW it \in At(seq, id)
      PROVE  it \in At(new, id)
  <2>1. PICK l \in DOMAIN seq : seq[l].id = id /\ seq[l] = it
    BY AtIs
  <2>2. PICK i \in DOMAIN new : from(i) = l
    BY <1>5, <1>7, <2>1
  <2> QED
    BY <1>3, <2>1, <2>2, AtIs
<1>8. ASSUME Distinct(seq)
      PROVE  Distinct(new)
  <2>1. ASSUME NEW i \in DOMAIN new, NEW j \in DOMAIN new, new[i].id = new[j].id
        PROVE  i = j
    <3>1. from(i) = from(j)
      BY <1>3, <1>8, <2>1 DEF Distinct
    <3> QED
      BY <1>4, <3>1
  <2> QED
    BY <2>1 DEF Distinct
<1>9. ASSUME Distinct(seq), seq[k].id = id, NEW it \in At(new, id)
      PROVE  FALSE
  <2>1. PICK i \in DOMAIN new : new[i].id = id /\ new[i] = it
    BY <1>9, AtIs
  <2>2. from(i) = k
    BY <1>2, <1>3, <1>9, <2>1 DEF Distinct
  <2> QED
    BY <1>3, <2>2
<1> QED
  BY <1>6, <1>7, <1>8, <1>9 DEF new

LEMMA AtExcept ==
  ASSUME NEW S, NEW seq \in Seq(S), NEW k \in 1..Len(seq), NEW new, NEW id
  PROVE  LET list == [seq EXCEPT ![k] = new]
         IN /\ \A it \in At(list, id) : it \in At(seq, id) \/ (it = new /\ new.id = id)
            /\ new.id = id => new \in At(list, id)
            /\ seq[k].id # id /\ new.id # id => At(list, id) = At(seq, id)
            /\ Distinct(seq) /\ new.id = seq[k].id =>
                 Distinct(list) /\ (new.id = id => At(list, id) = {new})
<1> DEFINE list == [seq EXCEPT ![k] = new]
<1>1. DOMAIN seq = 1..Len(seq) /\ DOMAIN list = 1..Len(seq)
  BY DomainOfSeq
<1>2. list[k] = new /\ \A i \in DOMAIN list : i # k => list[i] = seq[i]
  BY <1>1
<1> HIDE DEF list
<1>3. \A it \in At(list, id) : it \in At(seq, id) \/ (it = new /\ new.id = id)
  BY <1>1, <1>2, AtIs
<1>4. new.id = id => new \in At(list, id)
  BY <1>1, <1>2, AtIs
<1>5. ASSUME seq[k].id # id, new.id # id
      PROVE  At(list, id) = At(seq, id)
  <2>1. ASSUME NEW it \in At(seq, id)
        PROVE  it \in At(list, id)
    <3>1. PICK i \in DOMAIN seq : seq[i].id = id /\ seq[i] = it
      BY AtIs
    <3> QED
      BY <1>1, <1>2, <1>5, <3>1, AtIs
  <2> QED
    BY <1>3, <1>5, <2>1
<1>6. ASSUME Distinct(seq), new.id = seq[k].id
      PROVE  Distinct(list) /\ (new.id = id => At(list, id) = {new})
  <2>1. \A i \in DOMAIN seq : list[i].id = seq[i].id
    BY <1>1, <1>2, <1>6
  <2>2. Distinct(list)
    BY <1>1, <1>6, <2>1 DEF Distinct
  <2>3. new.id = id => At(list, id) = {new}
    BY <1>4, <2>2, DistinctAt
  <2> QED
    BY <2>2, <2>3
<1> QED
  BY <1>3, <1>4, <1>5, <1>6 DEF list

LEMMA ExceptOther ==
  ASSUME NEW S, NEW seq \in Seq(S), NEW k \in 1..Len(seq), NEW new, NEW id,
         seq[k].id # id, new.id # id
  PROVE  At([seq EXCEPT ![k] = new], id) = At(seq, id)
BY AtExcept

LEMMA ExceptOwn ==
  ASSUME NEW S, NEW seq \in Seq(S), NEW k \in 1..Len(seq), NEW new, NEW id,
         seq[k].id = id, new.id = id
  PROVE  new \in At([seq EXCEPT ![k] = new], id)
BY AtExcept

LEMMA ExceptOnly ==
  ASSUME NEW S, NEW seq \in Seq(S), NEW k \in 1..Len(seq), NEW new, NEW id,
         seq[k].id = id, new.id = id, Distinct(seq),
         NEW it \in At([seq EXCEPT ![k] = new], id)
  PROVE  it = new
BY AtExcept

LEMMA InExcept ==
  ASSUME NEW S, NEW seq \in Seq(S), NEW k \in 1..Len(seq), NEW new, NEW id,
         NEW it \in At([seq EXCEPT ![k] = new], id)
  PROVE  it \in At(seq, id) \/ it = new
BY AtExcept

LEMMA AtTail ==
  ASSUME NEW S, NEW seq \in Seq(S), seq # <<>>, Distinct(seq)
  PROVE  /\ Head(seq) \in S /\ At(seq, Head(seq).id) = {Head(seq)}
         /\ At(Tail(seq), Head(seq).id) = {}
         /\ \A id : id # Head(seq).id => At(Tail(seq), id) = At(seq, id)
<1>1. Len(seq) \in Nat \ {0} /\ DOMAIN seq = 1..Len(seq) /\ seq[1] = Head(seq)
  BY EmptySeq, HeadTailProperties, DomainOfSeq
<1>2. 1 \in 1..Len(seq)
  BY <1>1
<1>3. seq[1] \in S
  BY <1>2, ElementOfSeq
<1>4. Tail(seq) = RemoveAt(seq, 1)
  <2>1. /\ Tail(seq) \in Seq(S) /\ Len(Tail(seq)) = Len(seq) - 1
        /\ \A i \in 1..Len(Tail(seq)) : Tail(seq)[i] = seq[i + 1]
    BY HeadTailProperties
  <2>2. PICK k \in 1..Len(seq) : k = 1
    BY <1>2
  <2>3. /\ RemoveAt(seq, k) \in Seq(S) /\ Len(RemoveAt(seq, k)) = Len(seq) - 1
        /\ \A i \in 1..(Len(seq) - 1) : RemoveAt(seq, k)[i] = IF i < k THEN seq[i] ELSE seq[i + 1]
    BY RemoveAtElements
  <2>4. \A i \in 1..(Len(seq) - 1) : RemoveAt(seq, k)[i] = Tail(seq)[i]
    BY <1>1, <2>1, <2>2, <2>3
  <2> QED
    BY <2>1, <2>2, <2>3, <2>4, SeqEqual
<1>5. At(seq, Head(seq).id) = {Head(seq)}
  <2>1. PICK h : h = Head(seq).id
    OBVIOUS
  <2>2. Head(seq) \in At(seq, h)
    BY <1>1, <1>2, <2>1, AtIs
  <2>3. \A it, jt \in At(seq, h) : it = jt
    BY DistinctAt
  <2> QED
    BY <2>1, <2>2, <2>3
<1>6. PICK k \in 1..Len(seq) : k = 1
  BY <1>2
<1>7. \A id : /\ seq[k].id # id => At(RemoveAt(seq, k), id) = At(seq, id)
              /\ seq[k].id = id => At(RemoveAt(seq, k), id) = {}
  BY AtRemove
<1> QED
  BY <1>1, <1>3, <1>4, <1>5, <1>6, <1>7

\* The operations that Send moves from queue to the end of base.
Moved(list, base, queue, k) == list = base \o FirstOf(queue, k)

MovedOK(list, base, queue, k) ==
  /\ Distinct(list)
  /\ \A id : (\A i \in 1..k : queue[i].id # id) => At(list, id) = At(base, id)
  /\ \A i \in 1..k : At(list, queue[i].id) = {queue[i]}
  /\ \A l \in DOMAIN list : \/ \E i \in DOMAIN base : list[l] = base[i]
                            \/ \E i \in 1..k : list[l] = queue[i]

LEMMA AtMoved ==
  ASSUME NEW S, NEW base \in Seq(S), NEW queue \in Seq(S), NEW k \in 0..Len(queue),
         NEW list, Moved(list, base, queue, k),
         Distinct(base), Distinct(queue), \A i \in 1..k : At(base, queue[i].id) = {}
  PROVE  MovedOK(list, base, queue, k)
<1> DEFINE b == Len(base)
<1>1. b \in Nat /\ DOMAIN base = 1..b /\ Len(queue) \in Nat /\ DOMAIN queue = 1..Len(queue)
  BY DomainOfSeq
<1>2. /\ FirstOf(queue, k) \in Seq(S) /\ Len(FirstOf(queue, k)) = k
      /\ \A i \in 1..k : FirstOf(queue, k)[i] = queue[i]
  BY SplitAt
<1>3. /\ DOMAIN list = 1..(b + k)
      /\ \A l \in 1..(b + k) : list[l] = IF l <= b THEN base[l] ELSE FirstOf(queue, k)[l - b]
  <2>1. PICK q \in Seq(S) : q = FirstOf(queue, k)
    BY <1>2
  <2>2. /\ base \o q \in Seq(S) /\ Len(base \o q) = b + Len(q)
        /\ \A l \in 1..(b + Len(q)) : (base \o q)[l] = IF l <= b THEN base[l] ELSE q[l - b]
    BY ConcatProperties
  <2> QED
    BY <1>2, <2>1, <2>2, DomainOfSeq DEF Moved
<1>4. \A l \in 1..(b + k) : \/ l \in 1..b /\ list[l] = base[l]
                            \/ l - b \in 1..k /\ list[l] = queue[l - b]
  BY <1>1, <1>2, <1>3
<1>5. \A l \in 1..b : l \in 1..(b + k) /\ list[l] = base[l]
  BY <1>1, <1>3
<1>6. \A i \in 1..k : b + i \in 1..(b + k) /\ list[b + i] = queue[i] /\ i \in 1..Len(queue)
  <2> SUFFICES ASSUME NEW i \in 1..k
               PROVE  b + i \in 1..(b + k) /\ list[b + i] = queue[i] /\ i \in 1..Len(queue)
    OBVIOUS
  <2>1. b + i \in 1..(b + k) /\ ~(b + i <= b) /\ b + i - b = i /\ i \in 1..Len(queue)
    BY <1>1
  <2> QED
    <3>1. list[b + i] = IF b + i <= b THEN base[b + i] ELSE FirstOf(queue, k)[b + i - b]
      BY <1>3, <2>1
    <3>2. list[b + i] = FirstOf(queue, k)[i]
      BY <2>1, <3>1
    <3> QED
      BY <1>2, <2>1, <3>2
<1> HIDE DEF b
<1>7. ASSUME NEW l \in 1..b, NEW i \in 1..k
      PROVE  base[l].id # queue[i].id
  <2>1. PICK h : h = queue[i].id
    OBVIOUS
  <2>2. base[l].id = h => base[l] \in At(base, h)
    BY <1>1, AtIs
  <2> QED
    BY <2>1, <2>2
<1>8. Distinct(list)
  <2> SUFFICES ASSUME NEW l \in 1..(b + k), NEW m \in 1..(b + k), list[l].id = list[m].id
               PROVE  l = m
    BY <1>3 DEF Distinct
  <2>1. CASE l \in 1..b /\ list[l] = base[l] /\ m \in 1..b /\ list[m] = base[m]
    BY <1>1, <2>1 DEF Distinct
  <2>2. CASE l - b \in 1..k /\ list[l] = queue[l - b] /\ m - b \in 1..k /\ list[m] = queue[m - b]
    <3>1. l - b = m - b
      BY <1>1, <1>6, <2>2 DEF Distinct
    <3> QED
      BY <1>1, <3>1
  <2> QED
    BY <1>4, <1>7, <2>1, <2>2
<1>9. ASSUME NEW id, \A i \in 1..k : queue[i].id # id
      PROVE  At(list, id) = At(base, id)
  <2>1. \A it \in At(base, id) : it \in At(list, id)
    BY <1>1, <1>3, <1>5, AtIs
  <2>2. \A it \in At(list, id) : it \in At(base, id)
    BY <1>1, <1>3, <1>4, <1>9, AtIs
  <2> QED
    BY <2>1, <2>2
<1>10. ASSUME NEW i \in 1..k
       PROVE  At(list, queue[i].id) = {queue[i]}
  <2>1. PICK h : h = queue[i].id
    OBVIOUS
  <2>2. queue[i] \in At(list, h)
    BY <1>3, <1>6, <2>1, AtIs
  <2>3. \A it, jt \in At(list, h) : it = jt
    BY <1>8, DistinctAt
  <2> QED
    BY <2>1, <2>2, <2>3
<1>11. \A l \in DOMAIN list : \/ \E i \in DOMAIN base : list[l] = base[i]
                              \/ \E i \in 1..k : list[l] = queue[i]
  BY <1>1, <1>3, <1>4
<1> QED
  BY <1>8, <1>9, <1>10, <1>11 DEF MovedOK

\* ReleaseClassic takes results of its own operation away, if any.
LEMMA AtWithoutClassic ==
  ASSUME NEW S, NEW seq \in Seq(S), NEW id
  PROVE  /\ At(WithoutClassic(seq, id), id) \subseteq At(seq, id)
         /\ \A j : j # id => At(WithoutClassic(seq, id), j) = At(seq, j)
<1>1. CASE ~Has(seq, id)
  BY <1>1 DEF WithoutClassic
<1>2. CASE Has(seq, id)
  <2>1. PICK k \in 1..Len(seq) : k = Slot(seq, id) /\ seq[k].id = id
    BY <1>2, SlotFound
  <2>2. \A j : /\ At(RemoveAt(seq, k), j) \subseteq At(seq, j)
               /\ seq[k].id # j => At(RemoveAt(seq, k), j) = At(seq, j)
    BY AtRemove
  <2> QED
    BY <1>2, <2>1, <2>2 DEF WithoutClassic
<1> QED
  BY <1>1, <1>2

-----------------------------------------------------------------------------
(***************************************************************************)
(* Steps as an operation sees them.                                        *)
(***************************************************************************)
LEMMA ViewsNext ==
  ASSUME NEW id, NEW r
  PROVE  /\ Tx(id)' = At(tx_qubits'[id[1]], id)
         /\ Rx(r, id)' = At(rx_qubits'[r], id)
         /\ Queued(r, id)' = At(rx_queue'[r], id)
         /\ Kept(r, id)' = At(storage'[r], id)
         /\ Msgs(id)' = {m \in net' : m.id = id}
         /\ Evs(id)' = {e \in events' : e.id = id}
BY DEF Tx, Rx, Queued, Kept, Msgs, Evs, At, Matches

\* An operation that a step leaves alone, or takes something away from.
LEMMA FrameOp ==
  ASSUME IInv, NEW id \in Id, OpOK(id), Tx(id)' = Tx(id),
         Msgs(id)' \subseteq Msgs(id), Evs(id)' \subseteq Evs(id),
         \A r \in Node : /\ Queued(r, id)' \subseteq Queued(r, id)
                         /\ Kept(r, id)' = Kept(r, id)
                         /\ Rx(r, id)' \subseteq Rx(r, id)
                         /\ OneQubit => Rx(r, id)' = Rx(r, id)
                         /\ id \in data[r] => id \in data'[r],
         Unsent(id)' => Unsent(id)
  PROVE  OpOK(id)'
<1>0. id[1] \in Node
  BY DEF Id
<1>1. NoRx(id)' = NoRx(id) \/ ~OneQubit
  BY DEF NoRx
<1>2. Kept(id[1], id)' = Kept(id[1], id)
  BY <1>0
<1>3. Open(id) => Open(id)'
  BY <1>2 DEF Open
<1>4. (Idle(id) => Idle(id)') /\ (Holding(id) => Holding(id)')
  BY <1>3 DEF Idle, Holding
<1>5. \A p, r : Agreed(id, p, r) => Agreed(id, p, r)'
  BY DEF Agreed
<1>6. ASSUME NEW r \in Node, NEW p, MeasuredOK(id, r, p)
      PROVE  MeasuredOK(id, r, p)'
  BY <1>1, <1>4, <1>5, <1>6 DEF MeasuredOK
<1>7. Tx(id) \subseteq Item(id[1]) /\ Kept(id[1], id) \subseteq Item(id[1])
  BY <1>0, NodeLists, AtType DEF Tx, Kept
<1>8. ASSUME NEW m \in Msgs(id)'
      PROVE  MessageOK(id, m)'
  <2>1. m \in Msgs(id) /\ MessageOK(id, m)
    BY <1>8 DEF OpOK, DrivenOK
  <2>2. m.src \in Node /\ m.dst \in Node
    BY <2>1, ArrivedId, MessageFields DEF Msgs
  <2>3. m.type = "Qubit" => QubitOK(id, m)'
    BY <1>1, <1>4, <1>5, <2>1 DEF MessageOK, QubitOK
  <2>4. m.type = "NACK" /\ m.dst = id[1] => AskOK(id)'
    <3>1. \A s \in Kept(id[1], id) : Peers[id[1]][s.peer] \in Node
      BY <1>0, <1>7, PeersFacts, ItemFields
    <3> QED
      BY <1>1, <1>2, <1>4, <2>1, <3>1 DEF MessageOK, AskOK
  <2>5. m.type = "NACK" /\ m.dst # id[1] => \E p \in Protocols : MeasuredOK(id, m.dst, p)'
    BY <1>6, <2>1, <2>2 DEF MessageOK
  <2>6. m.type = "Classical" /\ m.dst = id[1] =>
          /\ MeasuredOK(id, m.src, m.protocol)'
          /\ m.x = TRUE /\ m.z = (m.protocol = "teledata")
    BY <1>6, <2>1, <2>2 DEF MessageOK
  <2>7. m.type = "Classical" /\ m.dst # id[1] => ResultOK(id, m)'
    BY <1>2, <1>4, <2>1, <2>2 DEF MessageOK, ResultOK
  <2>8. m.type = "AWK" => AwkOK(id, m)'
    <3>1. SUFFICES ASSUME m.type = "AWK"
                   PROVE  AwkOK(id, m)'
      OBVIOUS
    <3>2. AwkOK(id, m)
      BY <2>1, <3>1 DEF MessageOK
    <3>3. Msgs(id)' = {m}
      BY <1>8, <3>2 DEF AwkOK
    <3>4. \A r \in Node : Queued(r, id)' = {}
      BY <3>2 DEF AwkOK
    <3> QED
      BY <1>2, <3>2, <3>3, <3>4 DEF AwkOK
  <2> QED
    BY <2>3, <2>4, <2>5, <2>6, <2>7, <2>8 DEF MessageOK
<1>9. ASSUME NEW e \in Evs(id)'
      PROVE  EventOK(id, e)'
  <2>1. e \in Evs(id) /\ EventOK(id, e)
    BY <1>9 DEF OpOK, DrivenOK
  <2>2. e.node \in Node
    BY <2>1 DEF Evs, IInv, RestOK, Event
  <2>3. \A t \in Tx(id) : Peers[id[1]][t.peer] \in Node
    BY <1>0, <1>7, PeersFacts, ItemFields
  <2>4. e.fn = "SendClassical" =>
          /\ e.node # id[1] /\ Holding(id)'
          /\ \A t \in Tx(id)' : Peers[id[1]][t.peer] = e.node
          /\ OneQubit => Rx(e.node, id)' # {}
    BY <1>4, <2>1, <2>2 DEF EventOK
  <2>5. e.fn = "LocalGate" =>
          /\ e.node = id[1] /\ Open(id)'
          /\ \A t \in Tx(id)' :
               /\ t.protocol = "telegate" /\ t.x = TRUE /\ t.operating = TRUE
               /\ OneQubit => Rx(Peers[id[1]][t.peer], id)' # {}
    BY <1>3, <2>1, <2>3 DEF EventOK
  <2>6. /\ ~IsDriver(e) => e.node = id[1] /\ Tx(id)' # {} /\ Idle(id)'
        /\ e.fn = "ReleaseQubit" /\ IsDriver(e) =>
             e.node # id[1] /\ (OneQubit => Rx(e.node, id)' # {})
    BY <1>4, <2>1, <2>2 DEF EventOK
  <2> QED
    BY <2>4, <2>5, <2>6 DEF EventOK
<1>10. \A r \in Node : \A it : RecordOK(id, r, it) => RecordOK(id, r, it)'
  BY DEF RecordOK
<1>11. \A r \in Node : \A it \in Queued(r, id)' : QueuedOK(id, r, it)'
  BY <1>1, <1>4, <1>5, <1>10 DEF OpOK, DrivenOK, QueuedOK
<1>12. DrivenOK(id)'
  BY <1>8, <1>9, <1>11 DEF DrivenOK
<1>13. \A r \in Node : \A s \in Kept(r, id)' : KeptOK(id, r, s)'
  BY <1>10 DEF OpOK, PlacesOK, KeptOK
<1>14. PlacesOK(id)'
  <2>1. AtMostOne(Kept(id[1], id))'
    BY <1>2 DEF OpOK, PlacesOK, AtMostOne
  <2> QED
    BY <1>10, <1>13, <2>1 DEF OpOK, PlacesOK
<1>15. KeysOK(id)'
  <2>1. Untouched(id) => Untouched(id)'
    BY DEF Untouched
  <2> QED
    BY <1>0, <2>1 DEF OpOK, KeysOK
<1> QED
  BY <1>12, <1>14, <1>15 DEF OpOK

\* A packet that can move an operation on is all there is of it.
LEMMA AlonePacket ==
  ASSUME OInv, NEW m \in net, m.type # "AWK"
  PROVE  /\ Msgs(m.id) = {m} /\ \A e \in Evs(m.id) : ~IsDriver(e)
         /\ \A r \in Node : Queued(r, m.id) = {}
<1>1. PICK id \in Id : id = m.id
  BY ArrivedId DEF OInv, DInv
<1>2. AtMostOne(Driven(id)) /\ OpOK(id)
  BY DEF OInv, DInv
<1>3. <<"net", m>> \in Driven(id)
  BY <1>1, DrivenIs
<1>4. \A p \in Msgs(id) : p = m
  <2> SUFFICES ASSUME NEW p \in Msgs(id) PROVE p = m
    OBVIOUS
  <2>1. p \in net /\ p.id = id
    BY DEF Msgs
  <2>2. CASE p.type = "AWK"
    <3>1. Msgs(id) = {p}
      BY <1>2, <2>2 DEF OpOK, DrivenOK, MessageOK, AwkOK
    <3> QED
      BY <1>1, <3>1 DEF Msgs
  <2>3. CASE p.type # "AWK"
    <3>1. <<"net", p>> \in Driven(id)
      BY <2>1, <2>3, DrivenIs
    <3> QED
      BY <1>2, <1>3, <3>1 DEF AtMostOne
  <2> QED
    BY <2>2, <2>3
<1>5. \A e \in Evs(id) : ~IsDriver(e)
  <2> SUFFICES ASSUME NEW e \in Evs(id), IsDriver(e) PROVE FALSE
    OBVIOUS
  <2>1. <<"event", e>> \in Driven(id)
    BY DrivenIs DEF Evs
  <2>2. <<"event", e>> # <<"net", m>>
    OBVIOUS
  <2> QED
    BY <1>2, <1>3, <2>1, <2>2 DEF AtMostOne
<1>6. \A r \in Node : Queued(r, id) = {}
  <2> SUFFICES ASSUME NEW r \in Node, Queued(r, id) # {} PROVE FALSE
    OBVIOUS
  <2>1. <<"queue", r>> \in Driven(id)
    BY DrivenIs, AtIs DEF Queued
  <2>2. <<"queue", r>> # <<"net", m>>
    OBVIOUS
  <2> QED
    BY <1>2, <1>3, <2>1, <2>2 DEF AtMostOne
<1> QED
  BY <1>1, <1>4, <1>5, <1>6 DEF Msgs

\* So is an event, except for an AWK of the node that releases its qubit.
LEMMA AloneEvent ==
  ASSUME OInv, NEW e \in events, IsDriver(e)
  PROVE  /\ \A m \in Msgs(e.id) : m.type = "AWK" /\ e.fn = "ReleaseQubit"
         /\ \A f \in Evs(e.id) : IsDriver(f) => f = e
         /\ \A r \in Node : Queued(r, e.id) = {}
<1>1. PICK id \in Id : id = e.id
  BY DEF OInv, DInv, IInv, RestOK, Event
<1>2. AtMostOne(Driven(id)) /\ OpOK(id)
  BY DEF OInv, DInv
<1>3. <<"event", e>> \in Driven(id)
  BY <1>1, DrivenIs
<1>4. \A m \in Msgs(id) : m.type = "AWK" /\ e.fn = "ReleaseQubit"
  <2> SUFFICES ASSUME NEW m \in Msgs(id) PROVE m.type = "AWK" /\ e.fn = "ReleaseQubit"
    OBVIOUS
  <2>1. m.type = "AWK"
    <3>1. m.type # "AWK" => <<"net", m>> \in Driven(id)
      BY DrivenIs DEF Msgs
    <3>2. <<"event", e>> # <<"net", m>>
      OBVIOUS
    <3> QED
      BY <1>2, <1>3, <3>1, <3>2 DEF AtMostOne
  <2>2. e \in Evs(id)
    BY <1>1 DEF Evs
  <2> QED
    BY <1>2, <2>1, <2>2 DEF OpOK, DrivenOK, MessageOK, AwkOK
<1>5. \A f \in Evs(id) : IsDriver(f) => f = e
  <2> SUFFICES ASSUME NEW f \in Evs(id), IsDriver(f) PROVE f = e
    OBVIOUS
  <2>1. <<"event", f>> \in Driven(id)
    BY DrivenIs DEF Evs
  <2> QED
    BY <1>2, <1>3, <2>1 DEF AtMostOne
<1>6. \A r \in Node : Queued(r, id) = {}
  <2> SUFFICES ASSUME NEW r \in Node, Queued(r, id) # {} PROVE FALSE
    OBVIOUS
  <2>1. <<"queue", r>> \in Driven(id)
    BY DrivenIs, AtIs DEF Queued
  <2>2. <<"queue", r>> # <<"event", e>>
    OBVIOUS
  <2> QED
    BY <1>2, <1>3, <2>1, <2>2 DEF AtMostOne
<1> QED
  BY <1>1, <1>4, <1>5, <1>6

\* And so is a place in m_rx_queue.
LEMMA AloneQueued ==
  ASSUME OInv, NEW id \in Id, NEW n \in Node, Queued(n, id) # {}
  PROVE  /\ Msgs(id) = {} /\ \A e \in Evs(id) : ~IsDriver(e)
         /\ \A r \in Node : r # n => Queued(r, id) = {}
<1>1. AtMostOne(Driven(id)) /\ OpOK(id)
  BY DEF OInv, DInv
<1>2. \A r \in Node : Queued(r, id) # {} => <<"queue", r>> \in Driven(id)
  BY DrivenIs, AtIs DEF Queued
<1>3. \A r \in Node : r # n => Queued(r, id) = {}
  <2> SUFFICES ASSUME NEW r \in Node, Queued(r, id) # {} PROVE r = n
    OBVIOUS
  <2>1. <<"queue", r>> = <<"queue", n>>
    BY <1>1, <1>2 DEF AtMostOne
  <2> QED
    BY <2>1
<1>4. \A e \in Evs(id) : ~IsDriver(e)
  <2> SUFFICES ASSUME NEW e \in Evs(id), IsDriver(e) PROVE FALSE
    OBVIOUS
  <2>1. <<"event", e>> \in Driven(id)
    BY DrivenIs DEF Evs
  <2>2. <<"event", e>> # <<"queue", n>>
    OBVIOUS
  <2> QED
    BY <1>1, <1>2, <2>1, <2>2 DEF AtMostOne
<1>5. ASSUME NEW m \in Msgs(id)
      PROVE  FALSE
  <2>1. m.type = "AWK"
    <3>1. m.type # "AWK" => <<"net", m>> \in Driven(id)
      BY DrivenIs DEF Msgs
    <3>2. <<"queue", n>> # <<"net", m>>
      OBVIOUS
    <3> QED
      BY <1>1, <1>2, <3>1, <3>2 DEF AtMostOne
  <2> QED
    BY <1>1, <2>1 DEF OpOK, DrivenOK, MessageOK, AwkOK
<1> QED
  BY <1>3, <1>4, <1>5

\* The operations that a handler of operation id at node n leaves alone.
LEMMA FrameOthers ==
  ASSUME OInv, NEW n \in Node, NEW id,
         OnlyAt(n, tx_qubits, tx_qubits'), OnlyAt(n, rx_qubits, rx_qubits'),
         OnlyAt(n, rx_queue, rx_queue'), OnlyAt(n, storage, storage'),
         \A j : j # id => /\ At(tx_qubits'[n], j) = At(tx_qubits[n], j)
                          /\ At(rx_qubits'[n], j) = At(rx_qubits[n], j)
                          /\ At(rx_queue'[n], j) = At(rx_queue[n], j)
                          /\ At(storage'[n], j) = At(storage[n], j),
         \A m \in net' : m \in net \/ m.id = id,
         \A e \in events' : e \in events \/ e.id = id,
         \A r \in Node : \A j \in data[r] : j # id => j \in data'[r],
         UNCHANGED <<msg_count, tx_queue>>
  PROVE  \A j \in Id : j # id => OpOK(j)'
<1> SUFFICES ASSUME NEW j \in Id, j # id PROVE OpOK(j)'
  OBVIOUS
<1>1. j[1] \in Node
  BY DEF Id
<1>2. \A r \in Node : /\ At(tx_qubits'[r], j) = At(tx_qubits[r], j)
                      /\ At(rx_qubits'[r], j) = At(rx_qubits[r], j)
                      /\ At(rx_queue'[r], j) = At(rx_queue[r], j)
                      /\ At(storage'[r], j) = At(storage[r], j)
  <2> SUFFICES ASSUME NEW r \in Node
               PROVE  /\ At(tx_qubits'[r], j) = At(tx_qubits[r], j)
                      /\ At(rx_qubits'[r], j) = At(rx_qubits[r], j)
                      /\ At(rx_queue'[r], j) = At(rx_queue[r], j)
                      /\ At(storage'[r], j) = At(storage[r], j)
    OBVIOUS
  <2>1. CASE r = n
    BY <2>1
  <2>2. CASE r # n
    BY <2>2 DEF OnlyAt
  <2> QED
    BY <2>1, <2>2
<1>3. Tx(j)' = Tx(j)
  BY <1>1, <1>2, ViewsNext DEF Tx
<1>4. \A r \in Node : /\ Rx(r, j)' = Rx(r, j) /\ Queued(r, j)' = Queued(r, j)
                      /\ Kept(r, j)' = Kept(r, j)
  BY <1>2, ViewsNext DEF Rx, Queued, Kept
<1>5. Msgs(j)' \subseteq Msgs(j) /\ Evs(j)' \subseteq Evs(j)
  BY ViewsNext DEF Msgs, Evs
<1>6. Unsent(j)' => Unsent(j)
  BY DEF Unsent, Has
<1> QED
  BY <1>3, <1>4, <1>5, <1>6, FrameOp DEF OInv, DInv

\* A list holds of an operation no more than it did, with the same peers and
\* protocols.
Alike(after, before) ==
  \A it \in after : \E jt \in before : it.peer = jt.peer /\ it.protocol = jt.protocol

LEMMA AlikeRefl ==
  ASSUME NEW S, NEW T, T \subseteq S
  PROVE  Alike(T, S)
BY DEF Alike

LEMMA RecordNext ==
  ASSUME NEW id \in Id, Alike(Tx(id)', Tx(id)), NEW r, NEW it, NEW jt,
         RecordOK(id, r, it), jt.peer = it.peer, jt.protocol = it.protocol
  PROVE  RecordOK(id, r, jt)'
BY DEF Alike, RecordOK

\* The places of an operation whose handler makes no new one.
LEMMA PlacesNext ==
  ASSUME NEW id \in Id, PlacesOK(id), Alike(Tx(id)', Tx(id)),
         \A r \in Node : Alike(Rx(r, id)', Rx(r, id)),
         \A r \in Node : \A s \in Kept(r, id)' : s \in Kept(r, id) \/ KeptOK(id, r, s)',
         AtMostOne(Kept(id[1], id)')
  PROVE  PlacesOK(id)'
<1>1. \A r \in Node : \A it \in Rx(r, id)' : RecordOK(id, r, it)'
  <2> SUFFICES ASSUME NEW r \in Node, NEW it \in Rx(r, id)'
               PROVE  RecordOK(id, r, it)'
    OBVIOUS
  <2>1. PICK jt \in Rx(r, id) : it.peer = jt.peer /\ it.protocol = jt.protocol
    BY DEF Alike
  <2> QED
    BY <2>1, RecordNext DEF PlacesOK
<1>2. \A r \in Node : \A s \in Kept(r, id)' : KeptOK(id, r, s)'
  <2> SUFFICES ASSUME NEW r \in Node, NEW s \in Kept(r, id)', s \in Kept(r, id)
               PROVE  KeptOK(id, r, s)'
    OBVIOUS
  <2>1. KeptOK(id, r, s)
    BY DEF PlacesOK
  <2> QED
    BY <2>1, RecordNext DEF KeptOK
<1>3. AtMostOne(Kept(id[1], id))'
  BY DEF AtMostOne
<1>4. OneQubit => \A r, q \in Node : Rx(r, id)' # {} /\ Rx(q, id)' # {} => r = q
  BY DEF PlacesOK, Alike
<1> QED
  BY <1>1, <1>2, <1>3, <1>4 DEF PlacesOK

LEMMA KeysNext ==
  ASSUME NEW id \in Id, KeysOK(id), ~Untouched(id), UNCHANGED <<msg_count, tx_queue>>,
         Tx(id)' # {} => Tx(id) # {},
         id \in data[id[1]] => id \in data'[id[1]],
         OneQubit => \A r \in Node : Rx(r, id)' # {} \/ Queued(r, id)' # {} => id \in data'[r]
  PROVE  KeysOK(id)'
<1>1. ~Unsent(id)'
  BY DEF KeysOK, Unsent, Has
<1> QED
  BY <1>1 DEF KeysOK

LEMMA OpFacts ==
  ASSUME OInv, NEW id \in Id
  PROVE  /\ id[1] \in Node /\ OpOK(id) /\ DrivenOK(id) /\ PlacesOK(id) /\ KeysOK(id)
         /\ Tx(id) \subseteq Item(id[1]) /\ \A t \in Tx(id) : t.id = id
         /\ \A t, u \in Tx(id) : t = u
         /\ Rx(id[1], id) = {} /\ Queued(id[1], id) = {}
         /\ \A r \in Node : /\ Rx(r, id) \subseteq Item(r) /\ Queued(r, id) \subseteq Item(r)
                            /\ Kept(r, id) \subseteq Item(r)
<1>1. id[1] \in Node /\ OpOK(id) /\ IInv
  BY DEF Id, OInv, DInv
<1>2. Tx(id) \subseteq Item(id[1]) /\ \A t \in Tx(id) : t.id = id
  BY <1>1, NodeLists, AtType, AtIs DEF Tx
<1>3. \A t, u \in Tx(id) : t = u
  BY <1>1, DistinctAt DEF OInv, SenderOK, Tx
<1>4. Rx(id[1], id) = {} /\ Queued(id[1], id) = {}
  BY <1>1 DEF OpOK, PlacesOK, DrivenOK, QueuedOK, RecordOK
<1>5. \A r \in Node : /\ Rx(r, id) \subseteq Item(r) /\ Queued(r, id) \subseteq Item(r)
                      /\ Kept(r, id) \subseteq Item(r)
  BY <1>1, NodeLists, AtType DEF Rx, Queued, Kept
<1> QED
  BY <1>1, <1>2, <1>3, <1>4, <1>5 DEF OpOK

\* An operation is only among the m_tx_qubits of its own node.
LEMMA OnlyOwnTx ==
  ASSUME OInv, NEW n \in Node, NEW id, Has(tx_qubits[n], id)
  PROVE  id[1] = n
BY DEF OInv, SenderOK, Has

LEMMA SenderFrame ==
  ASSUME OInv, UNCHANGED tx_queue, \A r \in Node : tx_qubits'[r] = tx_qubits[r],
         \A r \in Node : \A i \in DOMAIN tx_queue[r] : tx_queue[r][i].id \in data'[r]
  PROVE  \A r \in Node : SenderOK(r)'
BY DEF OInv, SenderOK, Distinct

\* A handler changes the item of one operation.
TxUpdate(n, k, it) ==
  /\ k \in 1..Len(tx_qubits[n]) /\ it.id = tx_qubits[n][k].id
  /\ tx_qubits' = [tx_qubits EXCEPT ![n] = [tx_qubits[n] EXCEPT ![k] = it]]

LEMMA SenderChanged ==
  ASSUME OInv, NEW n \in Node, NEW k, NEW it, TxUpdate(n, k, it), UNCHANGED <<tx_queue, data>>
  PROVE  \A r \in Node : SenderOK(r)'
<1> SUFFICES ASSUME NEW r \in Node PROVE SenderOK(r)'
  OBVIOUS
<1>a. /\ k \in 1..Len(tx_qubits[n]) /\ it.id = tx_qubits[n][k].id
      /\ tx_qubits' = [tx_qubits EXCEPT ![n] = [tx_qubits[n] EXCEPT ![k] = it]]
  BY DEF TxUpdate
<1>1. tx_qubits[n] \in Seq(Item(n)) /\ DOMAIN tx_qubits = Node
  BY NodeLists DEF OInv, DInv
<1>2. SenderOK(r)
  BY DEF OInv
<1>3. CASE r # n
  BY <1>a, <1>1, <1>2, <1>3 DEF SenderOK, Distinct
<1>4. CASE r = n
  <2> DEFINE list == [tx_qubits[n] EXCEPT ![k] = it]
  <2>1. DOMAIN list = DOMAIN tx_qubits[n] /\ \A i \in DOMAIN list : list[i].id = tx_qubits[n][i].id
    BY <1>a
  <2>2. tx_qubits'[r] = list
    BY <1>a, <1>1, <1>4
  <2> HIDE DEF list
  <2>3. Distinct(list) /\ \A i \in DOMAIN list : list[i].id[1] = n
    BY <1>2, <1>4, <2>1 DEF SenderOK, Distinct
  <2> QED
    BY <1>2, <1>4, <2>2, <2>3 DEF SenderOK, Distinct
<1> QED
  BY <1>3, <1>4

LEMMA TxChanged ==
  ASSUME OInv, NEW n \in Node, NEW k, NEW it, TxUpdate(n, k, it)
  PROVE  /\ it.id[1] = n => Tx(it.id)' = {it}
         /\ OnlyAt(n, tx_qubits, tx_qubits')
         /\ \A j : j # it.id => At(tx_qubits'[n], j) = At(tx_qubits[n], j)
<1>0. PICK id, list : id = it.id /\ list = [tx_qubits[n] EXCEPT ![k] = it]
  OBVIOUS
<1>a. /\ k \in 1..Len(tx_qubits[n]) /\ id = tx_qubits[n][k].id
      /\ tx_qubits' = [tx_qubits EXCEPT ![n] = list]
  BY <1>0 DEF TxUpdate
<1>1. tx_qubits[n] \in Seq(Item(n)) /\ DOMAIN tx_qubits = Node /\ Distinct(tx_qubits[n])
  BY NodeLists DEF OInv, DInv, SenderOK
<1>2. tx_qubits'[n] = list /\ OnlyAt(n, tx_qubits, tx_qubits')
  BY <1>a, <1>1, OnlyAtExcept
<1>3. PICK seq \in Seq(Item(n)) : seq = tx_qubits[n]
  BY <1>1
<1>4. At([seq EXCEPT ![k] = it], id) = {it}
  <2>1. Distinct(seq) /\ k \in 1..Len(seq) /\ seq[k].id = id /\ it.id = id
    BY <1>0, <1>a, <1>1, <1>3
  <2>2. it \in At([seq EXCEPT ![k] = it], id)
    BY <2>1, ExceptOwn
  <2>3. ASSUME NEW jt \in At([seq EXCEPT ![k] = it], id)
        PROVE  jt = it
    BY <2>1, <2>3, ExceptOnly
  <2> QED
    BY <2>2, <2>3
<1>5. ASSUME NEW j, j # id
      PROVE  At([seq EXCEPT ![k] = it], j) = At(seq, j)
  <2>1. k \in 1..Len(seq) /\ seq[k].id # j /\ it.id # j
    BY <1>0, <1>a, <1>3, <1>5
  <2> QED
    BY <2>1, ExceptOther
<1>6. Tx(id)' = At(tx_qubits'[id[1]], id)
  BY ViewsNext
<1>7. list = [seq EXCEPT ![k] = it]
  BY <1>0, <1>3
<1>8. id[1] = n => Tx(id)' = {it}
  BY <1>2, <1>4, <1>6, <1>7
<1>9. \A j : j # id => At(tx_qubits'[n], j) = At(tx_qubits[n], j)
  BY <1>2, <1>3, <1>5, <1>7
<1> QED
  BY <1>0, <1>2, <1>8, <1>9

RxUpdate(n, k, it) ==
  /\ k \in 1..Len(rx_qubits[n]) /\ it.id = rx_qubits[n][k].id
  /\ it.peer = rx_qubits[n][k].peer /\ it.protocol = rx_qubits[n][k].protocol
  /\ rx_qubits' = [rx_qubits EXCEPT ![n] = [rx_qubits[n] EXCEPT ![k] = it]]

LEMMA RxChanged ==
  ASSUME OInv, NEW n \in Node, NEW k, NEW it, RxUpdate(n, k, it)
  PROVE  /\ \A r \in Node : Alike(Rx(r, it.id)', Rx(r, it.id))
                           /\ (Rx(r, it.id) # {} => Rx(r, it.id)' # {})
         /\ rx_qubits[n][k] \in Rx(n, it.id)
         /\ OnlyAt(n, rx_qubits, rx_qubits')
         /\ \A j : j # it.id => At(rx_qubits'[n], j) = At(rx_qubits[n], j)
<1>0. PICK id, list : id = it.id /\ list = [rx_qubits[n] EXCEPT ![k] = it]
  OBVIOUS
<1>a. /\ k \in 1..Len(rx_qubits[n]) /\ id = rx_qubits[n][k].id
      /\ it.peer = rx_qubits[n][k].peer /\ it.protocol = rx_qubits[n][k].protocol
      /\ rx_qubits' = [rx_qubits EXCEPT ![n] = list]
  BY <1>0 DEF RxUpdate
<1>1. rx_qubits[n] \in Seq(Item(n)) /\ DOMAIN rx_qubits = Node
  BY NodeLists DEF OInv, DInv
<1>2. rx_qubits'[n] = list /\ OnlyAt(n, rx_qubits, rx_qubits')
  BY <1>a, <1>1, OnlyAtExcept
<1>3. PICK seq \in Seq(Item(n)) : seq = rx_qubits[n]
  BY <1>1
<1>b. k \in 1..Len(seq) /\ seq[k].id = id /\ it.id = id
  BY <1>0, <1>a, <1>3
<1>4. seq[k] \in Rx(n, id)
  BY <1>b, <1>3, AtIs, DomainOfSeq DEF Rx
<1>5. ASSUME NEW jt \in At([seq EXCEPT ![k] = it], id)
      PROVE  jt \in Rx(n, id) \/ jt = it
  BY <1>b, <1>3, <1>5, InExcept DEF Rx
<1>6. it \in At([seq EXCEPT ![k] = it], id)
  BY <1>b, ExceptOwn
<1>7. ASSUME NEW j, j # id
      PROVE  At([seq EXCEPT ![k] = it], j) = At(seq, j)
  BY <1>b, <1>7, ExceptOther
<1>8. list = [seq EXCEPT ![k] = it]
  BY <1>0, <1>3
<1>9. \A r \in Node : r # n => Rx(r, id)' = Rx(r, id)
  BY <1>2, ViewsNext DEF Rx, OnlyAt
<1>10. Rx(n, id)' = At(list, id)
  BY <1>2, ViewsNext
<1>11. Alike(Rx(n, id)', Rx(n, id)) /\ Rx(n, id)' # {}
  BY <1>a, <1>3, <1>4, <1>5, <1>6, <1>8, <1>10 DEF Alike
<1>12. \A j : j # id => At(rx_qubits'[n], j) = At(rx_qubits[n], j)
  BY <1>2, <1>3, <1>7, <1>8
<1>13. \A r \in Node : Alike(Rx(r, id)', Rx(r, id)) /\ (Rx(r, id) # {} => Rx(r, id)' # {})
  BY <1>9, <1>11, AlikeRefl
<1> QED
  BY <1>0, <1>2, <1>3, <1>4, <1>12, <1>13

-----------------------------------------------------------------------------
(***************************************************************************)
(* The handlers.                                                           *)
(***************************************************************************)
\* Steps that only take something away.
LEMMA FewerOInv ==
  ASSUME OInv, DInv', net' \subseteq net, events' \subseteq events,
         UNCHANGED <<msg_count, held, data>>, OneQubit => failed' = "none"
  PROVE  OInv'
<1>1. ASSUME NEW j \in Id
      PROVE  OpOK(j)'
  <2>1. Tx(j)' = Tx(j) /\ (Unsent(j)' => Unsent(j))
    BY ViewsNext DEF Tx, Unsent, Has, held
  <2>2. \A r \in Node : /\ Rx(r, j)' = Rx(r, j) /\ Queued(r, j)' = Queued(r, j)
                        /\ Kept(r, j)' = Kept(r, j) /\ (j \in data[r] => j \in data'[r])
    BY ViewsNext DEF Rx, Queued, Kept, held
  <2>3. Msgs(j)' \subseteq Msgs(j) /\ Evs(j)' \subseteq Evs(j)
    BY ViewsNext DEF Msgs, Evs
  <2> QED
    BY <2>1, <2>2, <2>3, FrameOp DEF OInv, DInv
<1>2. \A r \in Node : SenderOK(r)'
  BY DEF OInv, SenderOK, Distinct, held
<1> QED
  BY <1>1, <1>2 DEF OInv

\* A spoiled packet: the NACK asks its sender for the same again.
LEMMA SendNACKOInv ==
  ASSUME OInv, DInv', NEW n \in Node, NEW m \in net, m.type \in {"Qubit", "Classical"},
         m.dst = n, SendNACK(n, m)
  PROVE  OInv'
<1>1. PICK id \in Id : id = m.id
  BY ArrivedId DEF OInv, DInv
<1>2. PICK nack : nack = NACKFor(n, PeerIndex(n, m.src), m.id, m.protocol)
  OBVIOUS
<1>3. nack.id = id /\ nack.type = "NACK" /\ nack.dst = m.src /\ m.src \in Node
      /\ m.protocol \in Protocols
  <2>1. m \in PeerMessage
    BY ArrivedId DEF OInv, DInv
  <2>2. \E i \in DOMAIN Peers[n] : Peers[n][i] = m.src
    BY <2>1 DEF PeerMessage
  <2>3. Peers[n][PeerIndex(n, m.src)] = m.src
    BY <2>2 DEF PeerIndex
  <2> QED
    BY <1>1, <1>2, <2>1, <2>3, MessageFields DEF NACKFor, Packet
<1>4. /\ net' = (net \ {m}) \cup {nack}
      /\ data' = [data EXCEPT ![n] = @ \cup {id}]
      /\ UNCHANGED <<sock, msg_count, events, failed>>
      /\ UNCHANGED <<tx_queue, tx_qubits, rx_queue, rx_qubits, storage>>
  BY <1>1, <1>2 DEF SendNACK, held
<1>5. \A r \in Node : data[r] \subseteq data'[r]
  BY <1>4 DEF OInv, DInv, IInv, RestOK
<1>6. /\ Msgs(id) = {m} /\ \A e \in Evs(id) : ~IsDriver(e)
      /\ \A r \in Node : Queued(r, id) = {}
  BY <1>1, AlonePacket
<1>7. /\ Tx(id)' = Tx(id) /\ Msgs(id)' = {nack} /\ Evs(id)' = Evs(id)
      /\ \A r \in Node : /\ Rx(r, id)' = Rx(r, id) /\ Queued(r, id)' = Queued(r, id)
                         /\ Kept(r, id)' = Kept(r, id)
  <2>1. Msgs(id)' = {p \in net' : p.id = id}
    BY ViewsNext
  <2>2. Msgs(id)' = {nack}
    BY <1>3, <1>4, <1>6, <2>1 DEF Msgs
  <2> QED
    BY <1>4, <2>2, ViewsNext DEF Tx, Rx, Queued, Kept, Evs
<1>8. MessageOK(id, m)
  BY <1>6, OpFacts DEF DrivenOK
<1>9. id[1] \in Node
  BY OpFacts
<1>10. MessageOK(id, nack)'
  <2>1. CASE m.type = "Qubit"
    <3>1. QubitOK(id, m)
      BY <1>8, <2>1 DEF MessageOK
    <3>2. Kept(id[1], id) = {} /\ Holding(id)' /\ Idle(id)' /\ (OneQubit => NoRx(id)')
      BY <1>7, <1>9, <3>1 DEF QubitOK, Holding, Open, Idle, NoRx
    <3>3. AskOK(id)'
      BY <1>7, <1>9, <3>2 DEF AskOK
    <3> QED
      BY <1>3, <3>1, <3>3 DEF MessageOK, QubitOK
  <2>2. CASE m.type = "Classical" /\ m.dst = id[1]
    <3>1. MeasuredOK(id, m.src, m.protocol)
      BY <1>8, <2>2 DEF MessageOK
    <3>2. MeasuredOK(id, m.src, m.protocol)'
      BY <1>3, <1>7, <1>9, <3>1 DEF MeasuredOK, Holding, Open, Idle, Agreed, NoRx
    <3> QED
      BY <1>3, <3>1, <3>2 DEF MessageOK, MeasuredOK
  <2>3. CASE m.type = "Classical" /\ m.dst # id[1]
    <3>1. ResultOK(id, m) /\ m.dst \in Node
      BY <1>8, <2>3 DEF MessageOK
    <3>2. AskOK(id)'
      BY <1>7, <1>9, <3>1 DEF ResultOK, AskOK, Idle
    <3> QED
      BY <1>3, <3>1, <3>2 DEF MessageOK, ResultOK
  <2> QED
    BY <2>1, <2>2, <2>3
<1>11. ASSUME NEW e \in Evs(id)'
       PROVE  EventOK(id, e)'
  <2>1. ~IsDriver(e) /\ EventOK(id, e)
    BY <1>6, <1>7, <1>11, OpFacts DEF DrivenOK
  <2> QED
    BY <1>7, <2>1 DEF EventOK, IsDriver, Idle
<1>12. DrivenOK(id)'
  BY <1>6, <1>7, <1>10, <1>11 DEF DrivenOK
<1>13. PlacesOK(id)'
  <2>1. AtMostOne(Kept(id[1], id)')
    BY <1>7, <1>9, OpFacts DEF PlacesOK
  <2> QED
    BY <1>7, <2>1, AlikeRefl, OpFacts, PlacesNext
<1>14. KeysOK(id)'
  <2>1. ~Untouched(id)
    BY <1>6 DEF Untouched
  <2>2. KeysOK(id)
    BY OpFacts
  <2>3. OneQubit => \A r \in Node : Rx(r, id)' # {} \/ Queued(r, id)' # {} => id \in data'[r]
    BY <1>5, <1>7, <2>2 DEF KeysOK
  <2> QED
    BY <1>4, <1>5, <1>7, <1>9, <2>1, <2>2, <2>3, KeysNext
<1>15. \A j \in Id : j # id => OpOK(j)'
  <2>1. \A p \in net' : p \in net \/ p.id = id
    BY <1>3, <1>4
  <2> QED
    BY <1>4, <1>5, <2>1, FrameOthers DEF OnlyAt
<1>16. \A r \in Node : SenderOK(r)'
  BY <1>4, <1>5, SenderFrame DEF OInv, SenderOK
<1> QED
  BY <1>4, <1>12, <1>13, <1>14, <1>15, <1>16 DEF OInv, OpOK

\* A qubit is taken, now or when one is free, for the operation it is of.
LEMMA ReceiveQubitOInv ==
  ASSUME OInv, DInv', NEW n \in Node, NEW id, ReceiveQubit(n, id)
  PROVE  OInv'
<1> DEFINE s == Slot(rx_qubits[n], id)
           known == Has(rx_qubits[n], id)
           room == Room(n)
           Update == [rx_qubits[n] EXCEPT ![s].has_qubit = TRUE, ![s].operating = TRUE]
           event == [fn |-> "SendClassical", node |-> n, id |-> id, sender |-> FALSE]
           Item0(m) == [id |-> id, peer |-> PeerIndex(n, m.src), protocol |-> m.protocol,
                        has_qubit |-> ~known /\ room, operating |-> ~known /\ room,
                        x |-> FALSE, z |-> FALSE]
           Fits == /\ ~Has(rx_queue[n], id)
                   /\ known => ~rx_qubits[n][s].operating /\ ~rx_qubits[n][s].has_qubit
           Taken(m) ==
             /\ rx_qubits' = [rx_qubits EXCEPT ![n] =
                       IF known THEN Update
                       ELSE IF room THEN Append(rx_qubits[n], Item0(m)) ELSE rx_qubits[n]]
             /\ rx_queue' = [rx_queue EXCEPT ![n] =
                       IF known \/ room THEN rx_queue[n] ELSE Append(rx_queue[n], Item0(m))]
             /\ data' = [data EXCEPT ![n] = IF known THEN @ ELSE @ \cup {id}]
             /\ events' = events \cup (IF known \/ room THEN {event} ELSE {})
             /\ net' = net \ {m}
             /\ UNCHANGED <<sock, msg_count, tx_queue, tx_qubits, storage, failed>>
<1>1. PICK m \in net : /\ Arrives(m, "Qubit", n, id)
                       /\ \/ Taken(m)
                          \/ ~Fits /\ Abort("ReceiveQubit")
  BY DEF ReceiveQubit
<1>2. m.type = "Qubit" /\ m.dst = n /\ m.id = id /\ id \in Id
  BY <1>1, ArrivedId DEF Arrives, OInv, DInv
<1>3. /\ Msgs(id) = {m} /\ \A e \in Evs(id) : ~IsDriver(e)
      /\ \A r \in Node : Queued(r, id) = {}
  BY <1>2, AlonePacket
<1>4. QubitOK(id, m) /\ KeysOK(id) /\ PlacesOK(id) /\ id[1] \in Node /\ n # id[1]
  BY <1>2, <1>3, OpFacts DEF DrivenOK, MessageOK, QubitOK
<1>5. rx_qubits[n] \in Seq(Item(n)) /\ rx_queue[n] \in Seq(Item(n))
      /\ DOMAIN rx_qubits = Node /\ DOMAIN rx_queue = Node
  BY NodeLists DEF OInv, DInv
<1>6. (known <=> Rx(n, id) # {}) /\ ~Has(rx_queue[n], id)
  BY <1>3, AtIs DEF Rx, Queued
<1>7. CASE ~Fits /\ Abort("ReceiveQubit")
  <2>1. ~OneQubit
    BY <1>4, <1>6, <1>7 DEF QubitOK, NoRx
  <2> QED
    BY <1>7, <2>1, FewerOInv DEF Abort
<1>8. ASSUME Taken(m)
      PROVE  OInv'
  <2>1. PICK item : item = Item0(m)
    OBVIOUS
  <2>2. /\ item \in Item(n) /\ item.id = id /\ item.protocol = m.protocol
        /\ Peers[n][item.peer] = id[1]
    <3>1. m \in PeerMessage
      BY ArrivedId DEF OInv, DInv
    <3>2. \E i \in DOMAIN Peers[n] : Peers[n][i] = m.src
      BY <1>2, <3>1 DEF PeerMessage
    <3>3. PeerIndex(n, m.src) \in DOMAIN Peers[n] /\ Peers[n][PeerIndex(n, m.src)] = m.src
      BY <3>2 DEF PeerIndex
    <3>4. m.protocol \in Protocols
      BY <3>1, MessageFields
    <3>5. (~known /\ room) \in BOOLEAN
      OBVIOUS
    <3>6. item \in Item(n)
      BY <1>2, <2>1, <3>3, <3>4, <3>5 DEF Item
    <3> QED
      BY <1>4, <2>1, <3>3, <3>6 DEF QubitOK
  <2>3. PICK up : up = [rx_qubits[n][s] EXCEPT !.has_qubit = TRUE, !.operating = TRUE]
    OBVIOUS
  <2>4. known => /\ s \in 1..Len(rx_qubits[n]) /\ rx_qubits[n][s].id = id
                 /\ rx_qubits[n][s] \in Rx(n, id) /\ rx_qubits[n][s] \in Item(n)
    BY <1>5, SlotAt DEF Rx
  <2>5. known => /\ Update = [rx_qubits[n] EXCEPT ![s] = up]
                 /\ up.id = id /\ up.peer = rx_qubits[n][s].peer
                 /\ up.protocol = rx_qubits[n][s].protocol
    BY <2>3, <2>4 DEF Item
  <2>6. PICK ev : ev = event
    OBVIOUS
  <2>7. ev.fn = "SendClassical" /\ ev.node = n /\ ev.id = id /\ IsDriver(ev)
    BY <2>6 DEF IsDriver
  <2>8. /\ rx_qubits'[n] = IF known THEN [rx_qubits[n] EXCEPT ![s] = up]
                           ELSE IF room THEN Append(rx_qubits[n], item) ELSE rx_qubits[n]
        /\ rx_queue'[n] = IF known \/ room THEN rx_queue[n] ELSE Append(rx_queue[n], item)
        /\ OnlyAt(n, rx_qubits, rx_qubits') /\ OnlyAt(n, rx_queue, rx_queue')
    BY <1>5, <1>8, <2>1, <2>5 DEF OnlyAt
  <2>9. /\ data' = [data EXCEPT ![n] = IF known THEN @ ELSE @ \cup {id}]
        /\ events' = events \cup (IF known \/ room THEN {ev} ELSE {})
        /\ net' = net \ {m}
        /\ UNCHANGED <<msg_count, tx_queue, tx_qubits, storage, failed>>
    BY <1>8, <2>6
  <2> HIDE DEF Update, event, Item0, Fits, Taken
  <2>10. \A r \in Node : data[r] \subseteq data'[r]
    BY <2>9 DEF OInv, DInv, IInv, RestOK
  <2>11. ~known => id \in data'[n]
    BY <2>9 DEF OInv, DInv, IInv, RestOK
  <2>12. \A j : j # id => /\ At(rx_qubits'[n], j) = At(rx_qubits[n], j)
                          /\ At(rx_queue'[n], j) = At(rx_queue[n], j)
    <3> SUFFICES ASSUME NEW j, j # id
                 PROVE  /\ At(rx_qubits'[n], j) = At(rx_qubits[n], j)
                        /\ At(rx_queue'[n], j) = At(rx_queue[n], j)
      OBVIOUS
    <3>1. At(Append(rx_qubits[n], item), j) = At(rx_qubits[n], j)
      BY <1>5, <2>2, AtAppend
    <3>2. At(Append(rx_queue[n], item), j) = At(rx_queue[n], j)
      BY <1>5, <2>2, AtAppend
    <3>3. known => At([rx_qubits[n] EXCEPT ![s] = up], j) = At(rx_qubits[n], j)
      <4> SUFFICES ASSUME known
                   PROVE  At([rx_qubits[n] EXCEPT ![s] = up], j) = At(rx_qubits[n], j)
        OBVIOUS
      <4>1. PICK k \in 1..Len(rx_qubits[n]) : k = s /\ rx_qubits[n][k].id # j /\ up.id # j
        BY <2>4, <2>5
      <4> QED
        BY <1>5, <4>1, AtExcept
    <3> QED
      BY <2>8, <3>1, <3>2, <3>3
  <2>13. \A j \in Id : j # id => OpOK(j)'
    <3>1. \A e \in events' : e \in events \/ e.id = id
      BY <2>7, <2>9
    <3> QED
      BY <2>8, <2>9, <2>10, <2>12, <3>1, FrameOthers DEF OnlyAt
  <2>14. /\ Tx(id)' = Tx(id) /\ Msgs(id)' = {}
         /\ Evs(id)' = Evs(id) \cup (IF known \/ room THEN {ev} ELSE {})
         /\ \A r \in Node : Kept(r, id)' = Kept(r, id)
         /\ \A r \in Node : r # n => Rx(r, id)' = Rx(r, id) /\ Queued(r, id)' = {}
    <3>1. Msgs(id)' = {p \in net' : p.id = id} /\ Evs(id)' = {e \in events' : e.id = id}
      BY ViewsNext
    <3>2. Msgs(id)' = {}
      BY <1>3, <2>9, <3>1 DEF Msgs
    <3>3. Evs(id)' = Evs(id) \cup (IF known \/ room THEN {ev} ELSE {})
      BY <2>7, <2>9, <3>1 DEF Evs
    <3>4. Tx(id)' = Tx(id) /\ \A r \in Node : Kept(r, id)' = Kept(r, id)
      BY <2>9, ViewsNext DEF Tx, Kept
    <3>5. \A r \in Node : r # n => Rx(r, id)' = Rx(r, id) /\ Queued(r, id)' = Queued(r, id)
      BY <2>8, ViewsNext DEF Rx, Queued, OnlyAt
    <3> QED
      BY <1>3, <3>2, <3>3, <3>4, <3>5
  <2>15. Holding(id) /\ Agreed(id, m.protocol, n)
    BY <1>2, <1>4 DEF QubitOK
  <2>16. Holding(id)' /\ Agreed(id, m.protocol, n)'
    BY <1>4, <2>7, <2>14, <2>15 DEF Holding, Open, Idle, Agreed
  <2>17. RecordOK(id, n, item)'
    BY <1>4, <2>2, <2>14, <2>15 DEF RecordOK, Agreed
  <2>18. \A it \in Rx(n, id)' : RecordOK(id, n, it)'
    <3> SUFFICES ASSUME NEW it \in Rx(n, id)' PROVE RecordOK(id, n, it)'
      OBVIOUS
    <3>1. it \in At(rx_qubits'[n], id)
      BY ViewsNext
    <3>2. CASE it \in Rx(n, id)
      <4>1. RecordOK(id, n, it)
        BY <1>4, <3>2 DEF PlacesOK
      <4> QED
        BY <2>14, <4>1 DEF RecordOK
    <3>3. CASE it = item
      BY <2>17, <3>3
    <3>4. CASE known /\ it = up
      <4>1. RecordOK(id, n, rx_qubits[n][s])
        BY <1>4, <2>4, <3>4 DEF PlacesOK
      <4> QED
        BY <2>5, <2>14, <3>4, <4>1 DEF RecordOK
    <3>5. known => \A jt \in At([rx_qubits[n] EXCEPT ![s] = up], id) : jt \in Rx(n, id) \/ jt = up
      <4> SUFFICES ASSUME known, NEW jt \in At([rx_qubits[n] EXCEPT ![s] = up], id)
                   PROVE  jt \in Rx(n, id) \/ jt = up
        OBVIOUS
      <4>1. PICK k \in 1..Len(rx_qubits[n]) : k = s
        BY <2>4
      <4>2. jt \in At([rx_qubits[n] EXCEPT ![k] = up], id)
        BY <4>1
      <4>3. jt \in At(rx_qubits[n], id) \/ jt = up
        BY <1>5, <4>2, InExcept
      <4> QED
        BY <4>3 DEF Rx
    <3>6. At(Append(rx_qubits[n], item), id) = Rx(n, id) \cup {item}
      BY <1>5, <2>2, AtAppend DEF Rx
    <3> QED
      BY <2>8, <3>1, <3>2, <3>3, <3>4, <3>5, <3>6 DEF Rx
  <2>19. known \/ room => Rx(n, id)' # {}
    <3>1. known => up \in At([rx_qubits[n] EXCEPT ![s] = up], id)
      BY <1>5, <2>4, <2>5, AtExcept
    <3>2. At(Append(rx_qubits[n], item), id) = Rx(n, id) \cup {item}
      BY <1>5, <2>2, AtAppend DEF Rx
    <3> QED
      BY <2>8, <3>1, <3>2, ViewsNext
  <2>20. ~(known \/ room) => Rx(n, id)' = {}
    BY <1>6, <2>8, ViewsNext DEF Rx
  <2>21. Queued(n, id)' = IF known \/ room THEN {} ELSE {item}
    <3>1. At(Append(rx_queue[n], item), id) = Queued(n, id) \cup {item}
      BY <1>5, <2>2, AtAppend DEF Queued
    <3> QED
      BY <1>3, <2>8, <3>1, ViewsNext DEF Queued
  <2>22. DrivenOK(id)'
    <3>1. ASSUME NEW e \in Evs(id)'
          PROVE  EventOK(id, e)'
      <4>1. CASE e \in Evs(id)
        <5>1. ~IsDriver(e) /\ EventOK(id, e)
          BY <1>2, <1>3, <4>1, OpFacts DEF DrivenOK
        <5> QED
          BY <2>14, <5>1 DEF EventOK, IsDriver, Idle
      <4>2. CASE e = ev /\ (known \/ room)
        BY <1>4, <2>7, <2>16, <2>19, <4>2 DEF EventOK, Agreed
      <4> QED
        BY <2>14, <3>1, <4>1, <4>2
    <3>2. ASSUME NEW r \in Node, NEW it \in Queued(r, id)'
          PROVE  QueuedOK(id, r, it)'
      <4>1. r = n /\ it = item /\ ~(known \/ room)
        BY <2>14, <2>21, <3>2
      <4>2. OneQubit => NoRx(id)'
        BY <1>4, <2>14, <2>20, <4>1 DEF QubitOK, NoRx
      <4> QED
        BY <2>2, <2>16, <2>17, <4>1, <4>2 DEF QueuedOK
    <3> QED
      BY <2>14, <3>1, <3>2 DEF DrivenOK
  <2>23. PlacesOK(id)'
    <3>1. \A r \in Node : \A it \in Rx(r, id)' : RecordOK(id, r, it)'
      <4> SUFFICES ASSUME NEW r \in Node, r # n, NEW it \in Rx(r, id)'
                   PROVE  RecordOK(id, r, it)'
        BY <2>18
      <4>1. RecordOK(id, r, it)
        BY <1>4, <2>14 DEF PlacesOK
      <4> QED
        BY <2>14, <4>1 DEF RecordOK
    <3>2. \A r \in Node : \A k \in Kept(r, id)' : KeptOK(id, r, k)'
      BY <1>4, <2>14 DEF PlacesOK, KeptOK, RecordOK
    <3>3. AtMostOne(Kept(id[1], id))'
      BY <1>4, <2>14 DEF PlacesOK, AtMostOne
    <3>4. OneQubit => \A r, q \in Node : Rx(r, id)' # {} /\ Rx(q, id)' # {} => r = q
      BY <1>4, <2>14 DEF QubitOK, NoRx
    <3> QED
      BY <3>1, <3>2, <3>3, <3>4 DEF PlacesOK
  <2>24. KeysOK(id)'
    <3>1. ~Untouched(id)
      BY <1>3 DEF Untouched
    <3>2. OneQubit => \A r \in Node : Rx(r, id)' # {} \/ Queued(r, id)' # {} => id \in data'[r]
      BY <1>4, <1>6, <2>10, <2>11, <2>14 DEF KeysOK, QubitOK, NoRx
    <3> QED
      BY <1>2, <1>4, <2>9, <2>10, <2>14, <3>1, <3>2, KeysNext
  <2>25. \A r \in Node : SenderOK(r)'
    BY <2>9, <2>10, SenderFrame DEF OInv, SenderOK
  <2> QED
    BY <2>9, <2>13, <2>22, <2>23, <2>24, <2>25 DEF OInv, OpOK
<1> QED
  BY <1>1, <1>7, <1>8

\* The lists of every node, as they were.
SameLists(f, g) == DOMAIN g = DOMAIN f /\ \A r \in Node : g[r] = f[r]

\* The receiver's result arrives at the sender: a telegate starts its local gate,
\* a teledata is corrected, acknowledged and released.
AtSenderStep(n, id, m, k, it, ev, awk) ==
  /\ m.type = "Classical" /\ m.dst = n /\ m.id = id /\ id[1] = n
  /\ it.id = id /\ it.peer = tx_qubits[n][k].peer
  /\ it.protocol = tx_qubits[n][k].protocol /\ it.x = m.x
  /\ it.operating = (m.protocol = "telegate" \/ tx_qubits[n][k].operating)
  /\ it.z = m.z
  /\ ev.id = id /\ ev.node = n /\ ev.sender = TRUE
  /\ ev.fn = IF m.protocol = "telegate" THEN "LocalGate" ELSE "ReleaseQubit"
  /\ awk.id = id /\ awk.type = "AWK" /\ awk.protocol = m.protocol
  /\ TxUpdate(n, k, it)
  /\ SameLists(rx_qubits, rx_qubits')
  /\ UNCHANGED <<msg_count, tx_queue, rx_queue, data, failed>>
  /\ OnlyAt(n, storage, storage') /\ At(storage'[n], id) \subseteq At(storage[n], id)
  /\ \A j : j # id => At(storage'[n], j) = At(storage[n], j)
  /\ net' = (net \ {m}) \cup IF m.protocol = "telegate" THEN {} ELSE {awk}
  /\ events' = events \cup {ev}

LEMMA ClassicalAtSender ==
  ASSUME OInv, DInv', NEW n \in Node, NEW id \in Id, NEW m \in net,
         NEW k, NEW it, NEW ev, NEW awk,
         AtSenderStep(n, id, m, k, it, ev, awk)
  PROVE  OInv'
<1>a. m.type = "Classical" /\ m.dst = n /\ m.id = id /\ id[1] = n
  BY DEF AtSenderStep
<1>b. /\ k \in 1..Len(tx_qubits[n]) /\ tx_qubits[n][k].id = id /\ it.id = id /\ it.peer = tx_qubits[n][k].peer
      /\ it.protocol = tx_qubits[n][k].protocol /\ it.x = m.x
      /\ it.operating = (m.protocol = "telegate" \/ tx_qubits[n][k].operating)
  BY DEF AtSenderStep, TxUpdate
<1>c. /\ ev.id = id /\ ev.node = n /\ ev.sender = TRUE
      /\ ev.fn = IF m.protocol = "telegate" THEN "LocalGate" ELSE "ReleaseQubit"
      /\ awk.id = id /\ awk.type = "AWK" /\ awk.protocol = m.protocol
  BY DEF AtSenderStep
<1>d. TxUpdate(n, k, it)
  BY DEF AtSenderStep
<1>e. /\ SameLists(rx_qubits, rx_qubits')
      /\ UNCHANGED <<msg_count, tx_queue, rx_queue, data, failed>>
      /\ OnlyAt(n, storage, storage') /\ At(storage'[n], id) \subseteq At(storage[n], id)
      /\ \A j : j # id => At(storage'[n], j) = At(storage[n], j)
  BY DEF AtSenderStep
<1>f. /\ net' = (net \ {m}) \cup IF m.protocol = "telegate" THEN {} ELSE {awk}
      /\ events' = events \cup {ev}
  BY DEF AtSenderStep
<1>1. /\ Msgs(id) = {m} /\ \A e \in Evs(id) : ~IsDriver(e)
      /\ \A r \in Node : Queued(r, id) = {}
  BY <1>a, AlonePacket
<1>2. /\ MeasuredOK(id, m.src, m.protocol) /\ m.x = TRUE
      /\ KeysOK(id) /\ PlacesOK(id) /\ m.src \in Node
  <2>1. MessageOK(id, m)
    BY <1>1, OpFacts DEF DrivenOK
  <2>2. m.src \in Node
    BY ArrivedId, MessageFields DEF OInv, DInv
  <2> QED
    BY <1>a, <2>1, <2>2, OpFacts DEF MessageOK
<1>3. Holding(id) /\ Agreed(id, m.protocol, m.src) /\ Evs(id) = {} /\ Kept(n, id) = {}
  BY <1>1, <1>2, <1>a DEF MeasuredOK, Holding, Open
<1>4. PICK t : t = tx_qubits[n][k]
  OBVIOUS
<1>5. t \in Tx(id) /\ t.protocol = m.protocol /\ Peers[n][t.peer] = m.src /\ t.operating = FALSE
  <2>1. t \in Tx(id)
    BY <1>4, <1>a, <1>b, NodeLists, DomainOfSeq, AtIs DEF Tx, OInv, DInv
  <2> QED
    BY <1>3, <1>a, <2>1 DEF Holding, Idle, Agreed
<1>6. /\ Tx(id)' = {it} /\ OnlyAt(n, tx_qubits, tx_qubits')
      /\ \A j : j # id => At(tx_qubits'[n], j) = At(tx_qubits[n], j)
  <2>1. /\ it.id[1] = n => Tx(it.id)' = {it}
        /\ OnlyAt(n, tx_qubits, tx_qubits')
        /\ \A j : j # it.id => At(tx_qubits'[n], j) = At(tx_qubits[n], j)
    BY <1>d, TxChanged
  <2>2. it.id = id /\ id[1] = n
    BY <1>a, <1>b
  <2> QED
    BY <2>1, <2>2
<1>7. Msgs(id)' = IF m.protocol = "telegate" THEN {} ELSE {awk}
  <2>1. Msgs(id)' = {p \in net' : p.id = id}
    BY ViewsNext
  <2> QED
    BY <1>1, <1>c, <1>f, <2>1 DEF Msgs
<1>8. Evs(id)' = {ev}
  <2>1. Evs(id)' = {e \in events' : e.id = id}
    BY ViewsNext
  <2> QED
    BY <1>3, <1>c, <1>f, <2>1 DEF Evs
<1>9. \A r \in Node : Rx(r, id)' = Rx(r, id) /\ Queued(r, id)' = {}
  <2>1. \A r \in Node : Rx(r, id)' = Rx(r, id) /\ Queued(r, id)' = Queued(r, id)
    BY <1>e, ViewsNext DEF Rx, Queued, SameLists
  <2> QED
    BY <1>1, <2>1
<1>10. Kept(n, id)' = {} /\ \A r \in Node : r # n => Kept(r, id)' = Kept(r, id)
  <2>1. Kept(n, id)' = {}
    BY <1>3, <1>e, ViewsNext DEF Kept
  <2>2. \A r \in Node : r # n => Kept(r, id)' = Kept(r, id)
    BY <1>e, ViewsNext DEF Kept, OnlyAt
  <2> QED
    BY <2>1, <2>2
<1>11. Alike(Tx(id)', Tx(id))
  BY <1>4, <1>5, <1>6, <1>b DEF Alike
<1>12. DrivenOK(id)'
  <2>1. CASE m.protocol = "telegate"
    <3>1. ev.fn = "LocalGate" /\ IsDriver(ev)
      BY <1>c, <2>1 DEF IsDriver
    <3>2. Open(id)'
      BY <1>6, <1>8, <1>10, <1>a, <3>1 DEF Open
    <3>3. it.protocol = "telegate" /\ it.x = TRUE /\ it.operating = TRUE
          /\ Peers[n][it.peer] = m.src
      BY <1>2, <1>4, <1>5, <1>b, <2>1
    <3>4. OneQubit => Rx(m.src, id)' # {}
      BY <1>2, <1>9, <2>1 DEF MeasuredOK
    <3>5. EventOK(id, ev)'
      BY <1>6, <1>a, <1>c, <3>1, <3>2, <3>3, <3>4 DEF EventOK
    <3> QED
      BY <1>7, <1>8, <1>9, <2>1, <3>5 DEF DrivenOK
  <2>2. CASE m.protocol # "telegate"
    <3>1. ev.fn = "ReleaseQubit" /\ ~IsDriver(ev)
      BY <1>c, <2>2 DEF IsDriver
    <3>2. Idle(id)'
      BY <1>4, <1>5, <1>6, <1>b, <2>2 DEF Idle
    <3>3. EventOK(id, ev)'
      BY <1>6, <1>a, <1>c, <3>1, <3>2 DEF EventOK
    <3>4. AwkOK(id, awk)'
      BY <1>7, <1>8, <1>9, <1>c, <2>2, <3>1 DEF AwkOK
    <3>5. MessageOK(id, awk)'
      BY <1>c, <3>4 DEF MessageOK
    <3> QED
      BY <1>7, <1>8, <1>9, <2>2, <3>3, <3>5 DEF DrivenOK
  <2> QED
    BY <2>1, <2>2
<1>13. PlacesOK(id)'
  <2>1. AtMostOne(Kept(id[1], id)')
    BY <1>10, <1>a DEF AtMostOne
  <2>2. \A r \in Node : \A s \in Kept(r, id)' : s \in Kept(r, id)
    BY <1>10
  <2> QED
    BY <1>2, <1>9, <1>11, <2>1, <2>2, AlikeRefl, PlacesNext
<1>14. KeysOK(id)'
  <2>1. ~Untouched(id)
    BY <1>1 DEF Untouched
  <2>2. OneQubit => \A r \in Node : Rx(r, id)' # {} \/ Queued(r, id)' # {} => id \in data'[r]
    BY <1>1, <1>2, <1>9, <1>e DEF KeysOK
  <2> QED
    BY <1>2, <1>5, <1>e, <2>1, <2>2, KeysNext
<1>15. \A j \in Id : j # id => OpOK(j)'
  <2>1. OnlyAt(n, rx_qubits, rx_qubits') /\ OnlyAt(n, rx_queue, rx_queue')
    BY <1>e, NodeLists DEF OnlyAt, SameLists, OInv, DInv
  <2>2. (\A p \in net' : p \in net \/ p.id = id) /\ (\A e \in events' : e \in events \/ e.id = id)
    BY <1>c, <1>f
  <2>3. \A j : j # id => /\ At(tx_qubits'[n], j) = At(tx_qubits[n], j)
                          /\ At(rx_qubits'[n], j) = At(rx_qubits[n], j)
                          /\ At(rx_queue'[n], j) = At(rx_queue[n], j)
                          /\ At(storage'[n], j) = At(storage[n], j)
    BY <1>6, <1>e DEF SameLists
  <2>4. \A r \in Node : \A j \in data[r] : j # id => j \in data'[r]
    BY <1>e
  <2> QED
    BY <1>6, <1>e, <2>1, <2>2, <2>3, <2>4, FrameOthers
<1>16. \A r \in Node : SenderOK(r)'
  BY <1>d, <1>e, SenderChanged
<1> QED
  BY <1>12, <1>13, <1>14, <1>15, <1>16, <1>e DEF OInv, OpOK

\* What the handler of result m does at the receiver of operation id.
AtReceiverStep(n, id, m, k, it, ev, awk) ==
  /\ m.type = "Classical" /\ m.dst = n /\ m.id = id /\ id[1] # n
  /\ it.id = id /\ RxUpdate(n, k, it)
  /\ it.x = m.x /\ it.z = m.z
  /\ it.operating = rx_qubits[n][k].operating /\ it.has_qubit = rx_qubits[n][k].has_qubit
  /\ ev.id = id /\ ev.node = n /\ ev.sender = FALSE /\ ev.fn = "ReleaseQubit"
  /\ awk.id = id /\ awk.type = "AWK" /\ awk.protocol = m.protocol
  /\ awk.dst = Peers[n][it.peer]
  /\ SameLists(tx_qubits, tx_qubits')
  /\ UNCHANGED <<msg_count, tx_queue, rx_queue, data, failed>>
  /\ OnlyAt(n, storage, storage') /\ At(storage'[n], id) \subseteq At(storage[n], id)
  /\ \A j : j # id => At(storage'[n], j) = At(storage[n], j)
  /\ net' = (net \ {m}) \cup {awk}
  /\ events' = events \cup {ev}

\* The sender's result arrives at the receiver of a telegate: it is corrected,
\* acknowledged and released.
LEMMA ClassicalAtReceiver ==
  ASSUME OInv, DInv', NEW n \in Node, NEW id \in Id, NEW m \in net,
         NEW k, NEW it, NEW ev, NEW awk,
         AtReceiverStep(n, id, m, k, it, ev, awk)
  PROVE  OInv'
<1>a. m.type = "Classical" /\ m.dst = n /\ m.id = id /\ id[1] # n
  BY DEF AtReceiverStep
<1>b. RxUpdate(n, k, it) /\ it.id = id /\ awk.dst = Peers[n][it.peer]
  BY DEF AtReceiverStep
<1>c. /\ ev.id = id /\ ev.node = n /\ ev.sender = FALSE /\ ev.fn = "ReleaseQubit"
      /\ awk.id = id /\ awk.type = "AWK" /\ awk.protocol = m.protocol
  BY DEF AtReceiverStep
<1>e. /\ SameLists(tx_qubits, tx_qubits')
      /\ UNCHANGED <<msg_count, tx_queue, rx_queue, data, failed>>
      /\ OnlyAt(n, storage, storage') /\ At(storage'[n], id) \subseteq At(storage[n], id)
      /\ \A j : j # id => At(storage'[n], j) = At(storage[n], j)
  BY DEF AtReceiverStep
<1>f. net' = (net \ {m}) \cup {awk} /\ events' = events \cup {ev}
  BY DEF AtReceiverStep
<1>1. /\ Msgs(id) = {m} /\ \A e \in Evs(id) : ~IsDriver(e)
      /\ \A r \in Node : Queued(r, id) = {}
  BY <1>a, AlonePacket
<1>2. ResultOK(id, m) /\ KeysOK(id) /\ PlacesOK(id) /\ id[1] \in Node
  <2>1. MessageOK(id, m)
    BY <1>1, OpFacts DEF DrivenOK
  <2> QED
    BY <1>a, <2>1, OpFacts DEF MessageOK
<1>3. /\ \A r \in Node : Alike(Rx(r, id)', Rx(r, id)) /\ (Rx(r, id) # {} => Rx(r, id)' # {})
      /\ rx_qubits[n][k] \in Rx(n, id) /\ OnlyAt(n, rx_qubits, rx_qubits')
      /\ \A j : j # id => At(rx_qubits'[n], j) = At(rx_qubits[n], j)
  <2>1. /\ \A r \in Node : Alike(Rx(r, it.id)', Rx(r, it.id))
                           /\ (Rx(r, it.id) # {} => Rx(r, it.id)' # {})
        /\ rx_qubits[n][k] \in Rx(n, it.id) /\ OnlyAt(n, rx_qubits, rx_qubits')
        /\ \A j : j # it.id => At(rx_qubits'[n], j) = At(rx_qubits[n], j)
    BY <1>b, RxChanged
  <2>2. it.id = id
    BY <1>b
  <2> QED
    BY <2>1, <2>2
<1>4. awk.dst = id[1]
  <2>1. PICK old : old = rx_qubits[n][k] /\ old.peer = it.peer
    BY <1>b DEF RxUpdate
  <2>2. old \in Rx(n, id)
    BY <1>3, <2>1
  <2>3. RecordOK(id, n, old)
    BY <1>2, <2>2 DEF PlacesOK
  <2> QED
    BY <1>b, <2>1, <2>3 DEF RecordOK
<1>5. Tx(id)' = Tx(id) /\ \A r \in Node : Queued(r, id)' = {}
  <2>1. Tx(id)' = Tx(id) /\ \A r \in Node : Queued(r, id)' = Queued(r, id)
    BY <1>2, <1>e, ViewsNext DEF Tx, Queued, SameLists
  <2> QED
    BY <1>1, <2>1
<1>6. Kept(n, id)' \subseteq Kept(n, id) /\ \A r \in Node : r # n => Kept(r, id)' = Kept(r, id)
  <2>1. Kept(n, id)' \subseteq Kept(n, id)
    BY <1>e, ViewsNext DEF Kept
  <2>2. \A r \in Node : r # n => Kept(r, id)' = Kept(r, id)
    BY <1>e, ViewsNext DEF Kept, OnlyAt
  <2> QED
    BY <2>1, <2>2
<1>7. Msgs(id)' = {awk}
  <2>1. Msgs(id)' = {p \in net' : p.id = id}
    BY ViewsNext
  <2> QED
    BY <1>1, <1>c, <1>f, <2>1 DEF Msgs
<1>8. Evs(id)' = Evs(id) \cup {ev}
  <2>1. Evs(id)' = {e \in events' : e.id = id}
    BY ViewsNext
  <2> QED
    BY <1>c, <1>f, <2>1 DEF Evs
<1>9. Kept(id[1], id)' = Kept(id[1], id)
  BY <1>2, <1>6, <1>a
<1>10. DrivenOK(id)'
  <2>1. ASSUME NEW e \in Evs(id)
        PROVE  EventOK(id, e)' /\ e.fn = "ReleaseQubit"
    <3>1. ~IsDriver(e) /\ EventOK(id, e)
      BY <1>1, <2>1, OpFacts DEF DrivenOK
    <3> QED
      BY <1>5, <3>1 DEF EventOK, IsDriver, Idle
  <2>2. EventOK(id, ev)'
    BY <1>2, <1>3, <1>a, <1>c DEF EventOK, IsDriver, ResultOK
  <2>3. MessageOK(id, awk)'
    <3>1. AwkOK(id, awk)'
      BY <1>2, <1>4, <1>5, <1>7, <1>8, <1>9, <1>c, <2>1 DEF AwkOK, ResultOK
    <3> QED
      BY <1>c, <3>1 DEF MessageOK
  <2> QED
    BY <1>5, <1>7, <1>8, <2>1, <2>2, <2>3 DEF DrivenOK
<1>11. PlacesOK(id)'
  <2>1. AtMostOne(Kept(id[1], id)')
    BY <1>2, <1>9 DEF PlacesOK
  <2>2. \A r \in Node : \A s \in Kept(r, id)' : s \in Kept(r, id)
    BY <1>6
  <2>3. Alike(Tx(id)', Tx(id))
    BY <1>5, AlikeRefl
  <2> QED
    BY <1>2, <1>3, <2>1, <2>2, <2>3, PlacesNext
<1>12. KeysOK(id)'
  <2>1. ~Untouched(id)
    BY <1>1 DEF Untouched
  <2>2. OneQubit => \A r \in Node : Rx(r, id)' # {} \/ Queued(r, id)' # {} => id \in data'[r]
    BY <1>2, <1>3, <1>5, <1>e DEF KeysOK, Alike
  <2> QED
    BY <1>2, <1>5, <1>e, <2>1, <2>2, KeysNext
<1>13. \A j \in Id : j # id => OpOK(j)'
  <2>1. OnlyAt(n, tx_qubits, tx_qubits') /\ OnlyAt(n, rx_queue, rx_queue')
    BY <1>e, NodeLists DEF OnlyAt, SameLists, OInv, DInv
  <2>2. (\A p \in net' : p \in net \/ p.id = id) /\ (\A e \in events' : e \in events \/ e.id = id)
    BY <1>c, <1>f
  <2>3. \A j : j # id => /\ At(tx_qubits'[n], j) = At(tx_qubits[n], j)
                          /\ At(rx_qubits'[n], j) = At(rx_qubits[n], j)
                          /\ At(rx_queue'[n], j) = At(rx_queue[n], j)
                          /\ At(storage'[n], j) = At(storage[n], j)
    BY <1>3, <1>e DEF SameLists
  <2>4. \A r \in Node : \A j \in data[r] : j # id => j \in data'[r]
    BY <1>e
  <2> QED
    BY <1>3, <1>e, <2>1, <2>2, <2>3, <2>4, FrameOthers
<1>14. \A r \in Node : SenderOK(r)'
  BY <1>e, SenderFrame DEF OInv, SenderOK, SameLists
<1> QED
  BY <1>10, <1>11, <1>12, <1>13, <1>14, <1>e DEF OInv, OpOK

\* What the handler of a result does, at the sender or at the receiver.
LEMMA ClassicalSteps ==
  ASSUME OInv, NEW n \in Node, NEW id, ReceiveClassical(n, id)
  PROVE  \/ ~OneQubit /\ Abort("ReceiveClassical")
         \/ /\ id \in Id
            /\ \E m \in net : \E k, it, ev, awk :
                 \/ AtSenderStep(n, id, m, k, it, ev, awk)
                 \/ AtReceiverStep(n, id, m, k, it, ev, awk)
<1> DEFINE atReceiver == Has(rx_qubits[n], id)
           atSender == ~atReceiver /\ Has(tx_qubits[n], id)
           item == rx_qubits[n][Slot(rx_qubits[n], id)]
           local(m) == atSender /\ m.protocol = "telegate"
           event(m) == [fn |-> IF local(m) THEN "LocalGate" ELSE "ReleaseQubit",
                        node |-> n, id |-> id, sender |-> atSender]
           ack(m) == Packet("AWK", n, AckPeer(atSender, item), id, m.protocol, FALSE, FALSE)
           Good(m) == \/ local(m)
                      \/ atSender /\ m.x /\ m.z /\ id \in data[n]
                      \/ atReceiver /\ m.protocol = "telegate" /\ m.z /\ id \in data[n]
           Taken(m) ==
             /\ rx_qubits' = [rx_qubits EXCEPT ![n] =
                  IF atReceiver THEN WithResults(rx_qubits[n], id, m.x, m.z) ELSE rx_qubits[n]]
             /\ tx_qubits' = [tx_qubits EXCEPT ![n] =
                  IF local(m)
                  THEN [WithResults(tx_qubits[n], id, m.x, m.z)
                          EXCEPT ![Slot(tx_qubits[n], id)].operating = TRUE]
                  ELSE IF atSender THEN WithResults(tx_qubits[n], id, m.x, m.z)
                  ELSE tx_qubits[n]]
             /\ events' = events \cup {event(m)}
             /\ net' = (net \ {m}) \cup (IF local(m) THEN {} ELSE {ack(m)})
             /\ storage' = [storage EXCEPT ![n] =
                  IF local(m) THEN storage[n] ELSE WithoutClassic(storage[n], id)]
             /\ UNCHANGED <<sock, msg_count, tx_queue, rx_queue, data, failed>>
<1>1. PICK m \in net : /\ Arrives(m, "Classical", n, id)
                       /\ \/ Good(m) /\ Taken(m)
                          \/ ~Good(m) /\ Abort("ReceiveClassical")
  BY DEF ReceiveClassical
<1>2. m.type = "Classical" /\ m.dst = n /\ m.id = id /\ id \in Id
  BY <1>1, ArrivedId DEF Arrives, OInv, DInv
<1>3. /\ rx_qubits[n] \in Seq(Item(n)) /\ tx_qubits[n] \in Seq(Item(n))
      /\ storage[n] \in Seq(Item(n))
      /\ n \in DOMAIN rx_qubits /\ n \in DOMAIN tx_qubits /\ n \in DOMAIN storage
  BY NodeLists DEF OInv, DInv
<1>4. MessageOK(id, m)
  <2>1. Msgs(id) = {m}
    BY <1>2, AlonePacket
  <2> QED
    BY <1>2, <2>1, OpFacts DEF DrivenOK
<1>5. m.protocol \in {"teledata", "telegate"}
  <2>1. m.protocol \in Protocols
    BY ArrivedId, MessageFields DEF OInv, DInv
  <2> QED
    BY <2>1, ParametersAssumption
<1>6. /\ OnlyAt(n, storage, [storage EXCEPT ![n] = WithoutClassic(storage[n], id)])
      /\ OnlyAt(n, storage, storage)
      /\ [storage EXCEPT ![n] = WithoutClassic(storage[n], id)][n] = WithoutClassic(storage[n], id)
      /\ At(WithoutClassic(storage[n], id), id) \subseteq At(storage[n], id)
      /\ \A j : j # id => At(WithoutClassic(storage[n], id), j) = At(storage[n], j)
  BY <1>3, AtWithoutClassic, OnlyAtExcept
<1>7. CASE id[1] = n
  <2>1. MeasuredOK(id, m.src, m.protocol) /\ m.x = TRUE /\ m.z = (m.protocol = "teledata")
    BY <1>2, <1>4, <1>7 DEF MessageOK
  <2>2. ~atReceiver /\ atSender /\ id \in data[n]
    <3>1. Rx(id[1], id) = {} /\ Tx(id) # {} /\ KeysOK(id)
      BY <1>2, <2>1, OpFacts DEF MeasuredOK, Holding, Open
    <3>2. Rx(n, id) = {} /\ At(tx_qubits[n], id) # {} /\ id \in data[n]
      BY <1>7, <3>1 DEF Tx, KeysOK
    <3> QED
      BY <3>2, AtIs DEF Rx
  <2>3. Good(m)
    BY <1>5, <2>1, <2>2
  <2>4. Taken(m)
    BY <1>1, <2>3
  <2>5. PICK k : k = Slot(tx_qubits[n], id)
    OBVIOUS
  <2>6. k \in 1..Len(tx_qubits[n]) /\ tx_qubits[n][k].id = id /\ tx_qubits[n][k] \in Item(n)
    BY <1>3, <2>2, <2>5, SlotAt
  <2>7. PICK old \in Item(n) : old = tx_qubits[n][k]
    BY <2>6
  <2>8. PICK it : it = IF m.protocol = "telegate"
                       THEN [old EXCEPT !.x = m.x, !.z = m.z, !.operating = TRUE]
                       ELSE [old EXCEPT !.x = m.x, !.z = m.z]
    OBVIOUS
  <2>9. /\ it.id = old.id /\ it.peer = old.peer /\ it.protocol = old.protocol
        /\ it.x = m.x /\ it.z = m.z
        /\ it.operating = (m.protocol = "telegate" \/ old.operating)
    BY <2>7, <2>8 DEF Item
  <2>10. TxUpdate(n, k, it)
    <3>1. tx_qubits' = [tx_qubits EXCEPT ![n] =
                  IF m.protocol = "telegate"
                  THEN [WithResults(tx_qubits[n], id, m.x, m.z) EXCEPT ![k].operating = TRUE]
                  ELSE WithResults(tx_qubits[n], id, m.x, m.z)]
      BY <2>2, <2>4, <2>5
    <3>2. WithResults(tx_qubits[n], id, m.x, m.z)
            = [tx_qubits[n] EXCEPT ![k] = [old EXCEPT !.x = m.x, !.z = m.z]]
      BY <2>2, <2>5, <2>6, <2>7 DEF WithResults
    <3>3. [[tx_qubits[n] EXCEPT ![k] = [old EXCEPT !.x = m.x, !.z = m.z]] EXCEPT ![k].operating = TRUE]
            = [tx_qubits[n] EXCEPT ![k] = [old EXCEPT !.x = m.x, !.z = m.z, !.operating = TRUE]]
      BY <1>3, <2>6, DomainOfSeq
    <3>4. tx_qubits' = [tx_qubits EXCEPT ![n] = [tx_qubits[n] EXCEPT ![k] = it]]
      BY <2>8, <3>1, <3>2, <3>3
    <3> QED
      BY <2>6, <2>7, <2>9, <3>4 DEF TxUpdate
  <2>11. PICK ev, awk : ev = event(m) /\ awk = ack(m)
    OBVIOUS
  <2>12. /\ ev.id = id /\ ev.node = n /\ ev.sender = TRUE
         /\ ev.fn = IF m.protocol = "telegate" THEN "LocalGate" ELSE "ReleaseQubit"
         /\ awk.id = id /\ awk.type = "AWK" /\ awk.protocol = m.protocol
    BY <2>2, <2>11 DEF Packet
  <2>13. /\ net' = (net \ {m}) \cup IF m.protocol = "telegate" THEN {} ELSE {awk}
         /\ events' = events \cup {ev}
         /\ SameLists(rx_qubits, rx_qubits')
         /\ UNCHANGED <<msg_count, tx_queue, rx_queue, data, failed>>
    <3>1. rx_qubits' = [rx_qubits EXCEPT ![n] = rx_qubits[n]]
      BY <2>2, <2>4
    <3>2. SameLists(rx_qubits, rx_qubits')
      BY <3>1, NodeLists DEF OInv, DInv, SameLists
    <3> QED
      BY <2>2, <2>4, <2>11, <3>2
  <2>14. /\ OnlyAt(n, storage, storage') /\ At(storage'[n], id) \subseteq At(storage[n], id)
         /\ \A j : j # id => At(storage'[n], j) = At(storage[n], j)
    <3>1. storage' = IF m.protocol = "telegate" THEN [storage EXCEPT ![n] = storage[n]]
                     ELSE [storage EXCEPT ![n] = WithoutClassic(storage[n], id)]
      BY <2>2, <2>4
    <3>2. /\ OnlyAt(n, storage, [storage EXCEPT ![n] = storage[n]])
          /\ [storage EXCEPT ![n] = storage[n]][n] = storage[n]
      BY <1>3, OnlyAtExcept
    <3> QED
      BY <1>6, <3>1, <3>2
  <2> HIDE DEF Taken, Good, ack, event
  <2>15. AtSenderStep(n, id, m, k, it, ev, awk)
    BY <1>2, <1>7, <2>6, <2>7, <2>9, <2>10, <2>12, <2>13, <2>14 DEF AtSenderStep
  <2> QED
    BY <1>2, <2>15
<1>8. CASE id[1] # n
  <2>1. ResultOK(id, m) /\ ~atSender
    BY <1>2, <1>4, <1>8, OnlyOwnTx DEF MessageOK
  <2>2. m.protocol = "telegate" /\ m.z = TRUE
    BY <2>1 DEF ResultOK
  <2>3. CASE ~Good(m) /\ Abort("ReceiveClassical")
    <3>1. ~OneQubit
      <4>1. OneQubit => Rx(n, id) # {} /\ id \in data[n]
        BY <1>2, <2>1, OpFacts DEF ResultOK, KeysOK
      <4>2. OneQubit => atReceiver /\ id \in data[n]
        BY <4>1, AtIs DEF Rx
      <4> QED
        BY <2>2, <2>3, <4>2
    <3> QED
      BY <2>3, <3>1
  <2>4. CASE Good(m) /\ Taken(m)
    <3>1. atReceiver
      BY <2>1, <2>4
    <3>2. PICK k : k = Slot(rx_qubits[n], id)
      OBVIOUS
    <3>3. k \in 1..Len(rx_qubits[n]) /\ rx_qubits[n][k].id = id /\ rx_qubits[n][k] \in Item(n)
      BY <1>3, <3>1, <3>2, SlotAt
    <3>4. PICK old \in Item(n) : old = rx_qubits[n][k]
      BY <3>3
    <3>5. PICK it : it = [old EXCEPT !.x = m.x, !.z = m.z]
      OBVIOUS
    <3>6. /\ it.id = old.id /\ it.peer = old.peer /\ it.protocol = old.protocol
          /\ it.x = m.x /\ it.z = m.z
          /\ it.operating = old.operating /\ it.has_qubit = old.has_qubit
      BY <3>4, <3>5 DEF Item
    <3>7. RxUpdate(n, k, it)
      <4>1. rx_qubits' = [rx_qubits EXCEPT ![n] = WithResults(rx_qubits[n], id, m.x, m.z)]
        BY <2>4, <3>1
      <4>2. WithResults(rx_qubits[n], id, m.x, m.z) = [rx_qubits[n] EXCEPT ![k] = it]
        BY <3>1, <3>2, <3>3, <3>4, <3>5 DEF WithResults
      <4> QED
        BY <3>3, <3>4, <3>6, <4>1, <4>2 DEF RxUpdate
    <3>8. PICK ev, awk : ev = event(m) /\ awk = ack(m)
      OBVIOUS
    <3>9. /\ ev.id = id /\ ev.node = n /\ ev.sender = FALSE /\ ev.fn = "ReleaseQubit"
          /\ awk.id = id /\ awk.type = "AWK" /\ awk.protocol = m.protocol
          /\ awk.dst = Peers[n][old.peer]
      BY <2>1, <3>2, <3>4, <3>8 DEF Packet, AckPeer
    <3>10. /\ net' = (net \ {m}) \cup {awk} /\ events' = events \cup {ev}
           /\ SameLists(tx_qubits, tx_qubits')
           /\ UNCHANGED <<msg_count, tx_queue, rx_queue, data, failed>>
      <4>1. tx_qubits' = [tx_qubits EXCEPT ![n] = tx_qubits[n]]
        BY <2>1, <2>4
      <4>2. SameLists(tx_qubits, tx_qubits')
        BY <4>1, NodeLists DEF OInv, DInv, SameLists
      <4> QED
        BY <2>1, <2>4, <3>8, <4>2
    <3>11. /\ OnlyAt(n, storage, storage') /\ At(storage'[n], id) \subseteq At(storage[n], id)
           /\ \A j : j # id => At(storage'[n], j) = At(storage[n], j)
      <4>1. storage' = [storage EXCEPT ![n] = WithoutClassic(storage[n], id)]
        BY <2>1, <2>4
      <4> QED
        BY <1>6, <4>1
    <3> HIDE DEF Taken, Good, ack, event
    <3>12. AtReceiverStep(n, id, m, k, it, ev, awk)
      BY <1>2, <1>8, <3>3, <3>4, <3>6, <3>7, <3>9, <3>10, <3>11 DEF AtReceiverStep
    <3> QED
      BY <1>2, <3>12
  <2> QED
    BY <1>1, <2>3, <2>4
<1> QED
  BY <1>7, <1>8

LEMMA ReceiveClassicalOInv ==
  ASSUME OInv, DInv', NEW n \in Node, NEW id, ReceiveClassical(n, id)
  PROVE  OInv'
<1>1. CASE ~OneQubit /\ Abort("ReceiveClassical")
  BY <1>1, FewerOInv DEF Abort
<1>2. ASSUME id \in Id, NEW m \in net, NEW k, NEW it, NEW ev, NEW awk,
             \/ AtSenderStep(n, id, m, k, it, ev, awk)
             \/ AtReceiverStep(n, id, m, k, it, ev, awk)
      PROVE  OInv'
  BY <1>2, ClassicalAtSender, ClassicalAtReceiver
<1> QED
  BY <1>1, <1>2, ClassicalSteps

\* A packet is answered by another of the same operation, and nothing else changes.
LEMMA PacketSwapped ==
  ASSUME OInv, DInv', NEW m \in net, m.type # "AWK", NEW id, id = m.id,
         NEW packet, packet.id = id, packet.type # "AWK",
         packet.src \in Node, packet.dst \in Node, MessageOK(id, packet),
         net' = (net \ {m}) \cup {packet},
         UNCHANGED <<msg_count, held, data, events, failed>>
  PROVE  OInv'
<1>1. id \in Id
  BY ArrivedId DEF OInv, DInv
<1>2. /\ Msgs(id) = {m} /\ \A e \in Evs(id) : ~IsDriver(e)
      /\ \A r \in Node : Queued(r, id) = {}
  BY AlonePacket
<1>3. UNCHANGED <<tx_queue, tx_qubits, rx_queue, rx_qubits, storage>>
  BY DEF held
<1>4. /\ Tx(id)' = Tx(id) /\ Msgs(id)' = {packet} /\ Evs(id)' = Evs(id)
      /\ \A r \in Node : /\ Rx(r, id)' = Rx(r, id) /\ Queued(r, id)' = Queued(r, id)
                         /\ Kept(r, id)' = Kept(r, id)
  <2>1. Msgs(id)' = {p \in net' : p.id = id}
    BY ViewsNext
  <2>2. Msgs(id)' = {packet}
    BY <1>2, <2>1 DEF Msgs
  <2> QED
    BY <1>3, <2>2, ViewsNext DEF Tx, Rx, Queued, Kept, Evs
<1>5. /\ id[1] \in Node /\ KeysOK(id) /\ PlacesOK(id)
      /\ Tx(id) \subseteq Item(id[1]) /\ Kept(id[1], id) \subseteq Item(id[1])
  BY <1>1, OpFacts
<1>6. Kept(id[1], id)' = Kept(id[1], id)
  BY <1>4, <1>5
<1>7. (Open(id) => Open(id)') /\ (Idle(id) => Idle(id)') /\ (Holding(id) => Holding(id)')
      /\ (NoRx(id) => NoRx(id)')
  BY <1>4, <1>6 DEF Holding, Open, Idle, NoRx
<1>8. \A p, r : Agreed(id, p, r) => Agreed(id, p, r)'
  BY <1>4 DEF Agreed
<1>9. MessageOK(id, packet)'
  <2>1. packet.type = "Qubit" => QubitOK(id, packet)'
    BY <1>7, <1>8 DEF MessageOK, QubitOK
  <2>2. packet.type = "NACK" /\ packet.dst = id[1] => AskOK(id)'
    <3>1. \A s \in Kept(id[1], id) : Peers[id[1]][s.peer] \in Node
      BY <1>5, PeersFacts, ItemFields
    <3> QED
      BY <1>4, <1>6, <1>7, <3>1 DEF MessageOK, AskOK
  <2>3. ASSUME NEW r \in Node, NEW p, MeasuredOK(id, r, p)
        PROVE  MeasuredOK(id, r, p)'
    BY <1>4, <1>7, <1>8, <2>3 DEF MeasuredOK
  <2>4. packet.type = "Classical" /\ packet.dst # id[1] => ResultOK(id, packet)'
    BY <1>4, <1>6, <1>7 DEF MessageOK, ResultOK
  <2> QED
    BY <2>1, <2>2, <2>3, <2>4 DEF MessageOK
<1>10. ASSUME NEW e \in Evs(id)'
       PROVE  EventOK(id, e)'
  <2>1. ~IsDriver(e) /\ EventOK(id, e)
    BY <1>1, <1>2, <1>4, <1>10, OpFacts DEF DrivenOK
  <2> QED
    BY <1>4, <2>1 DEF EventOK, IsDriver, Idle
<1>11. DrivenOK(id)'
  BY <1>2, <1>4, <1>9, <1>10 DEF DrivenOK
<1>12. PlacesOK(id)'
  <2>1. AtMostOne(Kept(id[1], id)')
    BY <1>5, <1>6 DEF PlacesOK
  <2> QED
    BY <1>1, <1>4, <1>5, <2>1, AlikeRefl, PlacesNext
<1>13. KeysOK(id)'
  <2>1. ~Untouched(id)
    BY <1>2 DEF Untouched
  <2>2. OneQubit => \A r \in Node : Rx(r, id)' # {} \/ Queued(r, id)' # {} => id \in data'[r]
    BY <1>4, <1>5 DEF KeysOK
  <2> QED
    BY <1>1, <1>3, <1>4, <1>5, <2>1, <2>2, KeysNext
<1>14. \A j \in Id : j # id => OpOK(j)'
  <2> SUFFICES ASSUME NEW j \in Id, j # id PROVE OpOK(j)'
    OBVIOUS
  <2>1. Tx(j)' = Tx(j) /\ (Unsent(j)' => Unsent(j))
    BY <1>3, ViewsNext DEF Tx, Unsent, Has
  <2>2. \A r \in Node : /\ Rx(r, j)' = Rx(r, j) /\ Queued(r, j)' = Queued(r, j)
                        /\ Kept(r, j)' = Kept(r, j) /\ (j \in data[r] => j \in data'[r])
    BY <1>3, ViewsNext DEF Rx, Queued, Kept
  <2>3. Msgs(j)' \subseteq Msgs(j) /\ Evs(j)' \subseteq Evs(j)
    BY ViewsNext DEF Msgs, Evs
  <2> QED
    BY <2>1, <2>2, <2>3, FrameOp DEF OInv, DInv
<1>15. \A r \in Node : SenderOK(r)'
  BY <1>3, SenderFrame DEF OInv, SenderOK
<1> QED
  BY <1>11, <1>12, <1>13, <1>14, <1>15 DEF OInv, OpOK

\* A NACK: the stored result or the qubit is sent again.  No assertion fails.
LEMMA ReceiveNACKOInv ==
  ASSUME NoOwnPeer, OInv, DInv', NEW n \in Node, NEW id, ReceiveNACK(n, id)
  PROVE  OInv'
<1> DEFINE stored == Has(storage[n], id)
           it == storage[n][LastSlot(storage[n], id)]
           qubit == tx_qubits[n][Slot(tx_qubits[n], id)]
           again == IF stored
                    THEN Packet("Classical", n, it.peer, id, it.protocol, it.x, it.z)
                    ELSE QubitOf(n, qubit)
           Fits == /\ stored \/ Has(tx_qubits[n], id)
                   /\ Has(tx_qubits[n], id) => ~qubit.operating
                   /\ \A i \in Matches(storage[n], id) : storage[n][i].x \/ storage[n][i].z
<1>1. PICK m \in net :
        /\ Arrives(m, "NACK", n, id)
        /\ \/ /\ Fits
              /\ net' = (net \ {m}) \cup {again}
              /\ UNCHANGED <<sock, msg_count, held, data, events, failed>>
           \/ ~Fits /\ Abort("ReceiveNACK")
  BY DEF ReceiveNACK
<1>2. m.type = "NACK" /\ m.dst = n /\ m.id = id /\ id \in Id
  BY <1>1, ArrivedId DEF Arrives, OInv, DInv
<1>3. MessageOK(id, m)
  <2>1. Msgs(id) = {m}
    BY <1>2, AlonePacket
  <2> QED
    BY <1>2, <2>1, OpFacts DEF DrivenOK
<1>4. /\ stored <=> Kept(n, id) # {}
      /\ stored => it \in Kept(n, id)
      /\ \A i \in Matches(storage[n], id) : storage[n][i] \in Kept(n, id)
      /\ Has(tx_qubits[n], id) <=> At(tx_qubits[n], id) # {}
      /\ Has(tx_qubits[n], id) => qubit \in At(tx_qubits[n], id)
  <2>1. storage[n] \in Seq(Item(n)) /\ tx_qubits[n] \in Seq(Item(n))
    BY NodeLists DEF OInv, DInv
  <2>2. (stored <=> Kept(n, id) # {}) /\ (Has(tx_qubits[n], id) <=> At(tx_qubits[n], id) # {})
    BY AtIs DEF Kept
  <2>3. stored => it \in Kept(n, id)
    BY <2>1, SlotAt DEF Kept
  <2>4. Has(tx_qubits[n], id) => qubit \in At(tx_qubits[n], id)
    BY <2>1, SlotAt
  <2>5. \A i \in Matches(storage[n], id) : storage[n][i] \in Kept(n, id)
    BY DEF Kept, At
  <2> QED
    BY <2>2, <2>3, <2>4, <2>5
<1>5. /\ PlacesOK(id) /\ id[1] \in Node /\ Kept(n, id) \subseteq Item(n)
      /\ Tx(id) \subseteq Item(id[1]) /\ \A t, u \in Tx(id) : t = u
      /\ \A t \in Tx(id) : t.id = id
  BY <1>2, OpFacts
<1>6. \A p \in Item(n) : Peers[n][p.peer] \in Node /\ Peers[n][p.peer] # n
  BY PeersFacts, ItemFields DEF NoOwnPeer
<1>7. Fits /\ again.id = id /\ again.type # "AWK" /\ again.src \in Node /\ again.dst \in Node
      /\ MessageOK(id, again)
  <2>1. CASE n = id[1] /\ stored
    <3>1. AskOK(id) /\ KeptOK(id, n, it)
      BY <1>2, <1>3, <1>4, <1>5, <2>1 DEF MessageOK, PlacesOK
    <3>2. it.protocol = "telegate" /\ it.x = FALSE /\ it.z = TRUE
      BY <2>1, <3>1 DEF KeptOK
    <3>3. Fits
      <4>1. \A i \in Matches(storage[n], id) : storage[n][i].z = TRUE
        BY <1>4, <1>5, <2>1 DEF PlacesOK, KeptOK
      <4>2. Has(tx_qubits[n], id) => qubit.operating = FALSE
        BY <1>4, <2>1, <3>1 DEF AskOK, Idle, Tx
      <4> QED
        BY <2>1, <4>1, <4>2
    <3>4. PICK packet : packet = Packet("Classical", n, it.peer, id, it.protocol, it.x, it.z)
      OBVIOUS
    <3>5. /\ packet.id = id /\ packet.type = "Classical" /\ packet.src = n
          /\ packet.dst = Peers[n][it.peer] /\ packet.protocol = "telegate" /\ packet.z = TRUE
      BY <3>2, <3>4 DEF Packet
    <3>6. packet.dst \in Node /\ packet.dst # n
      BY <1>4, <1>5, <1>6, <2>1, <3>5
    <3>7. \A s \in Kept(id[1], id) : s = it
      BY <1>4, <1>5, <2>1 DEF PlacesOK, AtMostOne
    <3>8. ResultOK(id, packet)
      BY <1>4, <2>1, <3>1, <3>5, <3>7 DEF ResultOK, AskOK
    <3>9. MessageOK(id, packet)
      BY <2>1, <3>5, <3>6, <3>8 DEF MessageOK
    <3> QED
      BY <2>1, <3>3, <3>4, <3>5, <3>6, <3>9
  <2>2. CASE n = id[1] /\ ~stored
    <3>1. AskOK(id) /\ Holding(id) /\ (OneQubit => NoRx(id))
      BY <1>2, <1>3, <1>4, <2>2 DEF MessageOK, AskOK
    <3>2. Has(tx_qubits[n], id) /\ qubit \in Tx(id)
      BY <1>4, <2>2, <3>1 DEF Holding, Open, Tx
    <3>3. Fits
      BY <1>4, <2>2, <3>1, <3>2 DEF AskOK, Idle
    <3>4. PICK t \in Tx(id) : t = qubit
      BY <3>2
    <3>5. PICK packet : packet = QubitOf(n, t)
      OBVIOUS
    <3>6. /\ packet.id = t.id /\ packet.type = "Qubit" /\ packet.src = n
          /\ packet.dst = Peers[n][t.peer] /\ packet.protocol = t.protocol
      BY <3>5 DEF Packet, QubitOf
    <3>7. packet.dst \in Node /\ packet.dst # n /\ packet.id = id
      BY <1>5, <1>6, <2>2, <3>6
    <3>8. QubitOK(id, packet)
      BY <1>5, <2>2, <3>1, <3>6, <3>7 DEF QubitOK, Agreed
    <3>9. MessageOK(id, packet)
      BY <3>6, <3>8 DEF MessageOK
    <3> QED
      BY <2>2, <3>3, <3>4, <3>5, <3>6, <3>7, <3>9
  <2>3. CASE n # id[1]
    <3>1. PICK p \in Protocols : MeasuredOK(id, n, p)
      BY <1>2, <1>3, <2>3 DEF MessageOK
    <3>2. stored /\ ~Has(tx_qubits[n], id) /\ KeptOK(id, n, it)
      BY <1>4, <1>5, <2>3, <3>1, OnlyOwnTx DEF MeasuredOK, PlacesOK
    <3>3. /\ Peers[n][it.peer] = id[1] /\ it.x = TRUE /\ it.z = (it.protocol = "teledata")
          /\ \A t \in Tx(id) : t.protocol = it.protocol
      BY <2>3, <3>2 DEF KeptOK, RecordOK
    <3>4. Fits
      <4>1. \A i \in Matches(storage[n], id) : storage[n][i].x = TRUE
        BY <1>4, <1>5, <2>3 DEF PlacesOK, KeptOK
      <4> QED
        BY <3>2, <4>1
    <3>5. p = it.protocol
      BY <3>1, <3>3 DEF MeasuredOK, Holding, Open, Agreed
    <3>6. PICK packet : packet = Packet("Classical", n, it.peer, id, it.protocol, it.x, it.z)
      OBVIOUS
    <3>7. /\ packet.id = id /\ packet.type = "Classical" /\ packet.src = n /\ packet.dst = id[1]
          /\ packet.protocol = p /\ packet.x = TRUE /\ packet.z = (p = "teledata")
      BY <3>3, <3>5, <3>6 DEF Packet
    <3>8. MessageOK(id, packet)
      BY <3>1, <3>7 DEF MessageOK
    <3> QED
      BY <1>5, <3>2, <3>4, <3>6, <3>7, <3>8
  <2> QED
    BY <2>1, <2>2, <2>3
<1>8. PICK packet : packet = again
  OBVIOUS
<1>9. packet.id = id /\ packet.type # "AWK" /\ packet.src \in Node /\ packet.dst \in Node
      /\ MessageOK(id, packet)
  BY <1>7, <1>8
<1>10. /\ net' = (net \ {m}) \cup {packet}
       /\ UNCHANGED <<msg_count, held, data, events, failed>>
  BY <1>1, <1>7, <1>8
<1> HIDE DEF Fits, again
<1> QED
  BY <1>2, <1>9, <1>10, PacketSwapped

\* An acknowledgement: what else moves the operation is an event of the sender.
LEMMA ReceiveAWKOInv ==
  ASSUME OInv, DInv', NEW n \in Node, NEW id, ReceiveAWK(n, id)
  PROVE  OInv'
<1>1. PICK m \in net :
        /\ Arrives(m, "AWK", n, id)
        /\ net' = net \ {m}
        /\ storage' = [storage EXCEPT ![n] = WithoutClassic(storage[n], id)]
        /\ UNCHANGED <<sock, msg_count, tx_queue, tx_qubits, rx_queue, rx_qubits,
                       data, events, failed>>
  BY DEF ReceiveAWK
<1>2. m.type = "AWK" /\ m.id = id /\ id \in Id
  BY <1>1, ArrivedId DEF Arrives, OInv, DInv
<1>3. AwkOK(id, m) /\ KeysOK(id) /\ PlacesOK(id) /\ id[1] \in Node
  <2>1. m \in Msgs(id)
    BY <1>2 DEF Msgs
  <2> QED
    BY <1>2, <2>1, OpFacts DEF DrivenOK, MessageOK
<1>4. /\ OnlyAt(n, storage, storage') /\ At(storage'[n], id) \subseteq At(storage[n], id)
      /\ \A j : j # id => At(storage'[n], j) = At(storage[n], j)
  <2>1. storage[n] \in Seq(Item(n)) /\ n \in DOMAIN storage
    BY NodeLists DEF OInv, DInv
  <2>2. OnlyAt(n, storage, storage') /\ storage'[n] = WithoutClassic(storage[n], id)
    BY <1>1, <2>1, OnlyAtExcept
  <2> QED
    BY <2>1, <2>2, AtWithoutClassic
<1>5. /\ Tx(id)' = Tx(id) /\ Msgs(id)' = {} /\ Evs(id)' = Evs(id)
      /\ \A r \in Node : /\ Rx(r, id)' = Rx(r, id) /\ Queued(r, id)' = {}
                         /\ Kept(r, id)' \subseteq Kept(r, id)
  <2>1. Msgs(id)' = {p \in net' : p.id = id}
    BY ViewsNext
  <2>2. Msgs(id)' = {}
    BY <1>1, <1>3, <2>1 DEF AwkOK, Msgs
  <2>3. Tx(id)' = Tx(id) /\ Evs(id)' = Evs(id)
    BY <1>1, ViewsNext DEF Tx, Evs
  <2>4. \A r \in Node : Rx(r, id)' = Rx(r, id) /\ Queued(r, id)' = Queued(r, id)
    BY <1>1, ViewsNext DEF Rx, Queued
  <2>5. \A r \in Node : Kept(r, id)' \subseteq Kept(r, id)
    BY <1>4, ViewsNext DEF Kept, OnlyAt
  <2> QED
    BY <1>3, <2>2, <2>3, <2>4, <2>5 DEF AwkOK
<1>6. ASSUME NEW e \in Evs(id)'
      PROVE  EventOK(id, e)'
  <2>1. e.fn = "ReleaseQubit" /\ EventOK(id, e) /\ e.node \in Node
    BY <1>2, <1>3, <1>5, <1>6, OpFacts DEF AwkOK, DrivenOK, Evs, OInv, DInv, IInv, RestOK, Event
  <2> QED
    BY <1>5, <2>1 DEF EventOK, Idle
<1>7. DrivenOK(id)'
  BY <1>5, <1>6 DEF DrivenOK
<1>8. PlacesOK(id)'
  <2>1. AtMostOne(Kept(id[1], id)')
    BY <1>3, <1>5 DEF PlacesOK, AtMostOne
  <2>2. Alike(Tx(id)', Tx(id)) /\ \A r \in Node : Alike(Rx(r, id)', Rx(r, id))
    BY <1>5, AlikeRefl
  <2>3. \A r \in Node : \A s \in Kept(r, id)' : s \in Kept(r, id)
    BY <1>5
  <2> QED
    BY <1>2, <1>3, <2>1, <2>2, <2>3, PlacesNext
<1>9. KeysOK(id)'
  <2>1. ~Untouched(id)
    BY <1>3 DEF Untouched, AwkOK
  <2>2. OneQubit => \A r \in Node : Rx(r, id)' # {} \/ Queued(r, id)' # {} => id \in data'[r]
    BY <1>1, <1>3, <1>5 DEF KeysOK
  <2> QED
    BY <1>1, <1>2, <1>3, <1>5, <2>1, <2>2, KeysNext
<1>10. \A j \in Id : j # id => OpOK(j)'
  <2>1. /\ OnlyAt(n, tx_qubits, tx_qubits') /\ OnlyAt(n, rx_qubits, rx_qubits')
        /\ OnlyAt(n, rx_queue, rx_queue')
    BY <1>1 DEF OnlyAt
  <2>2. (\A p \in net' : p \in net) /\ (\A e \in events' : e \in events)
    BY <1>1
  <2>3. \A r \in Node : \A j \in data[r] : j # id => j \in data'[r]
    BY <1>1
  <2>4. \A j : j # id => /\ At(tx_qubits'[n], j) = At(tx_qubits[n], j)
                          /\ At(rx_qubits'[n], j) = At(rx_qubits[n], j)
                          /\ At(rx_queue'[n], j) = At(rx_queue[n], j)
                          /\ At(storage'[n], j) = At(storage[n], j)
    BY <1>1, <1>4
  <2> QED
    BY <1>1, <1>4, <2>1, <2>2, <2>3, <2>4, FrameOthers
<1>11. \A r \in Node : SenderOK(r)'
  BY <1>1, SenderFrame DEF OInv, SenderOK
<1> QED
  BY <1>1, <1>7, <1>8, <1>9, <1>10, <1>11 DEF OInv, OpOK

\* The local gate of a telegate: it always runs, its result is stored and sent.
LEMMA LocalGateOInv ==
  ASSUME NoOwnPeer, OInv, DInv', NEW n \in Node, NEW id, LocalGate(n, id)
  PROVE  OInv'
<1> DEFINE s == Slot(tx_qubits[n], id)
           item == tx_qubits[n][s]
           result0 == [item EXCEPT !.operating = FALSE, !.x = FALSE, !.z = TRUE]
           release0 == [fn |-> "ReleaseQubit", node |-> n, id |-> id, sender |-> TRUE]
           packet0 == Packet("Classical", n, item.peer, id, item.protocol, FALSE, TRUE)
           Fits == Has(tx_qubits[n], id) /\ item.protocol = "telegate" /\ item.x
           Done(e) ==
             /\ events' = (events \ {e}) \cup {release0}
             /\ IF item.operating
                THEN /\ tx_qubits' = [tx_qubits EXCEPT ![n][s].operating = FALSE]
                     /\ storage' = [storage EXCEPT ![n] = Append(storage[n], result0)]
                     /\ net' = net \cup Out(n, {packet0})
                ELSE UNCHANGED <<tx_qubits, storage, net>>
             /\ UNCHANGED <<sock, msg_count, tx_queue, rx_queue, rx_qubits, data, failed>>
<1>1. PICK e \in events : /\ e.fn = "LocalGate" /\ e.node = n /\ e.id = id
                          /\ IF Fits THEN Done(e) ELSE Abort("SendClassical")
  BY DEF LocalGate
<1>2. IsDriver(e) /\ id \in Id /\ e \in Evs(id)
  BY <1>1 DEF IsDriver, Evs, OInv, DInv, IInv, RestOK, Event
<1>3. EventOK(id, e) /\ KeysOK(id) /\ PlacesOK(id) /\ id[1] \in Node
  BY <1>2, OpFacts DEF DrivenOK
<1>4. /\ id[1] = n /\ Open(id)
      /\ \A t \in Tx(id) : /\ t.protocol = "telegate" /\ t.x = TRUE /\ t.operating = TRUE
                           /\ OneQubit => Rx(Peers[n][t.peer], id) # {}
  BY <1>1, <1>3 DEF EventOK
<1>5. /\ Tx(id) # {} /\ Kept(n, id) = {} /\ Evs(id) = {e} /\ Msgs(id) = {}
      /\ \A r \in Node : Queued(r, id) = {}
  <2>1. /\ \A m \in Msgs(id) : m.type = "AWK" /\ e.fn = "ReleaseQubit"
        /\ \A f \in Evs(id) : IsDriver(f) => f = e
        /\ \A r \in Node : Queued(r, id) = {}
    BY <1>1, <1>2, AloneEvent
  <2>2. Tx(id) # {} /\ Kept(n, id) = {} /\ \A f \in Evs(id) : IsDriver(f)
    BY <1>4 DEF Open
  <2> QED
    BY <1>1, <1>2, <2>1, <2>2
<1>6. Has(tx_qubits[n], id)
  BY <1>4, <1>5, AtIs DEF Tx
<1>7. /\ tx_qubits[n] \in Seq(Item(n)) /\ storage[n] \in Seq(Item(n))
      /\ n \in DOMAIN storage /\ n \in DOMAIN tx_qubits
  BY NodeLists DEF OInv, DInv
<1>8. PICK k : k = s
  OBVIOUS
<1>9. k \in 1..Len(tx_qubits[n]) /\ tx_qubits[n][k].id = id /\ tx_qubits[n][k] \in Item(n)
      /\ tx_qubits[n][k] \in At(tx_qubits[n], id)
  BY <1>6, <1>7, <1>8, SlotAt
<1>10. PICK old \in Item(n) : old = tx_qubits[n][k] /\ old \in Tx(id) /\ old.id = id
  BY <1>4, <1>9 DEF Tx
<1>11. /\ old.protocol = "telegate" /\ old.x = TRUE /\ old.operating = TRUE
       /\ OneQubit => Rx(Peers[n][old.peer], id) # {}
  BY <1>4, <1>10
<1>12. Done(e) /\ item = old
  BY <1>1, <1>6, <1>8, <1>10, <1>11
<1>13. PICK it, result, release, packet :
         /\ it = [old EXCEPT !.operating = FALSE]
         /\ result = [old EXCEPT !.operating = FALSE, !.x = FALSE, !.z = TRUE]
         /\ release = release0
         /\ packet = Packet("Classical", n, old.peer, id, old.protocol, FALSE, TRUE)
  OBVIOUS
<1>14. /\ it.id = id /\ it.peer = old.peer /\ it.protocol = old.protocol /\ it.operating = FALSE
       /\ result \in Item(n) /\ result.id = id /\ result.peer = old.peer
       /\ result.protocol = "telegate" /\ result.x = FALSE /\ result.z = TRUE
  BY <1>10, <1>11, <1>13 DEF Item
<1>15. /\ release.id = id /\ release.fn = "ReleaseQubit" /\ release.node = n
       /\ release.sender = TRUE /\ ~IsDriver(release)
  BY <1>13 DEF IsDriver
<1>16. /\ packet.id = id /\ packet.type = "Classical" /\ packet.src = n
       /\ packet.dst = Peers[n][old.peer] /\ packet.protocol = "telegate" /\ packet.z = TRUE
  BY <1>11, <1>13 DEF Packet
<1>17. packet.dst # n /\ packet.dst \in Node
  BY <1>16, PeersFacts, ItemFields DEF NoOwnPeer
<1>18. TxUpdate(n, k, it)
  <2>1. tx_qubits' = [tx_qubits EXCEPT ![n][k].operating = FALSE]
    BY <1>8, <1>11, <1>12
  <2>2. tx_qubits' = [tx_qubits EXCEPT ![n] = [tx_qubits[n] EXCEPT ![k] = it]]
    BY <1>10, <1>13, <2>1
  <2> QED
    BY <1>9, <1>10, <1>14, <2>2 DEF TxUpdate
<1>19. /\ events' = (events \ {e}) \cup {release}
       /\ storage' = [storage EXCEPT ![n] = Append(storage[n], result)]
       /\ net' = net \cup Out(n, {packet})
       /\ UNCHANGED <<msg_count, tx_queue, rx_queue, rx_qubits, data, failed>>
  BY <1>11, <1>12, <1>13
<1> HIDE DEF s, item, result0, release0, packet0, Fits, Done
<1>20. /\ Tx(id)' = {it} /\ OnlyAt(n, tx_qubits, tx_qubits')
       /\ \A j : j # id => At(tx_qubits'[n], j) = At(tx_qubits[n], j)
  <2>1. /\ it.id[1] = n => Tx(it.id)' = {it}
        /\ OnlyAt(n, tx_qubits, tx_qubits')
        /\ \A j : j # it.id => At(tx_qubits'[n], j) = At(tx_qubits[n], j)
    BY <1>18, TxChanged
  <2>2. it.id = id /\ id[1] = n
    BY <1>4, <1>14
  <2> QED
    BY <2>1, <2>2
<1>21. /\ OnlyAt(n, storage, storage') /\ At(storage'[n], id) = {result}
       /\ \A j : j # id => At(storage'[n], j) = At(storage[n], j)
  <2>1. OnlyAt(n, storage, storage') /\ storage'[n] = Append(storage[n], result)
    BY <1>7, <1>19, OnlyAtExcept
  <2>2. \A j : At(Append(storage[n], result), j)
                 = IF result.id = j THEN At(storage[n], j) \cup {result} ELSE At(storage[n], j)
    BY <1>7, <1>14, AtAppend
  <2>3. At(storage[n], id) = {}
    BY <1>5 DEF Kept
  <2> QED
    BY <1>14, <2>1, <2>2, <2>3
<1>22. Kept(n, id)' = {result} /\ \A r \in Node : r # n => Kept(r, id)' = Kept(r, id)
  <2>1. Kept(n, id)' = {result}
    BY <1>21, ViewsNext
  <2>2. \A r \in Node : r # n => Kept(r, id)' = Kept(r, id)
    BY <1>21, ViewsNext DEF Kept, OnlyAt
  <2> QED
    BY <2>1, <2>2
<1>23. Msgs(id)' \subseteq {packet} /\ Evs(id)' = {release}
  <2>1. Msgs(id)' = {p \in net' : p.id = id} /\ Evs(id)' = {f \in events' : f.id = id}
    BY ViewsNext
  <2>2. net' \subseteq net \cup {packet}
    BY <1>19 DEF Out
  <2>3. Msgs(id)' \subseteq {packet}
    BY <1>5, <2>1, <2>2 DEF Msgs
  <2>4. Evs(id)' = {release}
    BY <1>5, <1>15, <1>19, <2>1 DEF Evs
  <2> QED
    BY <2>3, <2>4
<1>24. \A r \in Node : Rx(r, id)' = Rx(r, id) /\ Queued(r, id)' = {}
  <2>1. \A r \in Node : Rx(r, id)' = Rx(r, id) /\ Queued(r, id)' = Queued(r, id)
    BY <1>19, ViewsNext DEF Rx, Queued
  <2> QED
    BY <1>5, <2>1
<1>25. Idle(id)' /\ Tx(id)' # {} /\ Alike(Tx(id)', Tx(id)) /\ Kept(id[1], id)' = {result}
  BY <1>4, <1>10, <1>14, <1>20, <1>22 DEF Idle, Alike
<1>26. DrivenOK(id)'
  <2>1. EventOK(id, release)'
    BY <1>4, <1>15, <1>25 DEF EventOK
  <2>2. MessageOK(id, packet)'
    <3>1. ResultOK(id, packet)'
      BY <1>4, <1>11, <1>14, <1>16, <1>17, <1>24, <1>25 DEF ResultOK
    <3> QED
      BY <1>4, <1>16, <1>17, <3>1 DEF MessageOK
  <2> QED
    BY <1>23, <1>24, <2>1, <2>2 DEF DrivenOK
<1>27. PlacesOK(id)'
  <2>1. AtMostOne(Kept(id[1], id)')
    BY <1>25 DEF AtMostOne
  <2>2. \A r \in Node : Alike(Rx(r, id)', Rx(r, id))
    BY <1>24, AlikeRefl
  <2>3. \A r \in Node : \A p \in Kept(r, id)' : p \in Kept(r, id) \/ KeptOK(id, r, p)'
    BY <1>4, <1>14, <1>22 DEF KeptOK
  <2> QED
    BY <1>2, <1>3, <1>25, <2>1, <2>2, <2>3, PlacesNext
<1>28. KeysOK(id)'
  <2>1. ~Untouched(id)
    BY <1>5 DEF Untouched
  <2>2. OneQubit => \A r \in Node : Rx(r, id)' # {} \/ Queued(r, id)' # {} => id \in data'[r]
    BY <1>3, <1>19, <1>24 DEF KeysOK
  <2> QED
    BY <1>2, <1>3, <1>5, <1>19, <2>1, <2>2, KeysNext
<1>29. \A j \in Id : j # id => OpOK(j)'
  <2>1. OnlyAt(n, rx_qubits, rx_qubits') /\ OnlyAt(n, rx_queue, rx_queue')
    BY <1>19 DEF OnlyAt
  <2>2. (\A p \in net' : p \in net \/ p.id = id) /\ (\A f \in events' : f \in events \/ f.id = id)
    BY <1>15, <1>16, <1>19 DEF Out
  <2>3. \A j : j # id => /\ At(tx_qubits'[n], j) = At(tx_qubits[n], j)
                          /\ At(rx_qubits'[n], j) = At(rx_qubits[n], j)
                          /\ At(rx_queue'[n], j) = At(rx_queue[n], j)
                          /\ At(storage'[n], j) = At(storage[n], j)
    BY <1>19, <1>20, <1>21
  <2>4. \A r \in Node : \A j \in data[r] : j # id => j \in data'[r]
    BY <1>19
  <2> QED
    BY <1>19, <1>20, <1>21, <2>1, <2>2, <2>3, <2>4, FrameOthers
<1>30. \A r \in Node : SenderOK(r)'
  BY <1>18, <1>19, SenderChanged
<1> QED
  BY <1>19, <1>26, <1>27, <1>28, <1>29, <1>30 DEF OInv, OpOK

-----------------------------------------------------------------------------
(***************************************************************************)
(* ReleaseQubit and SendClassical at the receiver.                         *)
(***************************************************************************)
\* What the erase in m_rx_qubits, and the assignment behind it, leave of an operation.
LEMMA ReleasedRxAt ==
  ASSUME OInv, NEW n \in Node, NEW id, Has(rx_qubits[n], id)
  PROVE  /\ \A j : \A it \in At(ReleasedRx(n, id), j) :
              \/ it \in At(rx_qubits[n], j)
              \/ rx_queue[n] # <<>> /\ it = Head(rx_queue[n]) /\ it.id = j
         /\ OneQubit => \A j : /\ At(ReleasedRx(n, id), j) = {}
                               /\ j # id => At(rx_qubits[n], j) = {}
<1>1. PICK seq \in Seq(Item(n)) : seq = rx_qubits[n] /\ Len(seq) <= NumQubits
  BY DEF OInv, DInv, IInv, HeldOK, NodeOK
<1>2. PICK s \in 1..Len(seq) : s = Slot(seq, id) /\ seq[s].id = id
  BY <1>1, SlotFound
<1>3. PICK rest : rest = RemoveAt(seq, s)
  OBVIOUS
<1>4. rest \in Seq(Item(n)) /\ Len(rest) = Len(seq) - 1 /\ Len(seq) \in Nat
  BY <1>3, RemoveAtElements, LenProperties
<1>5. PICK h : h = Head(rx_queue[n])
  OBVIOUS
<1>6. ReleasedRx(n, id) = IF rx_queue[n] # <<>> /\ s <= Len(rest)
                          THEN [rest EXCEPT ![s] = h] ELSE rest
  BY <1>1, <1>2, <1>3, <1>5 DEF ReleasedRx
<1>7. ASSUME NEW j, NEW it \in At(ReleasedRx(n, id), j)
      PROVE  \/ it \in At(rx_qubits[n], j)
             \/ rx_queue[n] # <<>> /\ it = Head(rx_queue[n]) /\ it.id = j
  <2>1. At(rest, j) \subseteq At(seq, j)
    BY <1>3, AtRemove
  <2>2. CASE rx_queue[n] # <<>> /\ s <= Len(rest)
    <3>1. s \in 1..Len(rest) /\ it \in At([rest EXCEPT ![s] = h], j) /\ it.id = j
      BY <1>2, <1>4, <1>6, <1>7, <2>2, AtIs
    <3>2. it \in At(rest, j) \/ it = h
      BY <1>4, <3>1, InExcept
    <3> QED
      BY <1>1, <1>5, <2>1, <2>2, <3>1, <3>2
  <2>3. CASE ~(rx_queue[n] # <<>> /\ s <= Len(rest))
    BY <1>1, <1>6, <1>7, <2>1, <2>3
  <2> QED
    BY <2>2, <2>3
<1>8. ASSUME OneQubit, NEW j
      PROVE  At(ReleasedRx(n, id), j) = {} /\ (j # id => At(rx_qubits[n], j) = {})
  <2>1. Len(seq) = 1 /\ s = 1 /\ Len(rest) = 0
    <3>1. NumQubits \in Nat /\ NumQubits <= 1
      BY <1>8, ParametersAssumption DEF OneQubit
    <3>2. ASSUME NEW q \in Nat, q <= 1, NEW l \in Nat, l <= q, NEW i \in 1..l
          PROVE  l = 1 /\ i = 1 /\ l - 1 = 0
      BY <3>2
    <3>3. Len(seq) <= NumQubits /\ Len(seq) \in Nat
      BY <1>1, <1>4
    <3>4. Len(seq) = 1 /\ s = 1 /\ Len(seq) - 1 = 0
      BY <3>1, <3>2, <3>3
    <3> QED
      BY <1>4, <3>4
  <2>2. ReleasedRx(n, id) = rest /\ DOMAIN rest = {} /\ DOMAIN seq = {1}
    BY <1>4, <1>6, <2>1, DomainOfSeq
  <2>3. At(rest, j) = {}
    BY <2>2 DEF At, Matches
  <2>4. j # id => At(seq, j) = {}
    BY <1>2, <2>1, <2>2 DEF At, Matches
  <2> QED
    BY <1>1, <2>2, <2>3, <2>4
<1> QED
  BY <1>7, <1>8

\* The head of m_rx_queue is asked for again.
LEMMA PromotedOp ==
  ASSUME OInv, NEW n \in Node, NEW j \in Id, NEW h, NEW nack,
         Queued(n, j) = {h}, h.id = j,
         nack.type = "NACK", nack.dst = Peers[n][h.peer],
         Tx(j)' = Tx(j), Msgs(j)' \subseteq {nack}, Evs(j)' \subseteq Evs(j),
         \A r \in Node : /\ Kept(r, j)' = Kept(r, j)
                         /\ r # n => Rx(r, j)' = Rx(r, j) /\ Queued(r, j)' = Queued(r, j)
                         /\ j \in data[r] => j \in data'[r],
         Queued(n, j)' = {}, Rx(n, j)' \subseteq Rx(n, j) \cup {h},
         OneQubit => Rx(n, j)' = {}, UNCHANGED <<msg_count, tx_queue>>
  PROVE  OpOK(j)'
<1>1. /\ Msgs(j) = {} /\ \A e \in Evs(j) : ~IsDriver(e)
      /\ \A r \in Node : r # n => Queued(r, j) = {}
  BY AloneQueued
<1>2. QueuedOK(j, n, h) /\ KeysOK(j) /\ PlacesOK(j) /\ j[1] \in Node
  BY OpFacts DEF DrivenOK
<1>3. RecordOK(j, n, h) /\ Holding(j) /\ (OneQubit => NoRx(j))
  BY <1>2 DEF QueuedOK
<1>4. /\ Kept(j[1], j)' = Kept(j[1], j) /\ Kept(j[1], j) = {} /\ Holding(j)'
      /\ Idle(j)' /\ (OneQubit => NoRx(j)')
  BY <1>2, <1>3 DEF Holding, Open, Idle, NoRx
<1>5. nack.dst = j[1]
  BY <1>3 DEF RecordOK
<1>6. MessageOK(j, nack)'
  <2>1. AskOK(j)'
    BY <1>4 DEF AskOK
  <2> QED
    BY <1>5, <2>1 DEF MessageOK
<1>7. ASSUME NEW e \in Evs(j)'
      PROVE  EventOK(j, e)'
  <2>1. ~IsDriver(e) /\ EventOK(j, e)
    BY <1>1, <1>7, OpFacts DEF DrivenOK
  <2> QED
    BY <1>4, <2>1 DEF EventOK, IsDriver, Idle
<1>8. DrivenOK(j)'
  BY <1>1, <1>6, <1>7 DEF DrivenOK
<1>9. PlacesOK(j)'
  <2>1. ASSUME NEW r \in Node, NEW it \in Rx(r, j)'
        PROVE  RecordOK(j, r, it)'
    <3>1. RecordOK(j, r, it)
      BY <1>2, <1>3, <2>1 DEF PlacesOK
    <3> QED
      BY <3>1 DEF RecordOK
  <2>2. ASSUME NEW r \in Node, NEW s \in Kept(r, j)'
        PROVE  KeptOK(j, r, s)'
    <3>1. KeptOK(j, r, s)
      BY <1>2, <2>2 DEF PlacesOK
    <3> QED
      BY <3>1 DEF KeptOK, RecordOK
  <2>3. AtMostOne(Kept(j[1], j)')
    BY <1>4 DEF AtMostOne
  <2>4. OneQubit => \A r, q \in Node : Rx(r, j)' # {} /\ Rx(q, j)' # {} => r = q
    BY <1>4 DEF NoRx
  <2> QED
    BY <2>1, <2>2, <2>3, <2>4 DEF PlacesOK
<1>10. KeysOK(j)'
  <2>1. ~Untouched(j)
    BY DEF Untouched
  <2>2. OneQubit => \A r \in Node : Rx(r, j)' # {} \/ Queued(r, j)' # {} => j \in data'[r]
    BY <1>1, <1>4 DEF NoRx
  <2> QED
    BY <1>2, <2>1, <2>2, KeysNext
<1> QED
  BY <1>8, <1>9, <1>10 DEF OpOK

\* The other operations when a receiver releases its qubit.
LEMMA ReleaseOthers ==
  ASSUME OInv, NEW n \in Node, NEW id, NEW sent,
         CanReleaseRx(n, id), ReleaseAtReceiver(n, id, sent), \A p \in sent : p.id = id,
         OnlyAt(n, storage, storage'),
         \A j : j # id => At(storage'[n], j) = At(storage[n], j),
         events' \subseteq events, UNCHANGED <<msg_count, tx_queue, tx_qubits>>
  PROVE  \A j \in Id : j # id => OpOK(j)'
<1> SUFFICES ASSUME NEW j \in Id, j # id PROVE OpOK(j)'
  OBVIOUS
<1>1. PICK queue \in Seq(Item(n)) : queue = rx_queue[n] /\ Distinct(queue)
  BY NodeLists DEF OInv, DInv
<1>2. PICK h, nack : h = Head(queue) /\ nack = NACKFor(n, h.peer, h.id, h.protocol)
  OBVIOUS
<1>3. /\ nack.id = h.id /\ nack.type = "NACK" /\ nack.dst = Peers[n][h.peer]
      /\ Promoted(n) = IF queue = <<>> THEN {} ELSE {nack}
  BY <1>1, <1>2 DEF NACKFor, Packet, Promoted
<1>4. n \in DOMAIN rx_qubits /\ n \in DOMAIN rx_queue
  BY NodeLists DEF OInv, DInv
<1>5. /\ OnlyAt(n, rx_qubits, rx_qubits') /\ rx_qubits'[n] = ReleasedRx(n, id)
      /\ OnlyAt(n, rx_queue, rx_queue')
      /\ rx_queue'[n] = IF queue = <<>> THEN queue ELSE Tail(queue)
      /\ net' \subseteq net \cup sent \cup Promoted(n)
      /\ \A r \in Node : j \in data[r] => j \in data'[r]
  <2>1. \A r \in Node : j \in data[r] => j \in data'[r]
    BY DEF ReleaseAtReceiver, OInv, DInv, IInv, RestOK
  <2>2. net' \subseteq net \cup sent \cup Promoted(n)
    BY DEF ReleaseAtReceiver, Out
  <2>3. OnlyAt(n, rx_qubits, rx_qubits') /\ rx_qubits'[n] = ReleasedRx(n, id)
    BY <1>4, OnlyAtExcept DEF ReleaseAtReceiver
  <2>4. /\ OnlyAt(n, rx_queue, rx_queue')
        /\ rx_queue'[n] = IF queue = <<>> THEN queue ELSE Tail(queue)
    BY <1>1, <1>4, OnlyAtExcept DEF ReleaseAtReceiver
  <2> QED
    BY <2>1, <2>2, <2>3, <2>4
<1>6. Tx(j)' = Tx(j) /\ Evs(j)' \subseteq Evs(j)
  BY ViewsNext DEF Tx, Evs
<1>7. \A r \in Node : Kept(r, j)' = Kept(r, j)
  <2>1. Kept(n, j)' = Kept(n, j)
    BY ViewsNext DEF Kept
  <2>2. \A r \in Node : r # n => Kept(r, j)' = Kept(r, j)
    BY ViewsNext DEF Kept, OnlyAt
  <2> QED
    BY <2>1, <2>2
<1>8. \A r \in Node : r # n => Rx(r, j)' = Rx(r, j) /\ Queued(r, j)' = Queued(r, j)
  BY <1>5, ViewsNext DEF Rx, Queued, OnlyAt
<1>9. /\ \A it \in Rx(n, j)' : it \in Rx(n, j) \/ (queue # <<>> /\ it = h /\ h.id = j)
      /\ OneQubit => Rx(n, j)' = {} /\ Rx(n, j) = {}
  <2>1. Has(rx_qubits[n], id)
    BY DEF CanReleaseRx
  <2>2. Rx(n, j)' = At(ReleasedRx(n, id), j)
    BY <1>5, ViewsNext
  <2> QED
    BY <1>1, <1>2, <2>1, <2>2, ReleasedRxAt DEF Rx
<1>10. Msgs(j)' = {p \in net' : p.id = j}
  BY ViewsNext
<1>11. Queued(n, j)' = At(rx_queue'[n], j) /\ Queued(n, j) = At(queue, j)
  BY <1>1, ViewsNext DEF Queued
<1>12. CASE queue # <<>> /\ h.id = j
  <2>1. Queued(n, j) = {h} /\ Queued(n, j)' = {}
    BY <1>1, <1>2, <1>5, <1>11, <1>12, AtTail
  <2>2. Msgs(j) = {}
    BY <2>1, AloneQueued
  <2>3. Msgs(j)' \subseteq {nack}
    BY <1>3, <1>5, <1>10, <2>2 DEF Msgs
  <2> QED
    BY <1>3, <1>5, <1>6, <1>7, <1>8, <1>9, <1>12, <2>1, <2>3, PromotedOp
<1>13. CASE ~(queue # <<>> /\ h.id = j)
  <2>1. Queued(n, j)' = Queued(n, j)
    BY <1>1, <1>2, <1>5, <1>11, <1>13, AtTail
  <2>2. Msgs(j)' \subseteq Msgs(j)
    BY <1>3, <1>5, <1>10, <1>13 DEF Msgs
  <2>3. \A r \in Node : /\ Queued(r, j)' \subseteq Queued(r, j)
                        /\ Rx(r, j)' \subseteq Rx(r, j)
                        /\ OneQubit => Rx(r, j)' = Rx(r, j)
    BY <1>8, <1>9, <1>13, <2>1
  <2>4. Unsent(j)' => Unsent(j)
    BY DEF Unsent, Has
  <2> QED
    BY <1>5, <1>6, <1>7, <2>2, <2>3, <2>4, FrameOp DEF OInv, DInv
<1> QED
  BY <1>12, <1>13

\* The receiver has measured its qubit: the result is kept and on its way.
MeasuredStep(n, id, e, item, result, packet) ==
  /\ e.fn = "SendClassical" /\ e.node = n /\ e.id = id /\ item \in Rx(n, id)
  /\ result.peer = item.peer /\ result.protocol = item.protocol
  /\ result.x = TRUE /\ result.z = (item.protocol = "teledata")
  /\ packet.type = "Classical" /\ packet.src = n /\ packet.dst = Peers[n][item.peer]
  /\ packet.protocol = item.protocol /\ packet.x = TRUE
  /\ packet.z = (item.protocol = "teledata")
  /\ Tx(id)' = Tx(id) /\ Evs(id)' = Evs(id) \ {e}
  /\ Msgs(id)' \subseteq Msgs(id) \cup {packet}
  /\ Kept(n, id)' = Kept(n, id) \cup {result}
  /\ \A r \in Node : /\ Queued(r, id)' \subseteq Queued(r, id)
                     /\ Alike(Rx(r, id)', Rx(r, id))
                     /\ r # n => /\ Kept(r, id)' = Kept(r, id)
                                 /\ id \in data[r] => id \in data'[r]
  /\ OneQubit => IF item.protocol = "telegate"
                 THEN Rx(n, id)' # {} /\ \A r \in Node : id \in data[r] => id \in data'[r]
                 ELSE NoRx(id)'
  /\ UNCHANGED <<msg_count, tx_queue>>

LEMMA MeasuredOp ==
  ASSUME OInv, NEW n \in Node, NEW id \in Id, NEW e \in events, NEW item, NEW result,
         NEW packet, MeasuredStep(n, id, e, item, result, packet)
  PROVE  OpOK(id)'
<1>0. /\ e.fn = "SendClassical" /\ e.node = n /\ e.id = id /\ item \in Rx(n, id)
      /\ result.peer = item.peer /\ result.protocol = item.protocol
      /\ result.x = TRUE /\ result.z = (item.protocol = "teledata")
      /\ packet.type = "Classical" /\ packet.src = n /\ packet.dst = Peers[n][item.peer]
      /\ packet.protocol = item.protocol /\ packet.x = TRUE
      /\ packet.z = (item.protocol = "teledata")
      /\ Tx(id)' = Tx(id) /\ Evs(id)' = Evs(id) \ {e}
      /\ Msgs(id)' \subseteq Msgs(id) \cup {packet}
      /\ Kept(n, id)' = Kept(n, id) \cup {result}
      /\ \A r \in Node : /\ Queued(r, id)' \subseteq Queued(r, id)
                         /\ Alike(Rx(r, id)', Rx(r, id))
                         /\ r # n => /\ Kept(r, id)' = Kept(r, id)
                                     /\ id \in data[r] => id \in data'[r]
      /\ OneQubit => IF item.protocol = "telegate"
                     THEN Rx(n, id)' # {} /\ \A r \in Node : id \in data[r] => id \in data'[r]
                     ELSE NoRx(id)'
      /\ UNCHANGED <<msg_count, tx_queue>>
  BY DEF MeasuredStep
<1> USE <1>0
<1>1. e \in Evs(id) /\ IsDriver(e)
  BY DEF Evs, IsDriver
<1>2. Msgs(id) = {} /\ \A r \in Node : Queued(r, id) = {}
  BY <1>1, AloneEvent
<1>3. EventOK(id, e) /\ KeysOK(id) /\ PlacesOK(id) /\ id[1] \in Node
  BY <1>1, OpFacts DEF DrivenOK
<1>4. n # id[1] /\ Holding(id) /\ \A t \in Tx(id) : Peers[id[1]][t.peer] = n
  BY <1>3 DEF EventOK
<1>5. \A f \in Evs(id) : f = e
  BY <1>1, <1>4, AloneEvent DEF Holding, Open
<1>6. RecordOK(id, n, item)
  BY <1>3 DEF PlacesOK
<1>7. Evs(id)' = {} /\ \A r \in Node : Queued(r, id)' = {}
  BY <1>2, <1>5
<1>8. Holding(id)' /\ Agreed(id, item.protocol, n)' /\ Kept(id[1], id)' = {}
  BY <1>3, <1>4, <1>6, <1>7 DEF Holding, Open, Idle, RecordOK, Agreed
<1>9. MeasuredOK(id, n, item.protocol)'
  BY <1>4, <1>8 DEF MeasuredOK
<1>10. MessageOK(id, packet)'
  <2>1. packet.dst = id[1]
    BY <1>6 DEF RecordOK
  <2> QED
    BY <1>9, <2>1 DEF MessageOK
<1>11. DrivenOK(id)'
  BY <1>2, <1>7, <1>10 DEF DrivenOK
<1>12. PlacesOK(id)'
  <2>1. Alike(Tx(id)', Tx(id))
    BY AlikeRefl
  <2>2. KeptOK(id, n, result)'
    <3>1. RecordOK(id, n, result)'
      BY <1>6, <2>1, RecordNext
    <3> QED
      BY <1>4, <3>1 DEF KeptOK
  <2>3. \A r \in Node : \A s \in Kept(r, id)' : s \in Kept(r, id) \/ KeptOK(id, r, s)'
    BY <2>2
  <2>4. AtMostOne(Kept(id[1], id)')
    BY <1>8 DEF AtMostOne
  <2> QED
    BY <1>3, <2>1, <2>3, <2>4, PlacesNext
<1>13. KeysOK(id)'
  <2>1. ~Untouched(id)
    BY <1>1 DEF Untouched
  <2>2. OneQubit => \A r \in Node : Rx(r, id)' # {} \/ Queued(r, id)' # {} => id \in data'[r]
    BY <1>3, <1>7 DEF KeysOK, NoRx, Alike
  <2> QED
    BY <1>3, <1>4, <2>1, <2>2, KeysNext
<1> QED
  BY <1>11, <1>12, <1>13 DEF OpOK

\* One qubit: the assertions of ReleaseQubit hold at the receiver.
LEMMA CanRelease ==
  ASSUME OInv, OneQubit, NEW n \in Node, NEW id \in Id, Rx(n, id) # {}
  PROVE  CanReleaseRx(n, id)
<1>1. Has(rx_qubits[n], id)
  BY AtIs DEF Rx
<1>2. id \in data[n]
  BY OpFacts DEF KeysOK
<1>3. ASSUME rx_queue[n] # <<>>
      PROVE  Head(rx_queue[n]).id \in data[n]
  <2>1. PICK queue \in Seq(Item(n)) : queue = rx_queue[n]
    BY NodeLists DEF OInv, DInv
  <2>2. PICK h : h = Head(queue)
    OBVIOUS
  <2>3. h \in Item(n) /\ Has(queue, h.id)
    BY <1>3, <2>1, <2>2, TailDistinct, HeadTailProperties
  <2>4. h.id \in Id /\ Queued(n, h.id) # {}
    BY <2>1, <2>3, AtIs, ItemFields DEF Queued
  <2>5. KeysOK(h.id)
    BY <2>4, OpFacts
  <2> QED
    BY <2>1, <2>2, <2>4, <2>5 DEF KeysOK
<1> QED
  BY <1>1, <1>2, <1>3 DEF CanReleaseRx

\* The operation whose qubit a receiver releases.
LEMMA ReleasedViews ==
  ASSUME OInv, NEW n \in Node, NEW id \in Id, NEW sent,
         CanReleaseRx(n, id), ReleaseAtReceiver(n, id, sent), \A p \in sent : p.id = id,
         Queued(n, id) = {}
  PROVE  /\ Msgs(id)' \subseteq Msgs(id) \cup sent
         /\ \A m \in Msgs(id) : m \in Msgs(id)'
         /\ \A r \in Node : /\ Queued(r, id)' \subseteq Queued(r, id)
                            /\ Rx(r, id)' \subseteq Rx(r, id)
                            /\ r # n => data'[r] = data[r]
         /\ OneQubit => NoRx(id)'
<1>1. PICK queue \in Seq(Item(n)) : queue = rx_queue[n] /\ Distinct(queue)
  BY NodeLists DEF OInv, DInv
<1>2. PICK h, nack : h = Head(queue) /\ nack = NACKFor(n, h.peer, h.id, h.protocol)
  OBVIOUS
<1>3. /\ nack.id = h.id
      /\ Promoted(n) = IF queue = <<>> THEN {} ELSE {nack}
  BY <1>1, <1>2 DEF NACKFor, Packet, Promoted
<1>4. n \in DOMAIN rx_qubits /\ n \in DOMAIN rx_queue
  BY NodeLists DEF OInv, DInv
<1>5. queue # <<>> => h.id # id
  <2>1. queue # <<>> => Has(queue, h.id)
    BY <1>1, <1>2, TailDistinct
  <2>2. ~Has(queue, id)
    BY <1>1, AtIs DEF Queued
  <2> QED
    BY <2>1, <2>2
<1>6. /\ OnlyAt(n, rx_qubits, rx_qubits') /\ rx_qubits'[n] = ReleasedRx(n, id)
      /\ OnlyAt(n, rx_queue, rx_queue')
      /\ rx_queue'[n] = IF queue = <<>> THEN queue ELSE Tail(queue)
  <2>1. OnlyAt(n, rx_qubits, rx_qubits') /\ rx_qubits'[n] = ReleasedRx(n, id)
    BY <1>4, OnlyAtExcept DEF ReleaseAtReceiver
  <2>2. /\ OnlyAt(n, rx_queue, rx_queue')
        /\ rx_queue'[n] = IF queue = <<>> THEN queue ELSE Tail(queue)
    BY <1>1, <1>4, OnlyAtExcept DEF ReleaseAtReceiver
  <2> QED
    BY <2>1, <2>2
<1>7. net \subseteq net' /\ net' \subseteq net \cup sent \cup Promoted(n)
  BY DEF ReleaseAtReceiver, Out
<1>8. Msgs(id)' \subseteq Msgs(id) \cup sent /\ \A m \in Msgs(id) : m \in Msgs(id)'
  <2>1. Msgs(id)' = {p \in net' : p.id = id}
    BY ViewsNext
  <2> QED
    BY <1>3, <1>5, <1>7, <2>1 DEF Msgs
<1>9. \A r \in Node : r # n => /\ Rx(r, id)' = Rx(r, id) /\ Queued(r, id)' = Queued(r, id)
                               /\ data'[r] = data[r]
  <2>1. \A r \in Node : r # n => Rx(r, id)' = Rx(r, id) /\ Queued(r, id)' = Queued(r, id)
    BY <1>6, ViewsNext DEF Rx, Queued, OnlyAt
  <2>2. \A r \in Node : r # n => data'[r] = data[r]
    BY DEF ReleaseAtReceiver, OInv, DInv, IInv, RestOK
  <2> QED
    BY <2>1, <2>2
<1>10. Queued(n, id)' \subseteq Queued(n, id)
  <2>1. Queued(n, id)' = At(rx_queue'[n], id) /\ Queued(n, id) = At(queue, id)
    BY <1>1, ViewsNext DEF Queued
  <2> QED
    BY <1>1, <1>2, <1>5, <1>6, <2>1, AtTail
<1>11. Rx(n, id)' \subseteq Rx(n, id) /\ (OneQubit => Rx(n, id)' = {})
  <2>1. Has(rx_qubits[n], id)
    BY DEF CanReleaseRx
  <2>2. Rx(n, id)' = At(ReleasedRx(n, id), id)
    BY <1>6, ViewsNext
  <2> QED
    BY <1>1, <1>2, <1>5, <2>1, <2>2, ReleasedRxAt DEF Rx
<1>12. OneQubit => NoRx(id)'
  <2>1. Rx(n, id) # {}
    BY AtIs DEF Rx, CanReleaseRx
  <2>2. OneQubit => \A r \in Node : r # n => Rx(r, id) = {}
    BY <2>1, OpFacts DEF PlacesOK
  <2> QED
    BY <1>9, <1>11, <2>2 DEF NoRx
<1> QED
  BY <1>8, <1>9, <1>10, <1>11, <1>12

\* ReleaseQubit at the receiver of a telegate.
LEMMA ReleaseReceiverOInv ==
  ASSUME OInv, DInv', NEW n \in Node, NEW id, NEW e \in events,
         e.fn = "ReleaseQubit", e.node = n, e.id = id, ~e.sender, events' = events \ {e},
         IF CanReleaseRx(n, id)
         THEN /\ ReleaseAtReceiver(n, id, {})
              /\ UNCHANGED <<sock, msg_count, tx_queue, tx_qubits, storage, failed>>
         ELSE failed' = "ReleaseQubit" /\ UNCHANGED <<sock, msg_count, held, data, net>>
  PROVE  OInv'
<1>1. IsDriver(e) /\ id \in Id /\ e \in Evs(id)
  BY DEF IsDriver, Evs, OInv, DInv, IInv, RestOK, Event
<1>2. EventOK(id, e) /\ KeysOK(id) /\ PlacesOK(id) /\ id[1] \in Node
  BY <1>1, OpFacts DEF DrivenOK
<1>3. n # id[1] /\ (OneQubit => Rx(n, id) # {})
  BY <1>1, <1>2 DEF EventOK
<1>4. /\ \A m \in Msgs(id) : m.type = "AWK"
      /\ \A f \in Evs(id) : IsDriver(f) => f = e
      /\ \A r \in Node : Queued(r, id) = {}
  BY <1>1, AloneEvent
<1>5. CASE ~CanReleaseRx(n, id)
  <2>1. ~OneQubit
    BY <1>1, <1>3, <1>5, CanRelease
  <2> QED
    BY <1>5, <2>1, FewerOInv
<1>6. CASE CanReleaseRx(n, id)
  <2>1. /\ ReleaseAtReceiver(n, id, {})
        /\ UNCHANGED <<sock, msg_count, tx_queue, tx_qubits, storage, failed>>
    BY <1>6
  <2>2. /\ Msgs(id)' = Msgs(id)
        /\ \A r \in Node : /\ Queued(r, id)' = {} /\ Rx(r, id)' \subseteq Rx(r, id)
                           /\ r # n => data'[r] = data[r]
        /\ OneQubit => NoRx(id)'
    BY <1>1, <1>4, <1>6, <2>1, ReleasedViews
  <2>3. /\ Tx(id)' = Tx(id) /\ Evs(id)' = Evs(id) \ {e}
        /\ \A r \in Node : Kept(r, id)' = Kept(r, id)
    BY <1>1, <2>1, ViewsNext DEF Tx, Evs, Kept
  <2>4. DrivenOK(id)'
    <3>1. ASSUME NEW f \in Evs(id)'
          PROVE  EventOK(id, f)'
      <4>1. ~IsDriver(f) /\ EventOK(id, f)
        BY <1>1, <1>4, <2>3, <3>1, OpFacts DEF DrivenOK
      <4> QED
        BY <2>3, <4>1 DEF EventOK, IsDriver, Idle
    <3>2. ASSUME NEW m \in Msgs(id)'
          PROVE  MessageOK(id, m)'
      <4>0. m \in Msgs(id) /\ DrivenOK(id)
        BY <1>1, <2>2, <3>2, OpFacts
      <4>1. m.type = "AWK" /\ AwkOK(id, m)
        BY <1>4, <4>0 DEF DrivenOK, MessageOK
      <4>2. AwkOK(id, m)'
        BY <1>2, <2>2, <2>3, <4>1 DEF AwkOK
      <4> QED
        BY <4>1, <4>2 DEF MessageOK
    <3> QED
      BY <2>2, <3>1, <3>2 DEF DrivenOK
  <2>5. PlacesOK(id)'
    <3>1. AtMostOne(Kept(id[1], id)')
      BY <1>2, <2>3 DEF PlacesOK
    <3>2. Alike(Tx(id)', Tx(id)) /\ \A r \in Node : Alike(Rx(r, id)', Rx(r, id))
      BY <2>2, <2>3, AlikeRefl
    <3>3. \A r \in Node : \A s \in Kept(r, id)' : s \in Kept(r, id)
      BY <2>3
    <3> QED
      BY <1>1, <1>2, <3>1, <3>2, <3>3, PlacesNext
  <2>6. KeysOK(id)'
    <3>1. ~Untouched(id)
      BY <1>1 DEF Untouched
    <3>2. OneQubit => \A r \in Node : Rx(r, id)' # {} \/ Queued(r, id)' # {} => id \in data'[r]
      BY <2>2 DEF NoRx
    <3> QED
      BY <1>1, <1>2, <1>3, <2>1, <2>2, <2>3, <3>1, <3>2, KeysNext
  <2>7. \A j \in Id : j # id => OpOK(j)'
    <3>1. OnlyAt(n, storage, storage') /\ \A j : j # id => At(storage'[n], j) = At(storage[n], j)
      BY <2>1 DEF OnlyAt
    <3>2. (\A p \in {} : p.id = id) /\ events' \subseteq events
      OBVIOUS
    <3>3. UNCHANGED <<msg_count, tx_queue, tx_qubits>>
      BY <2>1
    <3> QED
      BY <1>6, <2>1, <3>1, <3>2, <3>3, ReleaseOthers
  <2>8. \A r \in Node : SenderOK(r)'
    <3>1. \A r \in Node : \A i \in DOMAIN tx_queue[r] : tx_queue[r][i].id \in data'[r]
      <4> SUFFICES ASSUME NEW r \in Node, NEW i \in DOMAIN tx_queue[r]
                   PROVE  tx_queue[r][i].id \in data'[r]
        OBVIOUS
      <4>1. tx_queue[r][i].id \in data[r]
        BY DEF OInv, SenderOK
      <4>2. tx_queue[r][i].id[1] = r
        BY DEF OInv, DInv, WaitingUnheard
      <4>3. CASE r = n
        <5>1. tx_queue[r][i].id # id
          BY <1>3, <4>2, <4>3
        <5> QED
          BY <2>1, <4>1, <4>3, <5>1 DEF ReleaseAtReceiver, OInv, DInv, IInv, RestOK
      <4>4. CASE r # n
        BY <2>2, <4>1, <4>4
      <4> QED
        BY <4>3, <4>4
    <3> QED
      BY <2>1, <3>1, SenderFrame
  <2> QED
    BY <2>1, <2>4, <2>5, <2>6, <2>7, <2>8 DEF OInv, OpOK
<1> QED
  BY <1>5, <1>6

LEMMA SendClassicalOInv ==
  ASSUME OInv, DInv', NEW n \in Node, NEW id, SendClassical(n, id)
  PROVE  OInv'
<1> DEFINE s == Slot(rx_qubits[n], id)
           it == rx_qubits[n][s]
           result0 == [it EXCEPT !.operating = FALSE, !.x = TRUE, !.z = it.protocol = "teledata"]
           packet0 == Packet("Classical", n, it.peer, id, it.protocol, TRUE,
                             it.protocol = "teledata")
           Measured ==
             /\ storage' = [storage EXCEPT ![n] = Append(storage[n], result0)]
             /\ IF DoneAtOnce(it.protocol)
                THEN ReleaseAtReceiver(n, id, {packet0})
                ELSE /\ rx_qubits' = [rx_qubits EXCEPT ![n][s].operating = FALSE]
                     /\ net' = net \cup Out(n, {packet0})
                     /\ UNCHANGED <<rx_queue, data>>
             /\ UNCHANGED <<sock, msg_count, tx_queue, tx_qubits, failed>>
<1>1. PICK e \in events :
        /\ e.fn = "SendClassical" /\ e.node = n /\ e.id = id
        /\ events' = events \ {e}
        /\ IF ~Has(rx_qubits[n], id)
           THEN failed' = "SendClassical" /\ UNCHANGED <<sock, msg_count, held, data, net>>
           ELSE IF ~it.operating
           THEN UNCHANGED <<sock, msg_count, held, data, net, failed>>
           ELSE IF DoneAtOnce(it.protocol) /\ ~CanReleaseRx(n, id)
           THEN failed' = "ReleaseQubit" /\ UNCHANGED <<sock, msg_count, held, data, net>>
           ELSE Measured
  BY DEF SendClassical
<1>2. IsDriver(e) /\ id \in Id /\ e \in Evs(id)
  BY <1>1 DEF IsDriver, Evs, OInv, DInv, IInv, RestOK, Event
<1>3. EventOK(id, e) /\ KeysOK(id) /\ PlacesOK(id) /\ id[1] \in Node
  BY <1>2, OpFacts DEF DrivenOK
<1>4. n # id[1] /\ (OneQubit => Rx(n, id) # {})
  BY <1>1, <1>3 DEF EventOK
<1>5. CASE ~Has(rx_qubits[n], id)
  <2>1. ~OneQubit
    BY <1>4, <1>5, AtIs DEF Rx
  <2> QED
    BY <1>1, <1>5, <2>1, FewerOInv
<1>6. CASE Has(rx_qubits[n], id) /\ ~it.operating
  <2>1. UNCHANGED <<sock, msg_count, held, data, net, failed>>
    BY <1>1, <1>6
  <2> QED
    BY <1>1, <2>1, FewerOInv DEF OInv
<1>7. CASE Has(rx_qubits[n], id) /\ it.operating /\ DoneAtOnce(it.protocol) /\ ~CanReleaseRx(n, id)
  <2>1. ~OneQubit
    BY <1>2, <1>4, <1>7, CanRelease
  <2> QED
    BY <1>1, <1>7, <2>1, FewerOInv
<1>8. CASE Has(rx_qubits[n], id) /\ Measured /\ (DoneAtOnce(it.protocol) => CanReleaseRx(n, id))
  <2>1. rx_qubits[n] \in Seq(Item(n)) /\ storage[n] \in Seq(Item(n)) /\ n \in DOMAIN storage
    BY NodeLists DEF OInv, DInv
  <2>2. PICK k : k = s
    OBVIOUS
  <2>3. k \in 1..Len(rx_qubits[n]) /\ rx_qubits[n][k].id = id /\ rx_qubits[n][k] \in Item(n)
        /\ rx_qubits[n][k] \in At(rx_qubits[n], id)
    BY <1>8, <2>1, <2>2, SlotAt
  <2>4. PICK item \in Item(n) : item = rx_qubits[n][k] /\ item \in Rx(n, id) /\ item.id = id
    BY <2>3 DEF Rx
  <2>5. item.protocol \in {"teledata", "telegate"}
    BY <2>4, ItemFields, ParametersAssumption
  <2>6. PICK result, packet :
          /\ result = [item EXCEPT !.operating = FALSE, !.x = TRUE, !.z = item.protocol = "teledata"]
          /\ packet = Packet("Classical", n, item.peer, id, item.protocol, TRUE,
                             item.protocol = "teledata")
    OBVIOUS
  <2>7. /\ result \in Item(n) /\ result.id = id
        /\ result.peer = item.peer /\ result.protocol = item.protocol
        /\ result.x = TRUE /\ result.z = (item.protocol = "teledata")
    BY <2>4, <2>6 DEF Item
  <2>8. /\ packet.id = id /\ packet.type = "Classical" /\ packet.src = n
        /\ packet.dst = Peers[n][item.peer] /\ packet.protocol = item.protocol
        /\ packet.x = TRUE /\ packet.z = (item.protocol = "teledata")
    BY <2>6 DEF Packet
  <2>9. /\ storage' = [storage EXCEPT ![n] = Append(storage[n], result)]
        /\ item.protocol = "teledata" => ReleaseAtReceiver(n, id, {packet})
        /\ item.protocol = "telegate" =>
             /\ rx_qubits' = [rx_qubits EXCEPT ![n][k].operating = FALSE]
             /\ net' = net \cup Out(n, {packet})
             /\ UNCHANGED <<rx_queue, data>>
        /\ UNCHANGED <<msg_count, tx_queue, tx_qubits, failed>>
        /\ item.protocol = "teledata" => CanReleaseRx(n, id)
    BY <1>8, <2>2, <2>4, <2>6 DEF DoneAtOnce
  <2>10. events' = events \ {e}
    BY <1>1
  <2> HIDE DEF s, it, result0, packet0, Measured
  <2>11. /\ OnlyAt(n, storage, storage') /\ At(storage'[n], id) = At(storage[n], id) \cup {result}
         /\ \A j : j # id => At(storage'[n], j) = At(storage[n], j)
    <3>1. OnlyAt(n, storage, storage') /\ storage'[n] = Append(storage[n], result)
      BY <2>1, <2>9, OnlyAtExcept
    <3>2. \A j : At(Append(storage[n], result), j)
                   = IF result.id = j THEN At(storage[n], j) \cup {result} ELSE At(storage[n], j)
      BY <2>1, <2>7, AtAppend
    <3> QED
      BY <2>7, <3>1, <3>2
  <2>12. /\ Kept(n, id)' = Kept(n, id) \cup {result}
         /\ \A r \in Node : r # n => Kept(r, id)' = Kept(r, id)
    <3>1. Kept(n, id)' = Kept(n, id) \cup {result}
      BY <2>11, ViewsNext DEF Kept
    <3>2. \A r \in Node : r # n => Kept(r, id)' = Kept(r, id)
      BY <2>11, ViewsNext DEF Kept, OnlyAt
    <3> QED
      BY <3>1, <3>2
  <2>13. Tx(id)' = Tx(id) /\ Evs(id)' = Evs(id) \ {e}
    BY <1>2, <2>9, <2>10, ViewsNext DEF Tx, Evs
  <2>14. \A r \in Node : Queued(r, id) = {}
    BY <1>1, <1>2, AloneEvent
  <2>15. CASE item.protocol = "teledata"
    <3>1. /\ Msgs(id)' \subseteq Msgs(id) \cup {packet}
          /\ \A r \in Node : /\ Queued(r, id)' \subseteq Queued(r, id)
                             /\ Rx(r, id)' \subseteq Rx(r, id)
                             /\ r # n => data'[r] = data[r]
          /\ OneQubit => NoRx(id)'
      BY <1>2, <2>8, <2>9, <2>14, <2>15, ReleasedViews
    <3>2. \A r \in Node : Alike(Rx(r, id)', Rx(r, id))
      BY <3>1, AlikeRefl
    <3>3. \A r \in Node : r # n => Kept(r, id)' = Kept(r, id) /\ (id \in data[r] => id \in data'[r])
      BY <2>12, <3>1
    <3>4. OneQubit => IF item.protocol = "telegate"
                      THEN Rx(n, id)' # {} /\ \A r \in Node : id \in data[r] => id \in data'[r]
                      ELSE NoRx(id)'
      BY <2>15, <3>1
    <3>5. OpOK(id)'
      <4>1. e.fn = "SendClassical" /\ e.node = n /\ e.id = id /\ UNCHANGED <<msg_count, tx_queue>>
        BY <1>1, <2>9
      <4>2. \A r \in Node : Queued(r, id)' \subseteq Queued(r, id)
        BY <3>1
      <4>3. item \in Rx(n, id) /\ Msgs(id)' \subseteq Msgs(id) \cup {packet}
        BY <2>4, <3>1
      <4>4. Kept(n, id)' = Kept(n, id) \cup {result} /\ id \in Id
        BY <1>2, <2>12
      <4>5. MeasuredStep(n, id, e, item, result, packet)
        BY <2>7, <2>8, <2>13, <3>2, <3>3, <3>4, <4>1, <4>2, <4>3, <4>4 DEF MeasuredStep
      <4> QED
        BY <4>4, <4>5, MeasuredOp
    <3>6. \A j \in Id : j # id => OpOK(j)'
      <4>1. (\A p \in {packet} : p.id = id) /\ events' \subseteq events
        BY <2>8, <2>10
      <4>2. CanReleaseRx(n, id) /\ ReleaseAtReceiver(n, id, {packet})
            /\ UNCHANGED <<msg_count, tx_queue, tx_qubits>>
        BY <2>9, <2>15
      <4> QED
        BY <2>11, <4>1, <4>2, ReleaseOthers
    <3>7. \A r \in Node : SenderOK(r)'
      <4>1. \A r \in Node : \A i \in DOMAIN tx_queue[r] : tx_queue[r][i].id \in data'[r]
        <5> SUFFICES ASSUME NEW r \in Node, NEW i \in DOMAIN tx_queue[r]
                     PROVE  tx_queue[r][i].id \in data'[r]
          OBVIOUS
        <5>1. tx_queue[r][i].id \in data[r]
          BY DEF OInv, SenderOK
        <5>2. tx_queue[r][i].id[1] = r
          BY DEF OInv, DInv, WaitingUnheard
        <5>3. CASE r = n
          <6>1. tx_queue[r][i].id # id
            BY <1>4, <5>2, <5>3
          <6> QED
            BY <2>9, <2>15, <5>1, <5>3, <6>1 DEF ReleaseAtReceiver, OInv, DInv, IInv, RestOK
        <5>4. CASE r # n
          BY <3>1, <5>1, <5>4
        <5> QED
          BY <5>3, <5>4
      <4> QED
        BY <2>9, <4>1, SenderFrame
    <3> QED
      BY <2>9, <3>5, <3>6, <3>7 DEF OInv
  <2>16. CASE item.protocol = "telegate"
    <3>1. PICK new : new = [item EXCEPT !.operating = FALSE]
      OBVIOUS
    <3>2. new.id = id /\ new.peer = item.peer /\ new.protocol = item.protocol
      BY <2>4, <3>1 DEF Item
    <3>3. RxUpdate(n, k, new)
      <4>1. rx_qubits' = [rx_qubits EXCEPT ![n] = [rx_qubits[n] EXCEPT ![k] = new]]
        BY <2>4, <2>9, <2>16, <3>1
      <4> QED
        BY <2>3, <2>4, <3>2, <4>1 DEF RxUpdate
    <3>4. /\ \A r \in Node : Alike(Rx(r, id)', Rx(r, id)) /\ (Rx(r, id) # {} => Rx(r, id)' # {})
          /\ OnlyAt(n, rx_qubits, rx_qubits')
          /\ \A j : j # id => At(rx_qubits'[n], j) = At(rx_qubits[n], j)
      <4>1. /\ \A r \in Node : Alike(Rx(r, new.id)', Rx(r, new.id))
                               /\ (Rx(r, new.id) # {} => Rx(r, new.id)' # {})
            /\ OnlyAt(n, rx_qubits, rx_qubits')
            /\ \A j : j # new.id => At(rx_qubits'[n], j) = At(rx_qubits[n], j)
        BY <3>3, RxChanged
      <4> QED
        BY <3>2, <4>1
    <3>5. Msgs(id)' \subseteq Msgs(id) \cup {packet}
      <4>1. Msgs(id)' = {p \in net' : p.id = id}
        BY ViewsNext
      <4> QED
        BY <2>9, <2>16, <4>1 DEF Msgs, Out
    <3>6. \A r \in Node : Queued(r, id)' = Queued(r, id)
      BY <2>9, <2>16, ViewsNext DEF Queued
    <3>7. OneQubit => IF item.protocol = "telegate"
                      THEN Rx(n, id)' # {} /\ \A r \in Node : id \in data[r] => id \in data'[r]
                      ELSE NoRx(id)'
      BY <2>4, <2>9, <2>16, <3>4
    <3>8. \A r \in Node : r # n => Kept(r, id)' = Kept(r, id) /\ (id \in data[r] => id \in data'[r])
      BY <2>9, <2>12, <2>16
    <3>9. OpOK(id)'
      <4>1. e.fn = "SendClassical" /\ e.node = n /\ e.id = id /\ UNCHANGED <<msg_count, tx_queue>>
        BY <1>1, <2>9
      <4>2. \A r \in Node : Queued(r, id)' \subseteq Queued(r, id)
        BY <3>6
      <4>3. item \in Rx(n, id) /\ \A r \in Node : Alike(Rx(r, id)', Rx(r, id))
        BY <2>4, <3>4
      <4>4. Kept(n, id)' = Kept(n, id) \cup {result} /\ id \in Id
        BY <1>2, <2>12
      <4>5. MeasuredStep(n, id, e, item, result, packet)
        BY <2>7, <2>8, <2>13, <3>5, <3>7, <3>8, <4>1, <4>2, <4>3, <4>4 DEF MeasuredStep
      <4> QED
        BY <4>4, <4>5, MeasuredOp
    <3>10. \A j \in Id : j # id => OpOK(j)'
      <4>1. OnlyAt(n, tx_qubits, tx_qubits') /\ OnlyAt(n, rx_queue, rx_queue')
        BY <2>9, <2>16 DEF OnlyAt
      <4>2. (\A p \in net' : p \in net \/ p.id = id) /\ (\A f \in events' : f \in events \/ f.id = id)
        BY <2>8, <2>9, <2>10, <2>16 DEF Out
      <4>3. \A j : j # id => /\ At(tx_qubits'[n], j) = At(tx_qubits[n], j)
                             /\ At(rx_qubits'[n], j) = At(rx_qubits[n], j)
                             /\ At(rx_queue'[n], j) = At(rx_queue[n], j)
                             /\ At(storage'[n], j) = At(storage[n], j)
        BY <2>9, <2>11, <2>16, <3>4
      <4>4. \A r \in Node : \A j \in data[r] : j # id => j \in data'[r]
        BY <2>9, <2>16
      <4> QED
        BY <2>9, <2>11, <3>4, <4>1, <4>2, <4>3, <4>4, FrameOthers
    <3>11. \A r \in Node : SenderOK(r)'
      BY <2>9, <2>16, SenderFrame DEF OInv, SenderOK
    <3> QED
      BY <2>9, <3>9, <3>10, <3>11 DEF OInv
  <2> QED
    BY <2>5, <2>15, <2>16
<1> QED
  BY <1>1, <1>5, <1>6, <1>7, <1>8

-----------------------------------------------------------------------------
(***************************************************************************)
(* Send: Run, and ReleaseQubit at the sender.                              *)
(***************************************************************************)
\* Send: k operations leave m_tx_queue, and their qubits are sent.
SendStep(n, base, queue, k, gone) ==
  /\ base \in Seq(Item(n)) /\ Distinct(base)
  /\ \A i \in DOMAIN base : base[i].id[1] = n
  /\ \A j : /\ At(base, j) \subseteq At(tx_qubits[n], j)
            /\ j \notin gone => At(base, j) = At(tx_qubits[n], j)
  /\ queue \in Seq(Item(n)) /\ Distinct(queue) /\ k \in 0..Len(queue)
  /\ \A i \in DOMAIN queue :
       /\ queue[i].id[1] = n /\ queue[i].id[2] < msg_count'[n] /\ Unsent(queue[i].id)
       /\ queue[i].operating = FALSE /\ queue[i].id \in data'[n]
  /\ tx_qubits' = [tx_qubits EXCEPT ![n] = base \o FirstOf(queue, k)]
  /\ tx_queue' = [tx_queue EXCEPT ![n] = AfterFirst(queue, k)]
  /\ net' \subseteq net \cup {QubitOf(n, queue[i]) : i \in 1..k}
  /\ events' \subseteq events /\ UNCHANGED <<rx_queue, rx_qubits, storage>>
  /\ \A r \in Node : /\ msg_count[r] <= msg_count'[r]
                     /\ \A j \in data[r] : r # n \/ j \notin gone => j \in data'[r]

\* An operation that Send takes from the queue was unknown everywhere.
LEMMA SentOp ==
  ASSUME NoOwnPeer, OInv, DInv', NEW n \in Node, NEW j \in Id, Untouched(j), j[1] = n,
         NEW it \in Item(n), it.id = j, it.operating = FALSE,
         Tx(j)' = {it}, Msgs(j)' \subseteq {QubitOf(n, it)}, Evs(j)' = {},
         \A r \in Node : Rx(r, j)' = {} /\ Queued(r, j)' = {} /\ Kept(r, j)' = {},
         j \in data'[n], ~Unsent(j)'
  PROVE  OpOK(j)'
<1>1. PICK m : m = QubitOf(n, it)
  OBVIOUS
<1>2. /\ m.type = "Qubit" /\ m.src = n /\ m.dst = Peers[n][it.peer]
      /\ m.protocol = it.protocol
  BY <1>1 DEF QubitOf, Packet
<1>3. m.dst # n
  BY <1>2, ItemFields DEF NoOwnPeer
<1>4. Kept(j[1], j)' = {} /\ j[1] \in Node
  OBVIOUS
<1>5. Holding(j)' /\ Agreed(j, m.protocol, m.dst)' /\ NoRx(j)'
  BY <1>2, <1>4 DEF Holding, Open, Idle, Agreed, NoRx
<1>6. MessageOK(j, m)'
  BY <1>2, <1>3, <1>5 DEF MessageOK, QubitOK
<1>7. DrivenOK(j)'
  BY <1>1, <1>6 DEF DrivenOK
<1>8. PlacesOK(j)'
  BY <1>4 DEF PlacesOK, AtMostOne
<1>9. KeysOK(j)'
  BY DEF KeysOK
<1> QED
  BY <1>7, <1>8, <1>9 DEF OpOK

LEMMA SendOps ==
  ASSUME NoOwnPeer, OInv, DInv', NEW n \in Node, NEW base, NEW queue, NEW k, NEW gone,
         SendStep(n, base, queue, k, gone)
  PROVE  /\ \A j \in Id : j \notin gone => OpOK(j)'
         /\ \A r \in Node : SenderOK(r)'
         /\ \A j \in Id : Unsent(j)' => Unsent(j)
         /\ \A j \in Id : (\A i \in 1..k : queue[i].id # j) =>
                           At(tx_qubits'[n], j) = At(base, j)
         /\ \A j \in Id : ~Unsent(j) => /\ Msgs(j)' \subseteq Msgs(j)
                                        /\ At(tx_qubits'[n], j) = At(base, j)
<1>a. /\ base \in Seq(Item(n)) /\ Distinct(base)
      /\ \A i \in DOMAIN base : base[i].id[1] = n
      /\ \A j : /\ At(base, j) \subseteq At(tx_qubits[n], j)
                /\ j \notin gone => At(base, j) = At(tx_qubits[n], j)
  BY DEF SendStep
<1>b. queue \in Seq(Item(n)) /\ Distinct(queue) /\ k \in 0..Len(queue)
  BY DEF SendStep
<1>c. \A i \in DOMAIN queue :
        /\ queue[i].id[1] = n /\ queue[i].id[2] < msg_count'[n] /\ Unsent(queue[i].id)
        /\ queue[i].operating = FALSE /\ queue[i].id \in data'[n]
  BY DEF SendStep
<1>d. /\ tx_qubits' = [tx_qubits EXCEPT ![n] = base \o FirstOf(queue, k)]
      /\ tx_queue' = [tx_queue EXCEPT ![n] = AfterFirst(queue, k)]
  BY DEF SendStep
<1>e. /\ net' \subseteq net \cup {QubitOf(n, queue[i]) : i \in 1..k}
      /\ events' \subseteq events /\ UNCHANGED <<rx_queue, rx_qubits, storage>>
  BY DEF SendStep
<1>f. \A r \in Node : /\ msg_count[r] <= msg_count'[r]
                      /\ \A j \in data[r] : r # n \/ j \notin gone => j \in data'[r]
  BY DEF SendStep
<1>1. /\ \A i \in 1..k : i \in DOMAIN queue /\ queue[i] \in Item(n) /\ queue[i].id \in Id
      /\ \A i \in DOMAIN queue : queue[i].id \in Id /\ Untouched(queue[i].id)
  <2>1. DOMAIN queue = 1..Len(queue) /\ \A i \in 1..Len(queue) : queue[i] \in Item(n)
    BY <1>b, DomainOfSeq, ElementOfSeq
  <2>2. \A i \in 1..k : i \in 1..Len(queue)
    BY <1>b, DomainOfSeq
  <2>3. \A i \in DOMAIN queue : queue[i].id \in Id
    BY <2>1, ItemFields
  <2>4. \A i \in DOMAIN queue : Untouched(queue[i].id)
    BY <1>c, <2>3, OpFacts DEF KeysOK
  <2> QED
    BY <2>1, <2>2, <2>3, <2>4
<1>2. \A i \in 1..k : At(base, queue[i].id) = {}
  <2>1. \A i \in 1..k : At(tx_qubits[n], queue[i].id) = {}
    BY <1>1, <1>c DEF Untouched, Tx
  <2> QED
    BY <1>a, <2>1
<1>3. PICK list : Moved(list, base, queue, k)
  BY DEF Moved
<1>4. /\ Distinct(list)
      /\ \A j : (\A i \in 1..k : queue[i].id # j) => At(list, j) = At(base, j)
      /\ \A i \in 1..k : At(list, queue[i].id) = {queue[i]}
      /\ \A l \in DOMAIN list : \/ \E i \in DOMAIN base : list[l] = base[i]
                                \/ \E i \in 1..k : list[l] = queue[i]
  <2>1. base \in Seq(Item(n)) /\ queue \in Seq(Item(n)) /\ k \in 0..Len(queue)
    BY <1>a, <1>b
  <2>2. Distinct(base) /\ Distinct(queue)
    BY <1>a, <1>b
  <2>3. MovedOK(list, base, queue, k)
    BY <1>2, <1>3, <2>1, <2>2, AtMoved
  <2> QED
    BY <2>3 DEF MovedOK
<1>5. PICK rest : rest = AfterFirst(queue, k)
  OBVIOUS
<1>6. \A l \in DOMAIN rest : \E i \in DOMAIN queue : /\ rest[l] = queue[i]
                                                     /\ \A h \in 1..k : queue[h].id # queue[i].id
  BY <1>b, <1>5, RestDistinct
<1>7. /\ OnlyAt(n, tx_qubits, tx_qubits') /\ tx_qubits'[n] = list
      /\ OnlyAt(n, tx_queue, tx_queue') /\ tx_queue'[n] = rest
  <2>1. n \in DOMAIN tx_qubits /\ n \in DOMAIN tx_queue
    BY NodeLists DEF OInv, DInv
  <2> QED
    BY <1>3, <1>5, <1>d, <2>1, OnlyAtExcept DEF Moved
<1>8. \A i \in 1..k : QubitOf(n, queue[i]).id = queue[i].id
  BY DEF QubitOf, Packet
<1>9. ASSUME NEW j \in Id, Unsent(j)'
      PROVE  Unsent(j)
  <2>1. j[1] \in Node /\ j[2] \in Nat /\ msg_count[j[1]] \in Nat /\ msg_count'[j[1]] \in Nat
    BY DEF Id, OInv, DInv, IInv, RestOK
  <2>2. CASE j[2] >= msg_count'[j[1]]
    BY <1>f, <2>1, <2>2 DEF Unsent
  <2>3. CASE Has(tx_queue'[j[1]], j)
    <3>1. CASE j[1] = n
      <4>1. PICK l \in DOMAIN rest : rest[l].id = j
        BY <1>7, <2>3, <3>1 DEF Has
      <4> QED
        BY <1>6, <1>c, <4>1
    <3>2. CASE j[1] # n
      BY <1>7, <2>1, <2>3, <3>2 DEF OnlyAt, Unsent
    <3> QED
      BY <3>1, <3>2
  <2> QED
    BY <1>9, <2>2, <2>3 DEF Unsent
<1>10. ASSUME NEW j \in Id, \A i \in 1..k : queue[i].id # j
       PROVE  Msgs(j)' \subseteq Msgs(j) /\ At(tx_qubits'[n], j) = At(base, j)
  <2>1. Msgs(j)' = {p \in net' : p.id = j}
    BY ViewsNext
  <2>2. Msgs(j)' \subseteq Msgs(j)
    BY <1>8, <1>10, <1>e, <2>1 DEF Msgs
  <2> QED
    BY <1>4, <1>7, <1>10, <2>2
<1>11. \A j \in Id : ~Unsent(j) => \A i \in 1..k : queue[i].id # j
  BY <1>1, <1>c
<1>12. ASSUME NEW j \in Id, j \notin gone
       PROVE  OpOK(j)'
  <2>1. j[1] \in Node
    BY DEF Id
  <2>2. /\ Evs(j)' \subseteq Evs(j)
        /\ \A r \in Node : /\ Rx(r, j)' = Rx(r, j) /\ Queued(r, j)' = Queued(r, j)
                           /\ Kept(r, j)' = Kept(r, j) /\ (j \in data[r] => j \in data'[r])
    BY <1>12, <1>e, <1>f, ViewsNext DEF Evs, Rx, Queued, Kept
  <2>3. CASE \E i \in 1..k : queue[i].id = j
    <3>1. PICK i \in 1..k : queue[i].id = j
      BY <2>3
    <3>2. PICK it \in Item(n) : it = queue[i]
      BY <1>1
    <3>3. it.id = j /\ j[1] = n /\ it.operating = FALSE /\ j \in data'[n] /\ Untouched(j)
          /\ j[2] < msg_count'[n]
      BY <1>1, <1>c, <3>1, <3>2
    <3>4. Tx(j)' = {it}
      BY <1>4, <1>7, <3>1, <3>2, <3>3, ViewsNext
    <3>5. Msgs(j)' \subseteq {QubitOf(n, it)}
      <4>1. Msgs(j)' = {p \in net' : p.id = j}
        BY ViewsNext
      <4>2. \A h \in 1..k : queue[h].id = j => queue[h] = it
        BY <1>1, <1>b, <3>1, <3>2 DEF Distinct
      <4>3. Msgs(j) = {}
        BY <3>3 DEF Untouched
      <4>4. \A p \in net' : p.id = j => p \in Msgs(j) \/ \E h \in 1..k : p = QubitOf(n, queue[h])
        BY <1>e DEF Msgs
      <4>5. ASSUME NEW p \in Msgs(j)'
            PROVE  p = QubitOf(n, it)
        <5>1. p \in net' /\ p.id = j
          BY <4>1, <4>5
        <5>2. PICK h \in 1..k : p = QubitOf(n, queue[h])
          BY <4>3, <4>4, <5>1
        <5>3. queue[h].id = j
          BY <1>8, <5>1, <5>2
        <5> QED
          BY <4>2, <5>2, <5>3
      <4> QED
        BY <4>5
    <3>6. Evs(j)' = {} /\ \A r \in Node : Rx(r, j)' = {} /\ Queued(r, j)' = {} /\ Kept(r, j)' = {}
      BY <2>2, <3>3 DEF Untouched
    <3>7. ~Unsent(j)'
      <4>1. ~Has(rest, j)
        BY <1>6, <3>1 DEF Has
      <4>2. ~(j[2] >= msg_count'[n])
        <5>1. j[2] \in Nat /\ msg_count'[n] \in Nat
          BY DEF Id, DInv, IInv, RestOK
        <5> QED
          BY <3>3, <5>1
      <4> QED
        BY <1>7, <3>3, <4>1, <4>2 DEF Unsent
    <3> QED
      BY <3>3, <3>4, <3>5, <3>6, <3>7, SentOp
  <2>4. CASE \A i \in 1..k : queue[i].id # j
    <3>1. Msgs(j)' \subseteq Msgs(j) /\ At(tx_qubits'[n], j) = At(tx_qubits[n], j)
      BY <1>10, <1>12, <1>a, <2>4
    <3>2. Tx(j)' = Tx(j)
      <4>1. Tx(j)' = At(tx_qubits'[j[1]], j)
        BY ViewsNext
      <4> QED
        BY <1>7, <2>1, <3>1, <4>1 DEF Tx, OnlyAt
    <3>3. Unsent(j)' => Unsent(j)
      BY <1>9
    <3> QED
      BY <2>2, <3>1, <3>2, <3>3, FrameOp DEF OInv, DInv
  <2> QED
    BY <2>3, <2>4
<1>13. ASSUME NEW r \in Node
       PROVE  SenderOK(r)'
  <2>1. SenderOK(r)
    BY DEF OInv
  <2>2. CASE r = n
    <3>1. \A i \in DOMAIN list : list[i].id[1] = n
      BY <1>1, <1>4, <1>a, <1>c
    <3>2. \A i \in DOMAIN rest : rest[i].id \in data'[n] /\ rest[i].operating = FALSE
      BY <1>6, <1>c
    <3> QED
      BY <1>4, <1>7, <2>2, <3>1, <3>2 DEF SenderOK, Distinct
  <2>3. CASE r # n
    <3>1. tx_qubits'[r] = tx_qubits[r] /\ tx_queue'[r] = tx_queue[r]
      BY <1>7, <2>3 DEF OnlyAt
    <3>2. \A i \in DOMAIN tx_queue[r] : tx_queue[r][i].id \in data'[r]
      BY <1>f, <2>1, <2>3 DEF SenderOK
    <3> QED
      BY <2>1, <3>1, <3>2 DEF SenderOK, Distinct
  <2> QED
    BY <2>2, <2>3
<1> QED
  BY <1>9, <1>10, <1>11, <1>12, <1>13

LEMMA AppendElements ==
  ASSUME NEW S, NEW seq \in Seq(S), NEW it \in S
  PROVE  \A i \in DOMAIN Append(seq, it) : \/ i \in DOMAIN seq /\ Append(seq, it)[i] = seq[i]
                                           \/ Append(seq, it)[i] = it
<1>1. DOMAIN seq = 1..Len(seq) /\ Len(seq) \in Nat
  BY DomainOfSeq
<1>2. Append(seq, it) \in Seq(S) /\ Len(Append(seq, it)) = Len(seq) + 1
      /\ \A i \in 1..Len(seq) : Append(seq, it)[i] = seq[i]
      /\ Append(seq, it)[Len(seq) + 1] = it
  BY AppendProperties
<1>3. DOMAIN Append(seq, it) = 1..(Len(seq) + 1)
  BY <1>2, DomainOfSeq
<1>4. \A i \in 1..(Len(seq) + 1) : i \in 1..Len(seq) \/ i = Len(seq) + 1
  BY <1>1
<1> QED
  BY <1>1, <1>2, <1>3, <1>4

\* Run, with the operation it makes, m_tx_queue with it, and how many are sent.
RunStep(n, item, queue, k) ==
  IF \A i \in 1..k : queue[i].id \in data[n] \cup {item.id}
  THEN /\ msg_count' = [msg_count EXCEPT ![n] = @ + 1]
       /\ tx_queue'  = [tx_queue EXCEPT ![n] = AfterFirst(queue, k)]
       /\ tx_qubits' = [tx_qubits EXCEPT ![n] = @ \o FirstOf(queue, k)]
       /\ data' = [data EXCEPT ![n] = @ \cup {item.id}]
       /\ net'  = net \cup {QubitOf(n, queue[i]) : i \in 1..k}
       /\ UNCHANGED <<rx_queue, rx_qubits, storage, events, failed>>
  ELSE Abort("Send")

\* The operation that Run adds to m_tx_queue.
NewOperation(n, queue) ==
  /\ msg_count' = [msg_count EXCEPT ![n] = @ + 1]
  /\ \E item \in Item(n) :
       /\ item.id = <<n, msg_count[n]>> /\ item.x = FALSE /\ item.z = FALSE
       /\ queue = Append(tx_queue[n], item)

\* Run never fails its assertion: what waits in m_tx_queue has its key.
LEMMA RunBodySends ==
  ASSUME OInv, NEW n \in Node, RunBody(n)
  PROVE  \E queue, k :
           /\ SendStep(n, tx_qubits[n], queue, k, {})
           /\ net' = net \cup {QubitOf(n, queue[i]) : i \in 1..k}
           /\ UNCHANGED <<events, failed>>
           /\ NewOperation(n, queue) /\ k = Movable(queue, tx_qubits[n])
<1>1. PICK p \in DOMAIN Peers[n], protocol \in Protocols :
        LET item == [id |-> <<n, msg_count[n]>>, peer |-> p, protocol |-> protocol,
                     has_qubit |-> FALSE, operating |-> FALSE, x |-> FALSE, z |-> FALSE]
            waiting == Append(tx_queue[n], item)
            k == Movable(waiting, tx_qubits[n])
        IN RunStep(n, item, waiting, k)
  BY DEF RunBody, RunStep
<1>2. PICK id, item, queue, k :
        /\ id = <<n, msg_count[n]>>
        /\ item = [id |-> id, peer |-> p, protocol |-> protocol,
                   has_qubit |-> FALSE, operating |-> FALSE, x |-> FALSE, z |-> FALSE]
        /\ queue = Append(tx_queue[n], item)
        /\ k = Movable(queue, tx_qubits[n])
  OBVIOUS
<1>3. msg_count[n] \in Nat /\ id \in Id /\ id[1] = n /\ id[2] = msg_count[n]
      /\ msg_count \in [Node -> Nat] /\ data \in [Node -> SUBSET Id]
  BY <1>2 DEF OInv, DInv, IInv, RestOK, Id
<1>4. item \in Item(n) /\ item.id = id /\ item.operating = FALSE
  BY <1>2, <1>3 DEF Item
<1>5. tx_queue[n] \in Seq(Item(n)) /\ tx_qubits[n] \in Seq(Item(n)) /\ Len(tx_qubits[n]) <= NumQubits
  BY DEF OInv, DInv, IInv, HeldOK, NodeOK
<1>6. Distinct(tx_queue[n]) /\ ~Has(tx_queue[n], id)
  BY <1>3 DEF OInv, DInv, WaitingUnheard, Has
<1>7. /\ queue \in Seq(Item(n)) /\ Distinct(queue)
      /\ \A i \in DOMAIN queue : \/ i \in DOMAIN tx_queue[n] /\ queue[i] = tx_queue[n][i]
                                 \/ queue[i] = item
  <2>1. PICK seq : seq = tx_queue[n] /\ seq \in Seq(Item(n))
    BY <1>5
  <2>2. Distinct(seq) /\ ~Has(seq, item.id)
    BY <1>4, <1>6, <2>1
  <2>3. Append(seq, item) \in Seq(Item(n)) /\ Distinct(Append(seq, item))
    BY <1>4, <2>1, <2>2, AppendProperties, AppendDistinct
  <2>4. \A i \in DOMAIN Append(seq, item) : \/ i \in DOMAIN seq /\ Append(seq, item)[i] = seq[i]
                                           \/ Append(seq, item)[i] = item
    BY <1>4, <2>1, AppendElements
  <2>5. queue = Append(seq, item)
    BY <1>2, <2>1
  <2> QED
    BY <2>1, <2>3, <2>4, <2>5
<1>8. k \in 0..Len(queue)
  BY <1>2, <1>5, <1>7, MovableRange
<1>9. \A i \in DOMAIN queue : queue[i].id \in data[n] \cup {id} /\ queue[i].operating = FALSE
  BY <1>4, <1>7 DEF OInv, SenderOK
<1>10. \A i \in 1..k : i \in DOMAIN queue
  BY <1>7, <1>8, DomainOfSeq
<1>11. /\ msg_count' = [msg_count EXCEPT ![n] = @ + 1]
       /\ tx_queue'  = [tx_queue EXCEPT ![n] = AfterFirst(queue, k)]
       /\ tx_qubits' = [tx_qubits EXCEPT ![n] = tx_qubits[n] \o FirstOf(queue, k)]
       /\ data' = [data EXCEPT ![n] = @ \cup {id}]
       /\ net'  = net \cup {QubitOf(n, queue[i]) : i \in 1..k}
       /\ UNCHANGED <<rx_queue, rx_qubits, storage, events, failed>>
  <2>1. \A i \in 1..k : queue[i].id \in data[n] \cup {item.id}
    BY <1>4, <1>9, <1>10
  <2>2. RunStep(n, item, queue, k)
    BY <1>1, <1>2
  <2> QED
    BY <1>4, <2>1, <2>2 DEF RunStep
<1>12. /\ msg_count'[n] = msg_count[n] + 1 /\ \A r \in Node : msg_count[r] <= msg_count'[r]
       /\ data'[n] = data[n] \cup {id} /\ \A r \in Node : \A j \in data[r] : j \in data'[r]
  BY <1>3, <1>11
<1>13. ASSUME NEW i \in DOMAIN queue
       PROVE  /\ queue[i].id[1] = n /\ queue[i].id[2] < msg_count'[n] /\ Unsent(queue[i].id)
              /\ queue[i].operating = FALSE /\ queue[i].id \in data'[n]
  <2>1. CASE queue[i] = item
    BY <1>3, <1>4, <1>9, <1>12, <2>1 DEF Unsent
  <2>2. CASE i \in DOMAIN tx_queue[n] /\ queue[i] = tx_queue[n][i]
    <3>1. queue[i].id[1] = n /\ queue[i].id[2] < msg_count[n]
      BY <2>2 DEF OInv, DInv, WaitingUnheard
    <3>2. queue[i].id[2] \in Nat
      <4>1. queue[i] \in Item(n)
        BY <1>7, DomainOfSeq, ElementOfSeq
      <4> QED
        BY <4>1, ItemFields DEF Id
    <3>3. queue[i].id[2] < msg_count'[n]
      BY <1>3, <1>12, <3>1, <3>2
    <3>4. Has(tx_queue[n], queue[i].id)
      BY <2>2 DEF Has
    <3> QED
      BY <1>9, <1>12, <3>1, <3>3, <3>4 DEF Unsent
  <2> QED
    BY <1>7, <2>1, <2>2
<1>14. PICK base : base = tx_qubits[n]
  OBVIOUS
<1>15. /\ base \in Seq(Item(n)) /\ Distinct(base)
       /\ \A i \in DOMAIN base : base[i].id[1] = n
       /\ \A j : /\ At(base, j) \subseteq At(tx_qubits[n], j)
                 /\ j \notin {} => At(base, j) = At(tx_qubits[n], j)
  BY <1>5, <1>14 DEF OInv, SenderOK
<1>16. SendStep(n, base, queue, k, {})
  <2>1. queue \in Seq(Item(n)) /\ Distinct(queue) /\ k \in 0..Len(queue)
    BY <1>7, <1>8
  <2>2. /\ tx_qubits' = [tx_qubits EXCEPT ![n] = base \o FirstOf(queue, k)]
        /\ tx_queue' = [tx_queue EXCEPT ![n] = AfterFirst(queue, k)]
    BY <1>11, <1>14
  <2>3. /\ net' \subseteq net \cup {QubitOf(n, queue[i]) : i \in 1..k}
        /\ events' \subseteq events /\ UNCHANGED <<rx_queue, rx_qubits, storage>>
    BY <1>11
  <2>4. \A r \in Node : /\ msg_count[r] <= msg_count'[r]
                        /\ \A j \in data[r] : r # n \/ j \notin {} => j \in data'[r]
    BY <1>12
  <2> QED
    BY <1>13, <1>15, <2>1, <2>2, <2>3, <2>4 DEF SendStep
<1>17. NewOperation(n, queue)
  BY <1>2, <1>4, <1>11 DEF NewOperation
<1> QED
  BY <1>2, <1>11, <1>14, <1>16, <1>17

LEMMA RunBodyOInv ==
  ASSUME NoOwnPeer, OInv, DInv', NEW n \in Node, RunBody(n)
  PROVE  OInv'
<1>1. PICK base, queue, k : /\ SendStep(n, base, queue, k, {})
                            /\ failed' = failed
  BY RunBodySends
<1>2. /\ \A j \in Id : j \notin {} => OpOK(j)'
      /\ \A r \in Node : SenderOK(r)'
  BY <1>1, SendOps
<1> QED
  BY <1>1, <1>2 DEF OInv

\* What is left of an operation whose sender gives its qubit back.
GoneStep(id, e) ==
  /\ id \in Id /\ e \in Evs(id) /\ ~IsDriver(e)
  /\ Tx(id)' = {} /\ Msgs(id)' \subseteq Msgs(id)
  /\ Evs(id)' = Evs(id) \ {e}
  /\ \A r \in Node : /\ Rx(r, id)' = Rx(r, id) /\ Queued(r, id)' = Queued(r, id)
                     /\ Kept(r, id)' = Kept(r, id)
                     /\ r # id[1] /\ id \in data[r] => id \in data'[r]
  /\ ~Unsent(id)'

LEMMA GoneOp ==
  ASSUME OInv, NEW id, NEW e, GoneStep(id, e)
  PROVE  OpOK(id)'
<1>a. id \in Id /\ e \in Evs(id) /\ ~IsDriver(e)
  BY DEF GoneStep
<1>b. Tx(id)' = {} /\ Msgs(id)' \subseteq Msgs(id) /\ Evs(id)' = Evs(id) \ {e} /\ ~Unsent(id)'
  BY DEF GoneStep
<1>c. \A r \in Node : /\ Rx(r, id)' = Rx(r, id) /\ Queued(r, id)' = Queued(r, id)
                      /\ Kept(r, id)' = Kept(r, id)
                      /\ r # id[1] /\ id \in data[r] => id \in data'[r]
  BY DEF GoneStep
<1>1. /\ id[1] \in Node /\ OpOK(id) /\ DrivenOK(id) /\ PlacesOK(id) /\ KeysOK(id)
      /\ Rx(id[1], id) = {} /\ Queued(id[1], id) = {}
  BY <1>a, OpFacts
<1>2. ~Open(id) /\ ~Holding(id) /\ Tx(id) # {} /\ EventOK(id, e)
  BY <1>1, <1>a DEF Open, Holding, EventOK, DrivenOK
<1>3. Idle(id)'
  BY <1>b DEF Idle
<1>4. ASSUME NEW m \in Msgs(id)'
      PROVE  MessageOK(id, m)'
  <2>1. m \in Msgs(id) /\ MessageOK(id, m)
    BY <1>1, <1>b, <1>4 DEF DrivenOK
  <2>2. CASE m.type = "NACK" /\ m.dst = id[1]
    <3>1. AskOK(id)
      BY <2>1, <2>2 DEF MessageOK
    <3>2. AskOK(id)'
      <4>1. Kept(id[1], id) # {}
        BY <1>2, <3>1 DEF AskOK
      <4>2. ASSUME OneQubit, NEW s \in Kept(id[1], id)
            PROVE  Rx(Peers[id[1]][s.peer], id)' # {}
        <5>1. Rx(Peers[id[1]][s.peer], id) # {}
          BY <3>1, <4>2 DEF AskOK
        <5>2. Peers[id[1]][s.peer] \in Node
          <6>1. s.peer \in DOMAIN Peers[id[1]]
            BY <1>1, <1>a, <4>2, OpFacts, ItemFields
          <6> QED
            BY <1>1, <6>1, PeersFacts
        <5> QED
          BY <1>c, <5>1, <5>2
      <4> QED
        BY <1>1, <1>3, <1>c, <4>1, <4>2 DEF AskOK
    <3> QED
      BY <2>2, <3>2 DEF MessageOK
  <2>3. CASE m.type = "Classical" /\ m.dst # id[1]
    <3>1. ResultOK(id, m)
      BY <2>1, <2>3 DEF MessageOK
    <3>2. m.dst \in Node
      BY <2>1, ArrivedId DEF Msgs, OInv, DInv, PeerMessage, Message
    <3>3. ResultOK(id, m)'
      BY <1>1, <1>3, <1>c, <3>1, <3>2 DEF ResultOK
    <3> QED
      BY <2>3, <3>3 DEF MessageOK
  <2>4. CASE m.type = "AWK"
    <3>1. AwkOK(id, m)
      BY <2>1, <2>4 DEF MessageOK
    <3>2. Msgs(id)' = {m}
      BY <1>4, <1>b, <3>1 DEF AwkOK
    <3>3. AwkOK(id, m)'
      BY <1>1, <1>b, <1>c, <3>1, <3>2 DEF AwkOK
    <3> QED
      BY <2>4, <3>3 DEF MessageOK
  <2>5. CASE /\ ~(m.type = "NACK" /\ m.dst = id[1])
             /\ ~(m.type = "Classical" /\ m.dst # id[1]) /\ m.type # "AWK"
    <3>1. m.type \in {"Qubit", "Classical", "NACK", "AWK"}
      BY <2>1, ArrivedId DEF Msgs, OInv, DInv, PeerMessage, Message
    <3> QED
      BY <1>2, <2>1, <2>5, <3>1 DEF MessageOK, QubitOK, MeasuredOK
  <2> QED
    BY <2>2, <2>3, <2>4, <2>5
<1>5. ASSUME NEW f \in Evs(id)'
      PROVE  EventOK(id, f)'
  <2>1. f \in Evs(id) /\ f # e /\ EventOK(id, f)
    BY <1>1, <1>b, <1>5 DEF DrivenOK
  <2>2. e \in Event /\ f \in Event /\ e.id = id /\ f.id = id
    BY <1>a, <2>1 DEF Evs, OInv, DInv, IInv, RestOK
  <2>3. IsDriver(f)
    <3>1. ASSUME ~IsDriver(f)
          PROVE  f = e
      BY <1>2, <1>a, <2>1, <2>2, <3>1 DEF EventOK, IsDriver, Event
    <3> QED
      BY <2>1, <3>1
  <2>4. f.fn # "SendClassical" /\ f.fn # "LocalGate"
    BY <1>2, <2>1 DEF EventOK
  <2>5. f.node \in Node
    BY <2>2 DEF Event
  <2> QED
    BY <1>c, <2>1, <2>3, <2>4, <2>5 DEF EventOK, IsDriver
<1>6. \A r \in Node : Queued(r, id)' = {}
  BY <1>1, <1>2, <1>c DEF DrivenOK, QueuedOK
<1>7. PlacesOK(id)'
  <2>1. Alike(Tx(id)', Tx(id)) /\ \A r \in Node : Alike(Rx(r, id)', Rx(r, id))
    BY <1>b, <1>c, AlikeRefl
  <2>2. AtMostOne(Kept(id[1], id)') /\ \A r \in Node : \A s \in Kept(r, id)' : s \in Kept(r, id)
    BY <1>1, <1>c DEF PlacesOK
  <2> QED
    BY <1>1, <1>a, <2>1, <2>2, PlacesNext
<1>8. KeysOK(id)'
  <2>1. ASSUME OneQubit, NEW r \in Node, Rx(r, id)' # {}
        PROVE  id \in data'[r]
    <3>1. Rx(r, id) # {} /\ r # id[1]
      BY <1>1, <1>c, <2>1
    <3> QED
      BY <1>1, <1>c, <2>1, <3>1 DEF KeysOK
  <2> QED
    BY <1>6, <1>b, <2>1 DEF KeysOK
<1> QED
  BY <1>4, <1>5, <1>6, <1>7, <1>8 DEF OpOK, DrivenOK

\* The qubits of the first k operations of a queue, as they are sent.
SentOf(n, queue, k) == {QubitOf(n, queue[i]) : i \in 1..k}

\* ReleaseQubit at the sender: the operation has a key, and its qubit is the
\* next operation's.
LEMMA ReleaseAtSenderSends ==
  ASSUME OInv, NEW n \in Node, NEW id, NEW e \in events,
         e.fn = "ReleaseQubit", e.node = n, e.id = id, e.sender, events' = events \ {e},
         ReleaseAtSender(n, id)
  PROVE  /\ ~IsDriver(e) /\ id \in Id /\ e \in Evs(id)
         /\ n = id[1] /\ ~Unsent(id)
         /\ UNCHANGED <<sock, msg_count, rx_queue, rx_qubits, storage, failed>>
         /\ \A r \in Node : r # n => data'[r] = data[r]
         /\ \E base, queue, k :
              /\ SendStep(n, base, queue, k, {id}) /\ At(base, id) = {}
              /\ net' = net \cup Out(n, SentOf(n, queue, k))
              /\ queue = tx_queue[n] /\ k = Movable(queue, base) /\ Len(base) < NumQubits
<1>1. ~IsDriver(e) /\ id \in Id /\ e \in Evs(id)
  BY DEF IsDriver, Evs, OInv, DInv, IInv, RestOK, Event
<1>2. /\ OpOK(id) /\ DrivenOK(id) /\ PlacesOK(id) /\ KeysOK(id) /\ EventOK(id, e)
      /\ Rx(id[1], id) = {} /\ Queued(id[1], id) = {}
  BY <1>1, OpFacts DEF DrivenOK
<1>3. n = id[1] /\ Tx(id) # {} /\ id \in data[n] /\ ~Unsent(id)
  <2>1. ~Untouched(id)
    BY <1>1 DEF Untouched
  <2> QED
    BY <1>1, <1>2, <2>1 DEF EventOK, KeysOK
<1>4. /\ tx_queue[n] \in Seq(Item(n)) /\ tx_qubits[n] \in Seq(Item(n)) /\ Len(tx_qubits[n]) <= NumQubits
      /\ Len(tx_qubits[n]) \in Nat
  BY DomainOfSeq DEF OInv, DInv, IInv, HeldOK, NodeOK
<1>5. Has(tx_qubits[n], id)
  BY <1>3, AtIs DEF Tx, Has
<1>6. PICK s : s = Slot(tx_qubits[n], id) /\ s \in 1..Len(tx_qubits[n]) /\ tx_qubits[n][s].id = id
  BY <1>4, <1>5, SlotFound
<1>7. PICK base, queue, k : /\ base = RemoveAt(tx_qubits[n], s)
                            /\ queue = tx_queue[n] /\ k = Movable(queue, base)
  OBVIOUS
<1>8. /\ base \in Seq(Item(n)) /\ Len(base) = Len(tx_qubits[n]) - 1
      /\ \A i \in 1..(Len(tx_qubits[n]) - 1) :
           base[i] = IF i < s THEN tx_qubits[n][i] ELSE tx_qubits[n][i + 1]
  BY <1>4, <1>6, <1>7, RemoveAtElements
<1>9. /\ Distinct(base) /\ At(base, id) = {}
      /\ \A j : /\ At(base, j) \subseteq At(tx_qubits[n], j)
                /\ j \notin {id} => At(base, j) = At(tx_qubits[n], j)
  <2>1. Distinct(tx_qubits[n])
    BY DEF OInv, SenderOK
  <2>2. PICK seq : seq = tx_qubits[n] /\ seq \in Seq(Item(n)) /\ Distinct(seq)
                   /\ s \in 1..Len(seq) /\ seq[s].id = id
    BY <1>4, <1>6, <2>1
  <2>3. /\ Distinct(RemoveAt(seq, s)) /\ At(RemoveAt(seq, s), id) = {}
        /\ \A j : /\ At(RemoveAt(seq, s), j) \subseteq At(seq, j)
                  /\ j # id => At(RemoveAt(seq, s), j) = At(seq, j)
    <3>0. seq \in Seq(Item(n)) /\ Distinct(seq) /\ s \in 1..Len(seq) /\ seq[s].id = id
      BY <2>2
    <3>1. Distinct(RemoveAt(seq, s)) /\ At(RemoveAt(seq, s), id) = {}
      BY <3>0, AtRemove
    <3>2. ASSUME NEW j
          PROVE  /\ At(RemoveAt(seq, s), j) \subseteq At(seq, j)
                 /\ j # id => At(RemoveAt(seq, s), j) = At(seq, j)
      BY <3>0, AtRemove
    <3> QED
      BY <3>1, <3>2
  <2> QED
    BY <1>7, <2>2, <2>3
<1>10. \A i \in DOMAIN base : base[i].id[1] = n
  <2> SUFFICES ASSUME NEW i \in DOMAIN base PROVE base[i].id[1] = n
    OBVIOUS
  <2>1. base[i] \in At(base, base[i].id)
    <3>1. PICK h : h = base[i].id
      OBVIOUS
    <3> QED
      BY <1>8, <3>1, AtIs
  <2>2. \E l \in DOMAIN tx_qubits[n] : tx_qubits[n][l] = base[i]
    <3>1. PICK h : h = base[i].id
      OBVIOUS
    <3>2. base[i] \in At(tx_qubits[n], h)
      BY <1>9, <2>1, <3>1
    <3> QED
      BY <1>4, <3>2, AtIs
  <2> QED
    BY <2>2 DEF OInv, SenderOK
<1>11. k \in 0..Len(queue) /\ queue \in Seq(Item(n))
  <2>1. Len(base) <= NumQubits
    BY <1>4, <1>8, ParametersAssumption
  <2> QED
    BY <1>4, <1>7, <1>8, <2>1, MovableRange
<1>12. \A i \in 1..k : i \in DOMAIN queue /\ FirstOf(queue, k)[i] = queue[i]
  <2>1. Len(queue) \in Nat /\ DOMAIN queue = 1..Len(queue)
    BY <1>11, DomainOfSeq
  <2>2. \A i \in 1..k : FirstOf(queue, k)[i] = queue[i]
    BY <1>11, SplitAt
  <2> QED
    BY <1>11, <2>1, <2>2
<1>13. \A i \in 1..k : FirstOf(queue, k)[i].id \in data[n]
  BY <1>7, <1>12 DEF OInv, SenderOK
<1>14. /\ tx_qubits' = [tx_qubits EXCEPT ![n] = base \o FirstOf(queue, k)]
       /\ tx_queue' = [tx_queue EXCEPT ![n] = AfterFirst(queue, k)]
       /\ data' = [data EXCEPT ![n] = @ \ {id}]
       /\ net' = net \cup Out(n, {QubitOf(n, FirstOf(queue, k)[i]) : i \in 1..k})
       /\ UNCHANGED <<sock, msg_count, rx_queue, rx_qubits, storage, failed>>
  BY <1>3, <1>5, <1>6, <1>7, <1>13 DEF ReleaseAtSender
<1>15. /\ data'[n] = data[n] \ {id} /\ \A r \in Node : r # n => data'[r] = data[r]
       /\ \A r \in Node : msg_count[r] <= msg_count'[r]
  BY <1>14 DEF OInv, DInv, IInv, RestOK
<1>16. ~Has(tx_queue[n], id)
  BY <1>3 DEF Unsent
<1>17. \A i \in DOMAIN queue :
         /\ queue[i].id[1] = n /\ queue[i].id[2] < msg_count'[n] /\ Unsent(queue[i].id)
         /\ queue[i].operating = FALSE /\ queue[i].id \in data'[n]
  <2> SUFFICES ASSUME NEW i \in DOMAIN tx_queue[n]
               PROVE  /\ tx_queue[n][i].id[1] = n /\ tx_queue[n][i].id[2] < msg_count'[n]
                      /\ Unsent(tx_queue[n][i].id)
                      /\ tx_queue[n][i].operating = FALSE /\ tx_queue[n][i].id \in data'[n]
    BY <1>7
  <2>1. tx_queue[n][i].id[1] = n /\ tx_queue[n][i].id[2] < msg_count[n]
    BY DEF OInv, DInv, WaitingUnheard
  <2>2. Has(tx_queue[n], tx_queue[n][i].id)
    BY DEF Has
  <2>3. tx_queue[n][i].id # id
    BY <1>16 DEF Has
  <2> QED
    BY <1>14, <1>15, <2>1, <2>2, <2>3 DEF Unsent, OInv, SenderOK
<1>18. SendStep(n, base, queue, k, {id})
  <2>1. Distinct(queue)
    BY <1>7 DEF OInv, DInv, WaitingUnheard
  <2>2. /\ net' \subseteq net \cup {QubitOf(n, queue[i]) : i \in 1..k}
        /\ events' \subseteq events /\ UNCHANGED <<rx_queue, rx_qubits, storage>>
    BY <1>12, <1>14 DEF Out
  <2>3. \A r \in Node : /\ msg_count[r] <= msg_count'[r]
                        /\ \A j \in data[r] : r # n \/ j \notin {id} => j \in data'[r]
    BY <1>15
  <2> QED
    BY <1>8, <1>9, <1>10, <1>11, <1>14, <1>17, <2>1, <2>2, <2>3 DEF SendStep
<1>19. net' = net \cup Out(n, {QubitOf(n, queue[i]) : i \in 1..k})
  <2>1. {QubitOf(n, FirstOf(queue, k)[i]) : i \in 1..k} = {QubitOf(n, queue[i]) : i \in 1..k}
    BY <1>12
  <2> QED
    BY <1>14, <2>1
<1>20. net' = net \cup Out(n, SentOf(n, queue, k))
  BY <1>19 DEF SentOf
<1>21. Len(base) < NumQubits
  BY <1>4, <1>8, ParametersAssumption
<1>22. \E b, q, l : /\ SendStep(n, b, q, l, {id}) /\ At(b, id) = {}
                    /\ net' = net \cup Out(n, SentOf(n, q, l))
                    /\ q = tx_queue[n] /\ l = Movable(q, b) /\ Len(b) < NumQubits
  BY <1>7, <1>9, <1>18, <1>20, <1>21
<1> QED
  BY <1>1, <1>3, <1>14, <1>15, <1>22

LEMMA ReleaseAtSenderOInv ==
  ASSUME NoOwnPeer, OInv, DInv', NEW n \in Node, NEW id, NEW e \in events,
         e.fn = "ReleaseQubit", e.node = n, e.id = id, e.sender, events' = events \ {e},
         ReleaseAtSender(n, id)
  PROVE  OInv'
<1>1. /\ ~IsDriver(e) /\ id \in Id /\ e \in Evs(id)
      /\ n = id[1] /\ ~Unsent(id)
      /\ UNCHANGED <<rx_queue, rx_qubits, storage, failed>>
      /\ \A r \in Node : r # n => data'[r] = data[r]
  BY ReleaseAtSenderSends
<1>2. PICK base, queue, k : SendStep(n, base, queue, k, {id}) /\ At(base, id) = {}
  BY ReleaseAtSenderSends
<1>3. /\ \A j \in Id : j # id => OpOK(j)'
      /\ \A r \in Node : SenderOK(r)'
      /\ ~Unsent(id)'
      /\ Msgs(id)' \subseteq Msgs(id) /\ At(tx_qubits'[n], id) = {}
  <2>1. /\ \A j \in Id : j \notin {id} => OpOK(j)'
        /\ \A r \in Node : SenderOK(r)'
        /\ \A j \in Id : Unsent(j)' => Unsent(j)
        /\ \A j \in Id : ~Unsent(j) => /\ Msgs(j)' \subseteq Msgs(j)
                                       /\ At(tx_qubits'[n], j) = At(base, j)
    BY <1>2, SendOps
  <2> QED
    BY <1>1, <1>2, <2>1
<1>4. GoneStep(id, e)
  <2>1. Tx(id)' = {}
    BY <1>1, <1>3, ViewsNext
  <2>2. Evs(id)' = Evs(id) \ {e}
    BY ViewsNext DEF Evs
  <2>3. \A r \in Node : /\ Rx(r, id)' = Rx(r, id) /\ Queued(r, id)' = Queued(r, id)
                        /\ Kept(r, id)' = Kept(r, id)
    BY <1>1, ViewsNext DEF Rx, Queued, Kept
  <2> QED
    BY <1>1, <1>3, <2>1, <2>2, <2>3 DEF GoneStep
<1>5. OpOK(id)'
  BY <1>4, GoneOp
<1> QED
  BY <1>1, <1>3, <1>5 DEF OInv

-----------------------------------------------------------------------------
(***************************************************************************)
(* The theorems.                                                           *)
(***************************************************************************)
LEMMA ReleaseQubitOInv ==
  ASSUME NoOwnPeer, OInv, DInv', NEW n \in Node, NEW id, ReleaseQubit(n, id)
  PROVE  OInv'
<1>1. PICK e \in events :
        /\ e.fn = "ReleaseQubit" /\ e.node = n /\ e.id = id
        /\ events' = events \ {e}
        /\ \/ e.sender /\ ReleaseAtSender(n, id)
           \/ /\ ~e.sender
              /\ IF CanReleaseRx(n, id)
                 THEN /\ ReleaseAtReceiver(n, id, {})
                      /\ UNCHANGED <<sock, msg_count, tx_queue, tx_qubits, storage, failed>>
                 ELSE failed' = "ReleaseQubit" /\ UNCHANGED <<sock, msg_count, held, data, net>>
  BY DEF ReleaseQubit
<1>2. CASE e.sender
  BY <1>1, <1>2, ReleaseAtSenderOInv
<1>3. CASE ~e.sender
  BY <1>1, <1>3, ReleaseReceiverOInv
<1> QED
  BY <1>2, <1>3

LEMMA InitOInv == Init => OInv
<1> SUFFICES ASSUME Init PROVE OInv
  OBVIOUS
<1>1. DInv
  BY InitDInv
<1>2. \A n \in Node : SenderOK(n)
  BY DEF Init, SenderOK, Distinct
<1>3. ASSUME NEW id \in Id
      PROVE  OpOK(id)
  <2>1. id[1] \in Node
    BY DEF Id
  <2>2. /\ \A r \in Node : /\ At(rx_qubits[r], id) = {} /\ At(rx_queue[r], id) = {}
                           /\ At(storage[r], id) = {} /\ At(tx_qubits[r], id) = {}
        /\ net = {} /\ events = {}
    BY DEF Init, At, Matches
  <2>3. /\ Tx(id) = {} /\ Msgs(id) = {} /\ Evs(id) = {}
        /\ \A r \in Node : Rx(r, id) = {} /\ Queued(r, id) = {} /\ Kept(r, id) = {}
    BY <2>1, <2>2 DEF Tx, Msgs, Evs, Rx, Queued, Kept
  <2>4. DrivenOK(id) /\ KeysOK(id)
    BY <2>1, <2>3 DEF DrivenOK, KeysOK, Untouched
  <2>5. PlacesOK(id)
    BY <2>1, <2>3 DEF PlacesOK, AtMostOne
  <2> QED
    BY <2>4, <2>5 DEF OpOK
<1>4. failed = "none"
  BY DEF Init
<1> QED
  BY <1>1, <1>2, <1>3, <1>4 DEF OInv

LEMMA StepOInv ==
  ASSUME NoOwnPeer, OInv, [Next]_vars
  PROVE  OInv'
<1>0. DInv'
  BY StepDInv DEF OInv
<1>1. ASSUME NEW n \in Node, StartApplication(n) \/ Run(n)
      PROVE  OInv'
  BY <1>0, <1>1, RunBodyOInv DEF StartApplication, Run
<1>2. CASE Lose \/ (\E n \in Node : StopApplication(n)) \/ UNCHANGED vars
  <2>1. net' \subseteq net /\ UNCHANGED <<msg_count, held, data, events, failed>>
    BY <1>2 DEF Lose, StopApplication, vars, held
  <2> QED
    BY <1>0, <2>1, FewerOInv DEF OInv
<1>3. ASSUME NEW n \in Node, NEW id, QubitSpoiled(n, id) \/ ClassicalSpoiled(n, id)
      PROVE  OInv'
  <2>1. PICK m \in net : m.type \in {"Qubit", "Classical"} /\ m.dst = n /\ SendNACK(n, m)
    BY <1>3 DEF QubitSpoiled, ClassicalSpoiled, Arrives
  <2> QED
    BY <1>0, <2>1, SendNACKOInv
<1>4. ASSUME NEW n \in Node, NEW id, ReceiveQubit(n, id)
      PROVE  OInv'
  BY <1>0, <1>4, ReceiveQubitOInv
<1>5. ASSUME NEW n \in Node, NEW id, ReceiveClassical(n, id)
      PROVE  OInv'
  BY <1>0, <1>5, ReceiveClassicalOInv
<1>6. ASSUME NEW n \in Node, NEW id, ReceiveNACK(n, id)
      PROVE  OInv'
  BY <1>0, <1>6, ReceiveNACKOInv
<1>7. ASSUME NEW n \in Node, NEW id, ReceiveAWK(n, id)
      PROVE  OInv'
  BY <1>0, <1>7, ReceiveAWKOInv
<1>8. ASSUME NEW n \in Node, NEW id, SendClassical(n, id)
      PROVE  OInv'
  BY <1>0, <1>8, SendClassicalOInv
<1>9. ASSUME NEW n \in Node, NEW id, LocalGate(n, id)
      PROVE  OInv'
  BY <1>0, <1>9, LocalGateOInv
<1>10. ASSUME NEW n \in Node, NEW id, ReleaseQubit(n, id)
       PROVE  OInv'
  BY <1>0, <1>10, ReleaseQubitOInv
<1> QED
  BY <1>1, <1>2, <1>3, <1>4, <1>5, <1>6, <1>7, <1>8, <1>9, <1>10 DEF Next, Timer

\* The two ends of every operation stay consistent with whatever drives it.
THEOREM OperationsInvariant ==
  ASSUME NoOwnPeer
  PROVE  Spec => []OInv
<1>1. OInv /\ [Next]_vars => OInv'
  BY StepOInv
<1> QED
  BY <1>1, InitOInv, PTL DEF Spec

\* With one qubit for each direction (the default) no NS_ASSERT_MSG of the
\* application fails, whatever is spoiled, lost or stopped.
THEOREM AssertionsHoldForOneQubit ==
  ASSUME NoOwnPeer, OneQubit
  PROVE  Spec => []AssertionsHold
<1>1. OInv => AssertionsHold
  BY DEF OInv, AssertionsHold
<1> QED
  BY <1>1, OperationsInvariant, PTL

\* No receiver takes up an operation again that its sender has finished, for
\* any number of qubits.
THEOREM NoZombieHolds ==
  ASSUME NoOwnPeer
  PROVE  Spec => []NoZombie
<1>1. OInv => NoZombie
  <2> SUFFICES ASSUME OInv PROVE NoZombie
    OBVIOUS
  <2>1. ASSUME NEW id \in Id, Holding(id)
        PROVE  ~Completed(id)
    BY <2>1, OpFacts DEF Holding, Open, KeysOK, Completed
  <2>2. ASSUME NEW m \in net, m.type = "Qubit"
        PROVE  ~Completed(m.id)
    <3>1. PICK id \in Id : id = m.id
      BY ArrivedId DEF OInv, DInv
    <3>2. MessageOK(id, m)
      BY <3>1, OpFacts DEF DrivenOK, Msgs
    <3> QED
      BY <2>1, <2>2, <3>1, <3>2 DEF MessageOK, QubitOK
  <2>3. ASSUME NEW e \in events, e.fn = "SendClassical"
        PROVE  ~Completed(e.id)
    <3>1. PICK id \in Id : id = e.id
      BY DEF OInv, DInv, IInv, RestOK, Event
    <3>2. EventOK(id, e)
      BY <3>1, OpFacts DEF DrivenOK, Evs
    <3> QED
      BY <2>1, <2>3, <3>1, <3>2 DEF EventOK
  <2>4. ASSUME NEW n \in Node, NEW i \in DOMAIN rx_queue[n]
        PROVE  ~Completed(rx_queue[n][i].id)
    <3>1. rx_queue[n][i] \in Item(n)
      BY NodeLists, DomainOfSeq, ElementOfSeq DEF OInv, DInv
    <3>2. PICK id \in Id : id = rx_queue[n][i].id
      BY <3>1, ItemFields
    <3>3. PICK it : it = rx_queue[n][i] /\ it \in Queued(n, id)
      BY <3>2, AtIs DEF Queued
    <3>4. QueuedOK(id, n, it)
      BY <3>2, <3>3, OpFacts DEF DrivenOK
    <3> QED
      BY <2>1, <3>2, <3>4 DEF QueuedOK
  <2> QED
    BY <2>2, <2>3, <2>4 DEF NoZombie
<1> QED
  BY <1>1, OperationsInvariant, PTL

\* The acknowledgement of a telegate finds the result it is for, for any number
\* of qubits.
THEOREM AckReachesHolderHolds ==
  ASSUME NoOwnPeer
  PROVE  Spec => []AckReachesHolder
<1>1. OInv => AckReachesHolder
  <2> SUFFICES ASSUME OInv, NEW m \in net, m.type = "AWK", m.protocol = "telegate"
               PROVE  Has(storage[m.dst], m.id)
    BY DEF AckReachesHolder
  <2>1. PICK id \in Id : id = m.id
    BY ArrivedId DEF OInv, DInv
  <2>2. AwkOK(id, m)
    BY <2>1, OpFacts DEF DrivenOK, Msgs, MessageOK
  <2> QED
    BY <2>1, <2>2, AtIs DEF AwkOK, Kept
<1> QED
  BY <1>1, OperationsInvariant, PTL

-----------------------------------------------------------------------------
(***************************************************************************)
(* Nothing is forgotten: an item of a receiver has a driver, and an item   *)
(* of a sender has one or a ReleaseQubit event of its own.  The driver is  *)
(* used up by one handler and made by the next, so that the event of the   *)
(* sender must already be there when the receiver ends a telegate.         *)
(***************************************************************************)
Alive(id) ==
  \/ \E m \in Msgs(id) : m.type # "AWK"
  \/ \E e \in Evs(id) : IsDriver(e)
  \/ \E r \in Node : Queued(r, id) # {}

Releasing(id) == \E e \in Evs(id) : ~IsDriver(e)

\* The result of the sender is made, or has already reached the receiver.
Resolved(id) ==
  \/ Kept(id[1], id) # {}
  \/ \E e \in Evs(id) : e.fn = "ReleaseQubit" /\ IsDriver(e)

LiveOK(id) ==
  /\ Tx(id) # {} => Alive(id) \/ Releasing(id)
  /\ Tx(id) # {} /\ Resolved(id) => Releasing(id)
  /\ \A r \in Node : Rx(r, id) # {} => Alive(id)
  /\ \A r \in Node : \A e \in Evs(id) :
       e.fn = "SendClassical" /\ e.node = r => \A it \in Rx(r, id) : it.operating = TRUE

LiveInv == (\A n \in Node : sock[n] # "closed") => \A id \in Id : LiveOK(id)

AllBound == \A n \in Node : sock[n] = "bound"

\* An operation that a step leaves alone, as far as what drives it goes.
LEMMA LiveFrame ==
  ASSUME NEW id \in Id, LiveOK(id), Tx(id)' # {} => Tx(id) # {},
         \A m \in Msgs(id) : m.type # "AWK" => m \in Msgs(id)',
         Evs(id)' = Evs(id), Kept(id[1], id)' # {} => Kept(id[1], id) # {},
         \A r \in Node : /\ Rx(r, id)' \subseteq Rx(r, id)
                         /\ Queued(r, id) # {} => Queued(r, id)' # {}
  PROVE  LiveOK(id)'
<1>1. Alive(id) => Alive(id)'
  BY DEF Alive, IsDriver
<1>2. (Releasing(id) => Releasing(id)') /\ (Resolved(id)' => Resolved(id))
  BY DEF Releasing, Resolved, IsDriver
<1>3. \A r \in Node : \A e \in Evs(id)' :
        e.fn = "SendClassical" /\ e.node = r => \A it \in Rx(r, id)' : it.operating = TRUE
  BY DEF LiveOK
<1>4. Tx(id)' # {} => Alive(id)' \/ Releasing(id)'
  BY <1>1, <1>2 DEF LiveOK
<1>5. Tx(id)' # {} /\ Resolved(id)' => Releasing(id)'
  BY <1>2 DEF LiveOK
<1>6. \A r \in Node : Rx(r, id)' # {} => Alive(id)'
  BY <1>1 DEF LiveOK
<1> QED
  BY <1>3, <1>4, <1>5, <1>6 DEF LiveOK

\* The operations that a handler of operation id at node n leaves alone.
LEMMA LiveOthers ==
  ASSUME \A j \in Id : LiveOK(j), NEW n \in Node, NEW id,
         OnlyAt(n, tx_qubits, tx_qubits'), OnlyAt(n, rx_qubits, rx_qubits'),
         OnlyAt(n, rx_queue, rx_queue'), OnlyAt(n, storage, storage'),
         \A j : j # id => /\ At(tx_qubits'[n], j) = At(tx_qubits[n], j)
                          /\ At(rx_qubits'[n], j) = At(rx_qubits[n], j)
                          /\ At(rx_queue'[n], j) = At(rx_queue[n], j)
                          /\ At(storage'[n], j) = At(storage[n], j),
         \A m \in net : m \in net' \/ m.id = id,
         \A e : e.id # id => (e \in events' <=> e \in events)
  PROVE  \A j \in Id : j # id => LiveOK(j)'
<1> SUFFICES ASSUME NEW j \in Id, j # id PROVE LiveOK(j)'
  OBVIOUS
<1>1. j[1] \in Node
  BY DEF Id
<1>2. \A r \in Node : /\ At(tx_qubits'[r], j) = At(tx_qubits[r], j)
                      /\ At(rx_qubits'[r], j) = At(rx_qubits[r], j)
                      /\ At(rx_queue'[r], j) = At(rx_queue[r], j)
                      /\ At(storage'[r], j) = At(storage[r], j)
  <2> SUFFICES ASSUME NEW r \in Node
               PROVE  /\ At(tx_qubits'[r], j) = At(tx_qubits[r], j)
                      /\ At(rx_qubits'[r], j) = At(rx_qubits[r], j)
                      /\ At(rx_queue'[r], j) = At(rx_queue[r], j)
                      /\ At(storage'[r], j) = At(storage[r], j)
    OBVIOUS
  <2>1. CASE r = n
    BY <2>1
  <2>2. CASE r # n
    BY <2>2 DEF OnlyAt
  <2> QED
    BY <2>1, <2>2
<1>3. Tx(j)' = Tx(j) /\ Kept(j[1], j)' = Kept(j[1], j)
  BY <1>1, <1>2, ViewsNext DEF Tx, Kept
<1>4. \A r \in Node : Rx(r, j)' = Rx(r, j) /\ Queued(r, j)' = Queued(r, j)
  BY <1>2, ViewsNext DEF Rx, Queued
<1>5. \A m \in Msgs(j) : m \in Msgs(j)'
  BY ViewsNext DEF Msgs
<1>6. Evs(j)' = Evs(j)
  <2>1. Evs(j)' = {e \in events' : e.id = j}
    BY ViewsNext
  <2> QED
    BY <2>1 DEF Evs
<1> QED
  BY <1>3, <1>4, <1>5, <1>6, LiveFrame

\* A packet is answered with a packet of the same operation.
LEMMA SwapLive ==
  ASSUME \A j \in Id : LiveOK(j), NEW m \in net, NEW packet,
         packet.id = m.id, packet.type # "AWK", net' = (net \ {m}) \cup {packet},
         UNCHANGED <<held, events>>
  PROVE  \A j \in Id : LiveOK(j)'
<1>1. \A j \in Id : Tx(j)' = Tx(j) /\ Evs(j)' = Evs(j) /\ Kept(j[1], j)' = Kept(j[1], j)
  BY ViewsNext DEF Tx, Evs, Kept, held
<1>2. \A j \in Id : \A r \in Node : Rx(r, j)' = Rx(r, j) /\ Queued(r, j)' = Queued(r, j)
  BY ViewsNext DEF Rx, Queued, held
<1>3. ASSUME NEW j \in Id, j # m.id
      PROVE  LiveOK(j)'
  <2>1. \A p \in Msgs(j) : p \in Msgs(j)'
    BY <1>3, ViewsNext DEF Msgs
  <2> QED
    BY <1>1, <1>2, <2>1, LiveFrame
<1>4. ASSUME NEW j \in Id, j = m.id
      PROVE  LiveOK(j)'
  <2>1. Alive(j)'
    <3>1. packet \in Msgs(j)'
      BY <1>4, ViewsNext
    <3> QED
      BY <3>1 DEF Alive
  <2>2. Resolved(j)' = Resolved(j) /\ Releasing(j)' = Releasing(j)
    BY <1>1 DEF Resolved, Releasing, IsDriver
  <2> QED
    BY <1>1, <1>2, <2>1, <2>2 DEF LiveOK
<1> QED
  BY <1>3, <1>4

LEMMA SpoiledLive ==
  ASSUME \A j \in Id : LiveOK(j), NEW n \in Node, NEW m \in net, SendNACK(n, m)
  PROVE  \A j \in Id : LiveOK(j)'
<1>1. PICK nack : nack = NACKFor(n, PeerIndex(n, m.src), m.id, m.protocol)
  OBVIOUS
<1>2. nack.id = m.id /\ nack.type = "NACK"
  BY <1>1 DEF NACKFor, Packet
<1>3. net' = (net \ {m}) \cup {nack} /\ UNCHANGED <<held, events>>
  BY <1>1 DEF SendNACK
<1> QED
  BY <1>2, <1>3, SwapLive

LEMMA ReceiveNACKLive ==
  ASSUME \A j \in Id : LiveOK(j), NEW n \in Node, NEW id, ReceiveNACK(n, id), failed' = "none",
         OInv
  PROVE  \A j \in Id : LiveOK(j)'
<1> DEFINE stored == Has(storage[n], id)
           it == storage[n][LastSlot(storage[n], id)]
           qubit == tx_qubits[n][Slot(tx_qubits[n], id)]
           again == IF stored
                    THEN Packet("Classical", n, it.peer, id, it.protocol, it.x, it.z)
                    ELSE QubitOf(n, qubit)
<1>1. PICK m \in net : /\ Arrives(m, "NACK", n, id) /\ (stored \/ Has(tx_qubits[n], id))
                       /\ net' = (net \ {m}) \cup {again}
                       /\ UNCHANGED <<held, events>>
  BY DEF ReceiveNACK, Abort
<1>2. PICK packet : packet = again
  OBVIOUS
<1>3. packet.id = id /\ packet.type # "AWK"
  <2>1. CASE stored
    BY <1>2, <2>1 DEF Packet
  <2>2. CASE ~stored
    <3>1. qubit.id = id
      BY <1>1, <2>2, SlotAt, NodeLists DEF OInv, DInv
    <3> QED
      BY <1>2, <2>2, <3>1 DEF Packet, QubitOf
  <2> QED
    BY <2>1, <2>2
<1>4. m.id = id
  BY <1>1 DEF Arrives
<1>5. net' = (net \ {m}) \cup {packet} /\ UNCHANGED <<held, events>>
  BY <1>1, <1>2
<1> HIDE DEF again
<1> QED
  BY <1>3, <1>4, <1>5, SwapLive

\* An acknowledgement drives nothing.
LEMMA ReceiveAWKLive ==
  ASSUME \A j \in Id : LiveOK(j), NEW n \in Node, NEW id, ReceiveAWK(n, id), OInv
  PROVE  \A j \in Id : LiveOK(j)'
<1>1. PICK m \in net :
        /\ Arrives(m, "AWK", n, id)
        /\ net' = net \ {m}
        /\ storage' = [storage EXCEPT ![n] = WithoutClassic(storage[n], id)]
        /\ UNCHANGED <<tx_queue, tx_qubits, rx_queue, rx_qubits, events>>
  BY DEF ReceiveAWK
<1>2. m.type = "AWK"
  BY <1>1 DEF Arrives
<1>3. storage[n] \in Seq(Item(n)) /\ n \in DOMAIN storage
  BY NodeLists DEF OInv, DInv
<1>4. OnlyAt(n, storage, storage') /\ storage'[n] = WithoutClassic(storage[n], id)
  BY <1>1, <1>3, OnlyAtExcept
<1> SUFFICES ASSUME NEW j \in Id PROVE LiveOK(j)'
  OBVIOUS
<1>5. At(storage'[n], j) \subseteq At(storage[n], j)
  <2>1. /\ At(WithoutClassic(storage[n], id), id) \subseteq At(storage[n], id)
        /\ \A i : i # id => At(WithoutClassic(storage[n], id), i) = At(storage[n], i)
    BY <1>3, AtWithoutClassic
  <2> QED
    BY <1>4, <2>1
<1>6. Kept(j[1], j)' \subseteq Kept(j[1], j)
  <2>1. j[1] \in Node
    BY DEF Id
  <2> QED
    BY <1>4, <1>5, <2>1, ViewsNext DEF Kept, OnlyAt
<1>7. /\ Tx(j)' = Tx(j) /\ Evs(j)' = Evs(j)
      /\ \A r \in Node : Rx(r, j)' = Rx(r, j) /\ Queued(r, j)' = Queued(r, j)
  BY <1>1, ViewsNext DEF Tx, Evs, Rx, Queued
<1>8. \A p \in Msgs(j) : p.type # "AWK" => p \in Msgs(j)'
  BY <1>1, <1>2, ViewsNext DEF Msgs
<1> QED
  BY <1>6, <1>7, <1>8, LiveFrame

\* A qubit arrives, and its operation is measured or waits.
LEMMA ReceiveQubitLive ==
  ASSUME OneQubit, OInv, \A j \in Id : LiveOK(j), NEW n \in Node, NEW id, ReceiveQubit(n, id),
         failed' = "none"
  PROVE  \A j \in Id : LiveOK(j)'
<1> DEFINE known == Has(rx_qubits[n], id)
           room == Room(n)
           Event0 == [fn |-> "SendClassical", node |-> n, id |-> id, sender |-> FALSE]
           Item0(m) == [id |-> id, peer |-> PeerIndex(n, m.src), protocol |-> m.protocol,
                        has_qubit |-> ~known /\ room, operating |-> ~known /\ room,
                        x |-> FALSE, z |-> FALSE]
<1>1. PICK m \in net :
        /\ Arrives(m, "Qubit", n, id)
        /\ ~known =>
             /\ rx_qubits' = [rx_qubits EXCEPT ![n] =
                                IF room THEN Append(rx_qubits[n], Item0(m)) ELSE rx_qubits[n]]
             /\ rx_queue' = [rx_queue EXCEPT ![n] =
                               IF room THEN rx_queue[n] ELSE Append(rx_queue[n], Item0(m))]
             /\ events' = events \cup (IF room THEN {Event0} ELSE {})
        /\ net' = net \ {m}
        /\ UNCHANGED <<tx_queue, tx_qubits, storage>>
  BY DEF ReceiveQubit, Abort
<1>2. m.type = "Qubit" /\ m.dst = n /\ m.id = id /\ id \in Id
  BY <1>1, ArrivedId DEF Arrives, OInv, DInv
<1>3. /\ Msgs(id) = {m} /\ \A e \in Evs(id) : ~IsDriver(e)
      /\ \A r \in Node : Queued(r, id) = {}
  BY <1>2, AlonePacket
<1>4. QubitOK(id, m) /\ id[1] \in Node /\ NoRx(id)
  BY <1>2, <1>3, OpFacts DEF DrivenOK, MessageOK, QubitOK
<1>5. rx_qubits[n] \in Seq(Item(n)) /\ rx_queue[n] \in Seq(Item(n))
      /\ n \in DOMAIN rx_qubits /\ n \in DOMAIN rx_queue
  BY NodeLists DEF OInv, DInv
<1>6. ~known /\ At(rx_qubits[n], id) = {}
  BY <1>4, AtIs DEF Rx, NoRx
<1>7. PICK item, ev : item = Item0(m) /\ ev = Event0
  OBVIOUS
<1>8. item \in Item(n) /\ item.id = id /\ (room => item.operating = TRUE)
  <2>1. m \in PeerMessage
    BY ArrivedId DEF OInv, DInv
  <2>2. \E i \in DOMAIN Peers[n] : Peers[n][i] = m.src
    BY <1>2, <2>1 DEF PeerMessage
  <2>3. PeerIndex(n, m.src) \in DOMAIN Peers[n]
    BY <2>2 DEF PeerIndex
  <2>4. m.protocol \in Protocols
    BY <2>1, MessageFields
  <2>5. (~known /\ room) \in BOOLEAN
    OBVIOUS
  <2>6. item \in Item(n)
    BY <1>2, <1>7, <2>3, <2>4, <2>5 DEF Item
  <2>7. room => item.operating = TRUE
    BY <1>6, <1>7
  <2> QED
    BY <1>7, <2>6, <2>7
<1>9. ev.fn = "SendClassical" /\ ev.node = n /\ ev.id = id /\ IsDriver(ev)
  BY <1>7 DEF IsDriver
<1>10. /\ OnlyAt(n, rx_qubits, rx_qubits') /\ OnlyAt(n, rx_queue, rx_queue')
       /\ rx_qubits'[n] = IF room THEN Append(rx_qubits[n], item) ELSE rx_qubits[n]
       /\ rx_queue'[n] = IF room THEN rx_queue[n] ELSE Append(rx_queue[n], item)
       /\ events' = events \cup (IF room THEN {ev} ELSE {})
       /\ net' = net \ {m} /\ UNCHANGED <<tx_qubits, storage>>
  <2>1. /\ rx_qubits' = [rx_qubits EXCEPT ![n] =
                            IF room THEN Append(rx_qubits[n], item) ELSE rx_qubits[n]]
        /\ rx_queue' = [rx_queue EXCEPT ![n] =
                           IF room THEN rx_queue[n] ELSE Append(rx_queue[n], item)]
        /\ events' = events \cup (IF room THEN {ev} ELSE {})
        /\ net' = net \ {m} /\ UNCHANGED <<tx_qubits, storage>>
    BY <1>1, <1>6, <1>7
  <2> HIDE DEF known, room, Event0, Item0
  <2> QED
    BY <1>5, <2>1, OnlyAtExcept
<1> HIDE DEF known, room, Event0, Item0
<1>11. \A j : /\ At(rx_qubits'[n], j) = IF room /\ j = id THEN At(rx_qubits[n], j) \cup {item}
                                        ELSE At(rx_qubits[n], j)
              /\ At(rx_queue'[n], j) = IF ~room /\ j = id THEN At(rx_queue[n], j) \cup {item}
                                       ELSE At(rx_queue[n], j)
  <2>1. \A j : At(Append(rx_qubits[n], item), j)
                 = IF item.id = j THEN At(rx_qubits[n], j) \cup {item} ELSE At(rx_qubits[n], j)
    BY <1>5, <1>8, AtAppend
  <2>2. \A j : At(Append(rx_queue[n], item), j)
                 = IF item.id = j THEN At(rx_queue[n], j) \cup {item} ELSE At(rx_queue[n], j)
    BY <1>5, <1>8, AtAppend
  <2> QED
    BY <1>8, <1>10, <2>1, <2>2
<1>12. \A j \in Id : j # id => LiveOK(j)'
  <2>1. \A p \in net : p \in net' \/ p.id = id
    BY <1>2, <1>10
  <2>2. \A e : e.id # id => (e \in events' <=> e \in events)
    BY <1>9, <1>10
  <2>3. OnlyAt(n, tx_qubits, tx_qubits') /\ OnlyAt(n, storage, storage')
    BY <1>10 DEF OnlyAt
  <2>4. \A j : j # id => /\ At(tx_qubits'[n], j) = At(tx_qubits[n], j)
                         /\ At(rx_qubits'[n], j) = At(rx_qubits[n], j)
                         /\ At(rx_queue'[n], j) = At(rx_queue[n], j)
                         /\ At(storage'[n], j) = At(storage[n], j)
    BY <1>10, <1>11
  <2> QED
    BY <1>10, <2>1, <2>2, <2>3, <2>4, LiveOthers
<1>13. /\ Tx(id)' = Tx(id) /\ Kept(id[1], id)' = Kept(id[1], id)
       /\ Evs(id)' = Evs(id) \cup (IF room THEN {ev} ELSE {})
  <2>1. Evs(id)' = {e \in events' : e.id = id}
    BY ViewsNext
  <2> QED
    BY <1>9, <1>10, <2>1, ViewsNext DEF Tx, Kept, Evs
<1>14. /\ Rx(n, id)' = IF room THEN {item} ELSE {}
       /\ \A r \in Node : r # n => Rx(r, id)' = {}
       /\ ~room => Queued(n, id)' # {}
  <2>1. \A r \in Node : r # n => Rx(r, id)' = Rx(r, id)
    BY <1>10, ViewsNext DEF Rx, OnlyAt
  <2>2. Rx(n, id)' = At(rx_qubits'[n], id) /\ Queued(n, id)' = At(rx_queue'[n], id)
    BY ViewsNext
  <2>3. Rx(n, id)' = IF room THEN {item} ELSE {}
    BY <1>6, <1>11, <2>2
  <2>4. ~room => Queued(n, id)' # {}
    BY <1>11, <2>2
  <2>5. \A r \in Node : r # n => Rx(r, id)' = {}
    BY <1>4, <2>1 DEF NoRx
  <2> QED
    BY <2>3, <2>4, <2>5
<1>15. Alive(id)'
  <2>1. CASE room
    BY <1>9, <1>13, <2>1 DEF Alive, IsDriver
  <2>2. CASE ~room
    BY <1>14, <2>2 DEF Alive
  <2> QED
    BY <2>1, <2>2
<1>16. ~Resolved(id)'
  <2>1. Kept(id[1], id) = {}
    BY <1>4 DEF QubitOK, Holding, Open
  <2> QED
    BY <1>3, <1>9, <1>13, <2>1 DEF Resolved, IsDriver
<1>17. LiveOK(id)'
  BY <1>8, <1>14, <1>15, <1>16 DEF LiveOK
<1> QED
  BY <1>12, <1>17

\* A result arrives: its operation goes on with an event at the same node.
LEMMA ReceiveClassicalLive ==
  ASSUME OneQubit, OInv, \A j \in Id : LiveOK(j), NEW n \in Node, NEW id, ReceiveClassical(n, id)
  PROVE  \A j \in Id : LiveOK(j)'
<1>1. PICK m \in net : \E k, it, ev, awk : \/ AtSenderStep(n, id, m, k, it, ev, awk)
                                           \/ AtReceiverStep(n, id, m, k, it, ev, awk)
  BY ClassicalSteps
<1>2. PICK k, it, ev, awk : \/ AtSenderStep(n, id, m, k, it, ev, awk)
                            \/ AtReceiverStep(n, id, m, k, it, ev, awk)
  BY <1>1
<1>3. id \in Id
  BY ClassicalSteps
<1>4. /\ m.type = "Classical" /\ m.dst = n /\ m.id = id
      /\ ev.id = id /\ awk.id = id /\ it.id = id
      /\ events' = events \cup {ev} /\ net' \subseteq net \cup {awk}
      /\ \A p \in net : p \in net' \/ p = m
      /\ OnlyAt(n, storage, storage') /\ At(storage'[n], id) \subseteq At(storage[n], id)
      /\ \A j : j # id => At(storage'[n], j) = At(storage[n], j)
      /\ UNCHANGED rx_queue
  BY <1>2 DEF AtSenderStep, AtReceiverStep
<1>5. /\ Msgs(id) = {m} /\ \A e \in Evs(id) : ~IsDriver(e)
      /\ \A r \in Node : Queued(r, id) = {}
  BY <1>4, AlonePacket
<1>6. MessageOK(id, m) /\ id[1] \in Node /\ Rx(id[1], id) = {}
  BY <1>3, <1>5, OpFacts DEF DrivenOK
<1>7. Evs(id)' = Evs(id) \cup {ev} /\ Kept(id[1], id)' \subseteq Kept(id[1], id)
  <2>1. Evs(id)' = {e \in events' : e.id = id}
    BY ViewsNext
  <2> QED
    BY <1>4, <1>6, <2>1, ViewsNext DEF Evs, Kept, OnlyAt
<1>8. \A e \in Evs(id)' : e.fn # "SendClassical"
  <2>1. ev.fn # "SendClassical"
    BY <1>2 DEF AtSenderStep, AtReceiverStep
  <2> QED
    BY <1>5, <1>7, <2>1 DEF IsDriver
<1>9. CASE AtSenderStep(n, id, m, k, it, ev, awk)
  <2>1. /\ id[1] = n /\ ev.sender = TRUE
        /\ ev.fn = IF m.protocol = "telegate" THEN "LocalGate" ELSE "ReleaseQubit"
        /\ TxUpdate(n, k, it) /\ SameLists(rx_qubits, rx_qubits')
    BY <1>9 DEF AtSenderStep
  <2>2. MeasuredOK(id, m.src, m.protocol)
    BY <1>4, <1>6, <2>1 DEF MessageOK
  <2>3. \A r \in Node : Rx(r, id)' = Rx(r, id)
    BY <2>1, ViewsNext DEF Rx, SameLists
  <2>4. /\ OnlyAt(n, tx_qubits, tx_qubits')
        /\ \A j : j # id => At(tx_qubits'[n], j) = At(tx_qubits[n], j)
    <3>1. /\ OnlyAt(n, tx_qubits, tx_qubits')
          /\ \A j : j # it.id => At(tx_qubits'[n], j) = At(tx_qubits[n], j)
      BY <2>1, TxChanged
    <3> QED
      BY <1>4, <3>1
  <2>5. Kept(id[1], id)' = {}
    BY <1>7, <2>2 DEF MeasuredOK, Holding, Open
  <2>6. ASSUME m.protocol = "telegate"
        PROVE  LiveOK(id)'
    <3>1. IsDriver(ev) /\ ev.fn # "ReleaseQubit"
      BY <2>1, <2>6 DEF IsDriver
    <3>2. Alive(id)' /\ ~Resolved(id)'
      BY <1>5, <1>7, <2>5, <3>1 DEF Alive, Resolved, IsDriver
    <3> QED
      BY <1>8, <3>2 DEF LiveOK
  <2>7. ASSUME m.protocol # "telegate"
        PROVE  LiveOK(id)'
    <3>1. ~IsDriver(ev)
      BY <2>1, <2>7 DEF IsDriver
    <3>2. Releasing(id)'
      BY <1>7, <3>1 DEF Releasing, IsDriver
    <3>3. \A r \in Node : Rx(r, id)' = {}
      BY <2>2, <2>3, <2>7 DEF MeasuredOK, NoRx
    <3> QED
      BY <1>8, <3>2, <3>3 DEF LiveOK
  <2>8. LiveOK(id)'
    BY <2>6, <2>7
  <2>9. \A j \in Id : j # id => LiveOK(j)'
    <3>1. \A p \in net : p \in net' \/ p.id = id
      BY <1>4
    <3>2. \A e : e.id # id => (e \in events' <=> e \in events)
      BY <1>4
    <3>3. OnlyAt(n, rx_qubits, rx_qubits') /\ OnlyAt(n, rx_queue, rx_queue')
      BY <1>4, <2>1 DEF OnlyAt, SameLists
    <3>4. \A j : j # id => /\ At(tx_qubits'[n], j) = At(tx_qubits[n], j)
                           /\ At(rx_qubits'[n], j) = At(rx_qubits[n], j)
                           /\ At(rx_queue'[n], j) = At(rx_queue[n], j)
                           /\ At(storage'[n], j) = At(storage[n], j)
      BY <1>4, <2>1, <2>4 DEF SameLists
    <3> QED
      BY <1>4, <2>4, <3>1, <3>2, <3>3, <3>4, LiveOthers
  <2> QED
    BY <2>8, <2>9
<1>10. CASE AtReceiverStep(n, id, m, k, it, ev, awk)
  <2>1. /\ id[1] # n /\ ev.sender = FALSE /\ ev.fn = "ReleaseQubit"
        /\ RxUpdate(n, k, it) /\ SameLists(tx_qubits, tx_qubits')
    BY <1>10 DEF AtReceiverStep
  <2>2. ResultOK(id, m)
    BY <1>4, <1>6, <2>1 DEF MessageOK
  <2>3. Tx(id)' = Tx(id)
    BY <1>6, <2>1, ViewsNext DEF Tx, SameLists
  <2>4. Alive(id)'
    BY <1>7, <2>1 DEF Alive, IsDriver
  <2>5. Resolved(id)
    BY <2>2 DEF ResultOK, Resolved
  <2>6. Tx(id)' # {} => Releasing(id)'
    BY <1>3, <1>7, <2>3, <2>5 DEF LiveOK, Releasing, IsDriver
  <2>7. LiveOK(id)'
    BY <1>8, <2>4, <2>6 DEF LiveOK
  <2>8. /\ OnlyAt(n, rx_qubits, rx_qubits')
        /\ \A j : j # id => At(rx_qubits'[n], j) = At(rx_qubits[n], j)
    <3>1. /\ OnlyAt(n, rx_qubits, rx_qubits')
          /\ \A j : j # it.id => At(rx_qubits'[n], j) = At(rx_qubits[n], j)
      BY <2>1, RxChanged
    <3> QED
      BY <1>4, <3>1
  <2>9. \A j \in Id : j # id => LiveOK(j)'
    <3>1. \A p \in net : p \in net' \/ p.id = id
      BY <1>4
    <3>2. \A e : e.id # id => (e \in events' <=> e \in events)
      BY <1>4
    <3>3. OnlyAt(n, tx_qubits, tx_qubits') /\ OnlyAt(n, rx_queue, rx_queue')
      BY <1>4, <2>1 DEF OnlyAt, SameLists
    <3>4. \A j : j # id => /\ At(tx_qubits'[n], j) = At(tx_qubits[n], j)
                           /\ At(rx_qubits'[n], j) = At(rx_qubits[n], j)
                           /\ At(rx_queue'[n], j) = At(rx_queue[n], j)
                           /\ At(storage'[n], j) = At(storage[n], j)
      BY <1>4, <2>1, <2>8 DEF SameLists
    <3> QED
      BY <1>4, <2>8, <3>1, <3>2, <3>3, <3>4, LiveOthers
  <2> QED
    BY <2>7, <2>9
<1> QED
  BY <1>2, <1>9, <1>10

\* Send: the operations that get a qubit are on their way.
LEMMA SendLive ==
  ASSUME NoOwnPeer, OInv, DInv', \A j \in Id : LiveOK(j),
         NEW n \in Node, NEW queue, NEW base, NEW k, NEW gone,
         SendStep(n, base, queue, k, gone),
         net' = net \cup {QubitOf(n, queue[i]) : i \in 1..k},
         \A j \in gone : At(base, j) = {} /\ ~Unsent(j) /\ j[1] = n,
         \A e \in events : IsDriver(e) \/ e.id \notin gone => e \in events'
  PROVE  \A j \in Id : LiveOK(j)'
<1>1. /\ \A j : /\ At(base, j) \subseteq At(tx_qubits[n], j)
                /\ j \notin gone => At(base, j) = At(tx_qubits[n], j)
      /\ tx_qubits' = [tx_qubits EXCEPT ![n] = base \o FirstOf(queue, k)]
      /\ events' \subseteq events /\ UNCHANGED <<rx_queue, rx_qubits, storage>>
  BY DEF SendStep
<1>2. \A j \in Id :
        /\ (\A i \in 1..k : queue[i].id # j) => At(tx_qubits'[n], j) = At(base, j)
        /\ ~Unsent(j) => At(tx_qubits'[n], j) = At(base, j)
  BY SendOps
<1>3. OnlyAt(n, tx_qubits, tx_qubits')
  BY <1>1, OnlyAtExcept
<1> SUFFICES ASSUME NEW j \in Id PROVE LiveOK(j)'
  OBVIOUS
<1>4. j[1] \in Node
  BY DEF Id
<1>5. \A r \in Node : /\ Rx(r, j)' = Rx(r, j) /\ Queued(r, j)' = Queued(r, j)
                      /\ Kept(r, j)' = Kept(r, j)
  BY <1>1, ViewsNext DEF Rx, Queued, Kept
<1>6. /\ Evs(j)' \subseteq Evs(j) /\ \A e \in Evs(j) : IsDriver(e) => e \in Evs(j)'
      /\ j \notin gone => Evs(j)' = Evs(j)
      /\ \A m \in Msgs(j) : m \in Msgs(j)'
  <2>1. Evs(j)' = {e \in events' : e.id = j} /\ Msgs(j)' = {m \in net' : m.id = j}
    BY ViewsNext
  <2> QED
    BY <1>1, <2>1 DEF Evs, Msgs
<1>7. Tx(j)' = At(tx_qubits'[j[1]], j) /\ (j[1] # n => Tx(j)' = Tx(j))
  BY <1>3, <1>4, ViewsNext DEF Tx, OnlyAt
<1>8. CASE j \in gone
  <2>1. Tx(j)' = {}
    BY <1>2, <1>7, <1>8
  <2>2. Alive(j) => Alive(j)'
    BY <1>5, <1>6 DEF Alive, IsDriver
  <2>3. \A r \in Node : Rx(r, j)' # {} => Alive(j)'
    BY <1>5, <2>2 DEF LiveOK
  <2>4. \A r \in Node : \A e \in Evs(j)' :
          e.fn = "SendClassical" /\ e.node = r => \A it \in Rx(r, j)' : it.operating = TRUE
    BY <1>5, <1>6 DEF LiveOK
  <2> QED
    BY <2>1, <2>3, <2>4 DEF LiveOK
<1>9. CASE j \notin gone /\ ~Unsent(j)
  <2>1. Tx(j)' = Tx(j)
    BY <1>1, <1>2, <1>7, <1>9 DEF Tx
  <2> QED
    BY <1>4, <1>5, <1>6, <1>9, <2>1, LiveFrame
<1>10. CASE Unsent(j)
  <2>1. Untouched(j)
    BY <1>10, OpFacts DEF KeysOK
  <2>2. Evs(j)' = {} /\ Kept(j[1], j)' = {} /\ \A r \in Node : Rx(r, j)' = {}
    BY <1>4, <1>5, <1>6, <2>1 DEF Untouched
  <2>3. ASSUME Tx(j)' # {}
        PROVE  Alive(j)'
    <3>1. j[1] = n
      BY <1>7, <2>1, <2>3 DEF Untouched
    <3>2. PICK i \in 1..k : queue[i].id = j
      BY <1>1, <1>2, <1>7, <2>1, <2>3, <3>1 DEF Untouched, Tx
    <3>3. PICK m : m = QubitOf(n, queue[i])
      OBVIOUS
    <3>4. m.id = j /\ m.type = "Qubit" /\ m \in net'
      BY <3>2, <3>3 DEF QubitOf, Packet
    <3>5. m \in Msgs(j)'
      BY <3>4, ViewsNext
    <3> QED
      BY <3>4, <3>5 DEF Alive
  <2>4. ~Resolved(j)'
    BY <2>2 DEF Resolved
  <2> QED
    BY <2>2, <2>3, <2>4 DEF LiveOK
<1> QED
  BY <1>8, <1>9, <1>10

LEMMA RunBodyLive ==
  ASSUME NoOwnPeer, OInv, DInv', \A j \in Id : LiveOK(j), NEW n \in Node, RunBody(n)
  PROVE  \A j \in Id : LiveOK(j)'
<1>1. PICK base, queue, k : /\ SendStep(n, base, queue, k, {})
                            /\ net' = net \cup {QubitOf(n, queue[i]) : i \in 1..k}
                            /\ events' = events
  BY RunBodySends
<1>2. \A e \in events : IsDriver(e) \/ e.id \notin {} => e \in events'
  BY <1>1
<1>3. \A j \in {} : At(base, j) = {} /\ ~Unsent(j) /\ j[1] = n
  OBVIOUS
<1> QED
  BY <1>1, <1>2, <1>3, SendLive

LEMMA ReleaseAtSenderLive ==
  ASSUME NoOwnPeer, OInv, DInv', AllBound, \A j \in Id : LiveOK(j),
         NEW n \in Node, NEW id, NEW e \in events,
         e.fn = "ReleaseQubit", e.node = n, e.id = id, e.sender, events' = events \ {e},
         ReleaseAtSender(n, id)
  PROVE  \A j \in Id : LiveOK(j)'
<1>1. ~IsDriver(e) /\ id \in Id /\ e \in Evs(id) /\ n = id[1] /\ ~Unsent(id)
  BY ReleaseAtSenderSends
<1>2. PICK base, queue, k :
        /\ SendStep(n, base, queue, k, {id}) /\ At(base, id) = {}
        /\ net' = net \cup Out(n, SentOf(n, queue, k))
        /\ queue = tx_queue[n] /\ k = Movable(queue, base) /\ Len(base) < NumQubits
  BY ReleaseAtSenderSends
<1>3. net' = net \cup {QubitOf(n, queue[i]) : i \in 1..k}
  BY <1>2 DEF Out, AllBound, SentOf
<1>4. \A f \in events : IsDriver(f) \/ f.id \notin {id} => f \in events'
  BY <1>1
<1>5. \A j \in {id} : At(base, j) = {} /\ ~Unsent(j) /\ j[1] = n
  BY <1>1, <1>2
<1> QED
  BY <1>2, <1>3, <1>4, <1>5, SendLive

\* The operations that a release at a receiver leaves alone, or asks for.
LEMMA ReleaseOthersLive ==
  ASSUME OneQubit, OInv, AllBound, \A j \in Id : LiveOK(j), NEW n \in Node, NEW id, NEW sent,
         CanReleaseRx(n, id), ReleaseAtReceiver(n, id, sent),
         OnlyAt(n, storage, storage'),
         \A j : j # id => At(storage'[n], j) = At(storage[n], j),
         \A e : e.id # id => (e \in events' <=> e \in events), UNCHANGED tx_qubits
  PROVE  \A j \in Id : j # id => LiveOK(j)'
<1> SUFFICES ASSUME NEW j \in Id, j # id PROVE LiveOK(j)'
  OBVIOUS
<1>1. PICK queue \in Seq(Item(n)) : queue = rx_queue[n] /\ Distinct(queue)
  BY NodeLists DEF OInv, DInv
<1>2. PICK h, nack : h = Head(queue) /\ nack = NACKFor(n, h.peer, h.id, h.protocol)
  OBVIOUS
<1>3. /\ nack.id = h.id /\ nack.type = "NACK"
      /\ Promoted(n) = IF queue = <<>> THEN {} ELSE {nack}
  BY <1>1, <1>2 DEF NACKFor, Packet, Promoted
<1>4. n \in DOMAIN rx_qubits /\ n \in DOMAIN rx_queue /\ j[1] \in Node
  BY NodeLists DEF OInv, DInv, Id
<1>5. /\ OnlyAt(n, rx_qubits, rx_qubits') /\ rx_qubits'[n] = ReleasedRx(n, id)
      /\ OnlyAt(n, rx_queue, rx_queue')
      /\ rx_queue'[n] = IF queue = <<>> THEN queue ELSE Tail(queue)
      /\ net' = net \cup sent \cup Promoted(n)
  <2>1. net' = net \cup sent \cup Promoted(n)
    BY DEF ReleaseAtReceiver, Out, AllBound
  <2>2. OnlyAt(n, rx_qubits, rx_qubits') /\ rx_qubits'[n] = ReleasedRx(n, id)
    BY <1>4, OnlyAtExcept DEF ReleaseAtReceiver
  <2>3. /\ OnlyAt(n, rx_queue, rx_queue')
        /\ rx_queue'[n] = IF queue = <<>> THEN queue ELSE Tail(queue)
    BY <1>1, <1>4, OnlyAtExcept DEF ReleaseAtReceiver
  <2> QED
    BY <2>1, <2>2, <2>3
<1>6. Tx(j)' = Tx(j) /\ Evs(j)' = Evs(j) /\ \A m \in Msgs(j) : m \in Msgs(j)'
  <2>1. Evs(j)' = {e \in events' : e.id = j} /\ Msgs(j)' = {m \in net' : m.id = j}
    BY ViewsNext
  <2> QED
    BY <1>5, <2>1, ViewsNext DEF Tx, Evs, Msgs
<1>7. Kept(j[1], j)' = Kept(j[1], j)
  <2>1. CASE j[1] = n
    BY <2>1, ViewsNext DEF Kept
  <2>2. CASE j[1] # n
    BY <1>4, <2>2, ViewsNext DEF Kept, OnlyAt
  <2> QED
    BY <2>1, <2>2
<1>8. \A r \in Node : r # n => Rx(r, j)' = Rx(r, j) /\ Queued(r, j)' = Queued(r, j)
  BY <1>5, ViewsNext DEF Rx, Queued, OnlyAt
<1>9. Rx(n, j)' = {}
  <2>1. Has(rx_qubits[n], id)
    BY DEF CanReleaseRx
  <2>2. Rx(n, j)' = At(ReleasedRx(n, id), j)
    BY <1>5, ViewsNext
  <2> QED
    BY <2>1, <2>2, ReleasedRxAt
<1>10. Queued(n, j)' = At(rx_queue'[n], j) /\ Queued(n, j) = At(queue, j)
  BY <1>1, ViewsNext DEF Queued
<1>11. CASE queue # <<>> /\ h.id = j
  <2>1. nack \in Msgs(j)'
    BY <1>3, <1>5, <1>11, ViewsNext
  <2>2. Alive(j)'
    BY <1>3, <2>1 DEF Alive
  <2>3. (Resolved(j)' => Resolved(j)) /\ (Releasing(j) => Releasing(j)')
    BY <1>6, <1>7 DEF Resolved, Releasing, IsDriver
  <2>4. \A r \in Node : \A e \in Evs(j)' :
          e.fn = "SendClassical" /\ e.node = r => \A it \in Rx(r, j)' : it.operating = TRUE
    BY <1>6, <1>8, <1>9 DEF LiveOK
  <2> QED
    BY <1>6, <2>2, <2>3, <2>4 DEF LiveOK
<1>12. CASE ~(queue # <<>> /\ h.id = j)
  <2>1. Queued(n, j)' = Queued(n, j)
    BY <1>1, <1>2, <1>5, <1>10, <1>12, AtTail
  <2>2. \A r \in Node : Rx(r, j)' \subseteq Rx(r, j) /\ (Queued(r, j) # {} => Queued(r, j)' # {})
    BY <1>8, <1>9, <2>1
  <2> QED
    BY <1>6, <1>7, <2>2, LiveFrame
<1> QED
  BY <1>11, <1>12

\* A telegate ends at its receiver: its sender has already finished, or will.
LEMMA ReleaseAtReceiverLive ==
  ASSUME OneQubit, OInv, AllBound, \A j \in Id : LiveOK(j),
         NEW n \in Node, NEW id, NEW e \in events,
         e.fn = "ReleaseQubit", e.node = n, e.id = id, ~e.sender, events' = events \ {e},
         CanReleaseRx(n, id), ReleaseAtReceiver(n, id, {}), UNCHANGED <<tx_qubits, storage>>
  PROVE  \A j \in Id : LiveOK(j)'
<1>1. IsDriver(e) /\ id \in Id /\ e \in Evs(id)
  BY DEF IsDriver, Evs, OInv, DInv, IInv, RestOK, Event
<1>2. \A r \in Node : Queued(r, id) = {}
  BY <1>1, AloneEvent
<1>3. \A r \in Node : Rx(r, id)' = {}
  <2>1. \A p \in {} : p.id = id
    OBVIOUS
  <2>2. NoRx(id)'
    BY <1>1, <1>2, <2>1, ReleasedViews
  <2> QED
    BY <2>2 DEF NoRx
<1>4. Tx(id)' = Tx(id) /\ Evs(id)' = Evs(id) \ {e}
  BY ViewsNext DEF Tx, Evs
<1>5. Tx(id)' # {} => Releasing(id)'
  <2>1. Resolved(id)
    BY <1>1 DEF Resolved
  <2>2. Tx(id) # {} => Releasing(id)
    BY <1>1, <2>1 DEF LiveOK
  <2> QED
    BY <1>1, <1>4, <2>2 DEF Releasing, IsDriver
<1>6. LiveOK(id)'
  BY <1>3, <1>5 DEF LiveOK
<1>7. \A j \in Id : j # id => LiveOK(j)'
  <2>1. \A f : f.id # id => (f \in events' <=> f \in events)
    OBVIOUS
  <2>2. OnlyAt(n, storage, storage') /\ \A j : j # id => At(storage'[n], j) = At(storage[n], j)
    BY DEF OnlyAt
  <2> QED
    BY <2>1, <2>2, ReleaseOthersLive
<1> QED
  BY <1>6, <1>7

LEMMA ReleaseQubitLive ==
  ASSUME NoOwnPeer, OneQubit, OInv, DInv', AllBound, \A j \in Id : LiveOK(j),
         NEW n \in Node, NEW id, ReleaseQubit(n, id), failed' = "none"
  PROVE  \A j \in Id : LiveOK(j)'
<1>1. PICK e \in events :
        /\ e.fn = "ReleaseQubit" /\ e.node = n /\ e.id = id
        /\ events' = events \ {e}
        /\ \/ e.sender /\ ReleaseAtSender(n, id)
           \/ /\ ~e.sender
              /\ CanReleaseRx(n, id) /\ ReleaseAtReceiver(n, id, {})
              /\ UNCHANGED <<tx_qubits, storage>>
  BY DEF ReleaseQubit
<1>2. CASE e.sender
  BY <1>1, <1>2, ReleaseAtSenderLive
<1>3. CASE ~e.sender
  BY <1>1, <1>3, ReleaseAtReceiverLive
<1> QED
  BY <1>2, <1>3

\* The receiver is always found operating, and its result is on its way.
LEMMA SendClassicalLive ==
  ASSUME OneQubit, OInv, AllBound, \A j \in Id : LiveOK(j), NEW n \in Node, NEW id,
         SendClassical(n, id), failed' = "none"
  PROVE  \A j \in Id : LiveOK(j)'
<1> DEFINE s == Slot(rx_qubits[n], id)
           it == rx_qubits[n][s]
           result0 == [it EXCEPT !.operating = FALSE, !.x = TRUE, !.z = it.protocol = "teledata"]
           packet0 == Packet("Classical", n, it.peer, id, it.protocol, TRUE,
                             it.protocol = "teledata")
           Measured ==
             /\ storage' = [storage EXCEPT ![n] = Append(storage[n], result0)]
             /\ IF DoneAtOnce(it.protocol)
                THEN CanReleaseRx(n, id) /\ ReleaseAtReceiver(n, id, {packet0})
                ELSE /\ rx_qubits' = [rx_qubits EXCEPT ![n][s].operating = FALSE]
                     /\ net' = net \cup Out(n, {packet0})
                     /\ UNCHANGED rx_queue
             /\ UNCHANGED tx_qubits
<1>1. PICK e \in events :
        /\ e.fn = "SendClassical" /\ e.node = n /\ e.id = id
        /\ events' = events \ {e}
        /\ Has(rx_qubits[n], id) /\ (it.operating => Measured)
  BY DEF SendClassical
<1>2. IsDriver(e) /\ id \in Id /\ e \in Evs(id)
  BY <1>1 DEF IsDriver, Evs, OInv, DInv, IInv, RestOK, Event
<1>3. EventOK(id, e) /\ id[1] \in Node
  BY <1>2, OpFacts DEF DrivenOK
<1>4. n # id[1] /\ Kept(id[1], id) = {}
  BY <1>1, <1>3 DEF EventOK, Holding, Open
<1>5. /\ \A f \in Evs(id) : IsDriver(f) => f = e
      /\ \A r \in Node : Queued(r, id) = {}
  BY <1>1, <1>2, AloneEvent
<1>6. rx_qubits[n] \in Seq(Item(n)) /\ storage[n] \in Seq(Item(n)) /\ n \in DOMAIN storage
      /\ n \in DOMAIN rx_qubits
  BY NodeLists DEF OInv, DInv
<1>7. PICK k : k = s
  OBVIOUS
<1>8. k \in 1..Len(rx_qubits[n]) /\ rx_qubits[n][k].id = id /\ rx_qubits[n][k] \in Item(n)
      /\ rx_qubits[n][k] \in At(rx_qubits[n], id)
  BY <1>1, <1>6, <1>7, SlotAt
<1>9. PICK item \in Item(n) : item = rx_qubits[n][k] /\ item \in Rx(n, id) /\ item.id = id
  BY <1>8 DEF Rx
<1>10. item.operating = TRUE
  BY <1>1, <1>2, <1>9 DEF LiveOK
<1>11. PICK result, packet :
         /\ result = [item EXCEPT !.operating = FALSE, !.x = TRUE, !.z = item.protocol = "teledata"]
         /\ packet = Packet("Classical", n, item.peer, id, item.protocol, TRUE,
                            item.protocol = "teledata")
  OBVIOUS
<1>12. result \in Item(n) /\ result.id = id /\ packet.id = id /\ packet.type = "Classical"
  BY <1>9, <1>11 DEF Item, Packet
<1>13. /\ storage' = [storage EXCEPT ![n] = Append(storage[n], result)]
       /\ IF DoneAtOnce(item.protocol)
          THEN CanReleaseRx(n, id) /\ ReleaseAtReceiver(n, id, {packet})
          ELSE /\ rx_qubits' = [rx_qubits EXCEPT ![n][k].operating = FALSE]
               /\ net' = net \cup Out(n, {packet})
               /\ UNCHANGED rx_queue
       /\ UNCHANGED tx_qubits /\ events' = events \ {e}
  BY <1>1, <1>7, <1>9, <1>10, <1>11
<1> HIDE DEF s, it, result0, packet0, Measured
<1>14. OnlyAt(n, storage, storage') /\ \A j : j # id => At(storage'[n], j) = At(storage[n], j)
  <2>1. OnlyAt(n, storage, storage') /\ storage'[n] = Append(storage[n], result)
    BY <1>6, <1>13, OnlyAtExcept
  <2>2. \A j : At(Append(storage[n], result), j)
                 = IF result.id = j THEN At(storage[n], j) \cup {result} ELSE At(storage[n], j)
    BY <1>6, <1>12, AtAppend
  <2> QED
    BY <1>12, <2>1, <2>2
<1>15. Alive(id)'
  <2>1. packet \in net'
    BY <1>13 DEF ReleaseAtReceiver, Out, AllBound
  <2>2. packet \in Msgs(id)'
    BY <1>12, <2>1, ViewsNext
  <2> QED
    BY <1>12, <2>2 DEF Alive
<1>16. Evs(id)' = Evs(id) \ {e} /\ Kept(id[1], id)' = {}
  BY <1>3, <1>4, <1>13, <1>14, ViewsNext DEF Evs, Kept, OnlyAt
<1>17. LiveOK(id)'
  <2>1. ~Resolved(id)' /\ \A f \in Evs(id)' : f.fn # "SendClassical"
    BY <1>5, <1>16 DEF Resolved, IsDriver
  <2> QED
    BY <1>15, <2>1 DEF LiveOK
<1>18. \A f : f.id # id => (f \in events' <=> f \in events)
  BY <1>1
<1>19. ASSUME DoneAtOnce(item.protocol)
       PROVE  \A j \in Id : j # id => LiveOK(j)'
  BY <1>13, <1>14, <1>18, <1>19, ReleaseOthersLive
<1>20. ASSUME ~DoneAtOnce(item.protocol)
       PROVE  \A j \in Id : j # id => LiveOK(j)'
  <2>1. PICK up : up = [item EXCEPT !.operating = FALSE]
    OBVIOUS
  <2>2. rx_qubits' = [rx_qubits EXCEPT ![n] = [rx_qubits[n] EXCEPT ![k] = up]] /\ up.id = id
    BY <1>9, <1>13, <1>20, <2>1 DEF Item
  <2>3. OnlyAt(n, rx_qubits, rx_qubits') /\ rx_qubits'[n] = [rx_qubits[n] EXCEPT ![k] = up]
    BY <1>6, <2>2, OnlyAtExcept
  <2>4. \A j : j # id => At(rx_qubits'[n], j) = At(rx_qubits[n], j)
    <3> SUFFICES ASSUME NEW j, j # id PROVE At(rx_qubits'[n], j) = At(rx_qubits[n], j)
      OBVIOUS
    <3>1. rx_qubits[n][k].id # j /\ up.id # j
      BY <1>8, <2>2
    <3> QED
      BY <1>6, <1>8, <2>3, <3>1, ExceptOther
  <2>5. /\ \A p \in net : p \in net' \/ p.id = id
        /\ OnlyAt(n, tx_qubits, tx_qubits') /\ OnlyAt(n, rx_queue, rx_queue')
        /\ tx_qubits'[n] = tx_qubits[n] /\ rx_queue'[n] = rx_queue[n]
    BY <1>13, <1>20 DEF OnlyAt
  <2>6. \A j : j # id => /\ At(tx_qubits'[n], j) = At(tx_qubits[n], j)
                         /\ At(rx_qubits'[n], j) = At(rx_qubits[n], j)
                         /\ At(rx_queue'[n], j) = At(rx_queue[n], j)
                         /\ At(storage'[n], j) = At(storage[n], j)
    BY <1>14, <2>4, <2>5
  <2> QED
    BY <1>14, <1>18, <2>3, <2>5, <2>6, LiveOthers
<1> QED
  BY <1>17, <1>19, <1>20

\* The local gate leaves a result for the receiver and an event for the sender.
LEMMA LocalGateLive ==
  ASSUME OInv, AllBound, \A j \in Id : LiveOK(j), NEW n \in Node, NEW id,
         LocalGate(n, id), failed' = "none"
  PROVE  \A j \in Id : LiveOK(j)'
<1> DEFINE s == Slot(tx_qubits[n], id)
           item == tx_qubits[n][s]
           result0 == [item EXCEPT !.operating = FALSE, !.x = FALSE, !.z = TRUE]
           release0 == [fn |-> "ReleaseQubit", node |-> n, id |-> id, sender |-> TRUE]
           packet0 == Packet("Classical", n, item.peer, id, item.protocol, FALSE, TRUE)
<1>1. PICK e \in events :
        /\ e.fn = "LocalGate" /\ e.node = n /\ e.id = id
        /\ Has(tx_qubits[n], id)
        /\ events' = (events \ {e}) \cup {release0}
        /\ item.operating =>
             /\ tx_qubits' = [tx_qubits EXCEPT ![n][s].operating = FALSE]
             /\ storage' = [storage EXCEPT ![n] = Append(storage[n], result0)]
             /\ net' = net \cup Out(n, {packet0})
        /\ UNCHANGED <<rx_queue, rx_qubits>>
  BY DEF LocalGate, Abort
<1>2. IsDriver(e) /\ id \in Id /\ e \in Evs(id)
  BY <1>1 DEF IsDriver, Evs, OInv, DInv, IInv, RestOK, Event
<1>3. id[1] = n /\ \A t \in Tx(id) : t.operating = TRUE
  BY <1>1, <1>2, OpFacts DEF DrivenOK, EventOK
<1>4. /\ tx_qubits[n] \in Seq(Item(n)) /\ storage[n] \in Seq(Item(n))
      /\ n \in DOMAIN storage /\ n \in DOMAIN tx_qubits
  BY NodeLists DEF OInv, DInv
<1>5. PICK k : k = s
  OBVIOUS
<1>6. k \in 1..Len(tx_qubits[n]) /\ tx_qubits[n][k].id = id /\ tx_qubits[n][k] \in Item(n)
      /\ tx_qubits[n][k] \in At(tx_qubits[n], id)
  BY <1>1, <1>4, <1>5, SlotAt
<1>7. PICK old \in Item(n) : old = tx_qubits[n][k] /\ old.id = id /\ old.operating = TRUE
  BY <1>3, <1>6 DEF Tx
<1>8. PICK it, result, release, packet :
        /\ it = [old EXCEPT !.operating = FALSE]
        /\ result = [old EXCEPT !.operating = FALSE, !.x = FALSE, !.z = TRUE]
        /\ release = release0
        /\ packet = Packet("Classical", n, old.peer, id, old.protocol, FALSE, TRUE)
  OBVIOUS
<1>9. /\ it.id = id /\ result \in Item(n) /\ result.id = id
      /\ packet.id = id /\ packet.type = "Classical"
      /\ release.id = id /\ release.fn = "ReleaseQubit" /\ ~IsDriver(release)
  BY <1>7, <1>8 DEF Item, Packet, IsDriver
<1>10. /\ tx_qubits' = [tx_qubits EXCEPT ![n] = [tx_qubits[n] EXCEPT ![k] = it]]
       /\ storage' = [storage EXCEPT ![n] = Append(storage[n], result)]
       /\ net' = net \cup {packet} /\ events' = (events \ {e}) \cup {release}
       /\ UNCHANGED <<rx_queue, rx_qubits>>
  <2>1. item = old
    BY <1>5, <1>7
  <2>2. tx_qubits' = [tx_qubits EXCEPT ![n][k].operating = FALSE]
    BY <1>1, <1>5, <1>7, <2>1
  <2>3. tx_qubits' = [tx_qubits EXCEPT ![n] = [tx_qubits[n] EXCEPT ![k] = it]]
    BY <1>7, <1>8, <2>2
  <2> QED
    BY <1>1, <1>7, <1>8, <2>1, <2>3 DEF Out, AllBound
<1> HIDE DEF s, item, result0, release0, packet0
<1>11. /\ OnlyAt(n, tx_qubits, tx_qubits')
       /\ \A j : j # id => At(tx_qubits'[n], j) = At(tx_qubits[n], j)
  <2>1. TxUpdate(n, k, it)
    BY <1>6, <1>9, <1>10 DEF TxUpdate
  <2>2. /\ OnlyAt(n, tx_qubits, tx_qubits')
        /\ \A j : j # it.id => At(tx_qubits'[n], j) = At(tx_qubits[n], j)
    BY <2>1, TxChanged
  <2> QED
    BY <1>9, <2>2
<1>12. OnlyAt(n, storage, storage') /\ \A j : j # id => At(storage'[n], j) = At(storage[n], j)
  <2>1. OnlyAt(n, storage, storage') /\ storage'[n] = Append(storage[n], result)
    BY <1>4, <1>10, OnlyAtExcept
  <2>2. \A j : At(Append(storage[n], result), j)
                 = IF result.id = j THEN At(storage[n], j) \cup {result} ELSE At(storage[n], j)
    BY <1>4, <1>9, AtAppend
  <2> QED
    BY <1>9, <2>1, <2>2
<1>13. LiveOK(id)'
  <2>1. packet \in Msgs(id)' /\ Evs(id)' = (Evs(id) \ {e}) \cup {release}
    <3>1. Evs(id)' = {f \in events' : f.id = id} /\ Msgs(id)' = {m \in net' : m.id = id}
      BY ViewsNext
    <3> QED
      BY <1>9, <1>10, <3>1 DEF Evs
  <2>2. Alive(id)'
    BY <1>9, <2>1 DEF Alive
  <2>3. Releasing(id)'
    BY <1>9, <2>1 DEF Releasing, IsDriver
  <2>4. \A r \in Node : Rx(r, id)' = Rx(r, id)
    BY <1>10, ViewsNext DEF Rx
  <2>5. \A r \in Node : \A f \in Evs(id)' :
          f.fn = "SendClassical" /\ f.node = r => \A jt \in Rx(r, id)' : jt.operating = TRUE
    BY <1>2, <1>9, <2>1, <2>4 DEF LiveOK
  <2> QED
    BY <2>2, <2>3, <2>5 DEF LiveOK
<1>14. \A j \in Id : j # id => LiveOK(j)'
  <2>1. \A p \in net : p \in net' \/ p.id = id
    BY <1>10
  <2>2. \A f : f.id # id => (f \in events' <=> f \in events)
    BY <1>1, <1>9, <1>10
  <2>3. OnlyAt(n, rx_qubits, rx_qubits') /\ OnlyAt(n, rx_queue, rx_queue')
    BY <1>10 DEF OnlyAt
  <2>4. \A j : j # id => /\ At(tx_qubits'[n], j) = At(tx_qubits[n], j)
                         /\ At(rx_qubits'[n], j) = At(rx_qubits[n], j)
                         /\ At(rx_queue'[n], j) = At(rx_queue[n], j)
                         /\ At(storage'[n], j) = At(storage[n], j)
    BY <1>10, <1>11, <1>12
  <2> QED
    BY <1>11, <1>12, <2>1, <2>2, <2>3, <2>4, LiveOthers
<1> QED
  BY <1>13, <1>14

LEMMA StepLive ==
  ASSUME NoOwnPeer, OneQubit, Lossy = FALSE, OInv, OInv', LiveInv, [Next]_vars
  PROVE  LiveInv'
<1> SUFFICES ASSUME \A n \in Node : sock'[n] # "closed"
             PROVE  \A j \in Id : LiveOK(j)'
  BY DEF LiveInv
<1>0. DInv' /\ failed' = "none" /\ sock \in [Node -> {"unbound", "bound", "closed"}]
  BY DEF OInv, DInv, IInv, RestOK
<1>1. ASSUME NEW n \in Node, StartApplication(n) \/ Run(n)
      PROVE  \A j \in Id : LiveOK(j)'
  <2>1. RunBody(n) /\ sock[n] # "closed"
    BY <1>1 DEF StartApplication, Run
  <2>2. \A r \in Node : r # n => sock'[r] = sock[r]
    BY <1>0, <2>1 DEF RunBody, Abort
  <2>3. \A j \in Id : LiveOK(j)
    BY <2>1, <2>2 DEF LiveInv
  <2> QED
    BY <1>0, <2>1, <2>3, RunBodyLive
<1>2. ASSUME UNCHANGED sock, Running
      PROVE  AllBound /\ \A j \in Id : LiveOK(j)
  BY <1>0, <1>2 DEF Running, AllBound, LiveInv
<1>3. CASE Lose \/ \E n \in Node : StopApplication(n)
  <2>1. ASSUME NEW n \in Node, StopApplication(n)
        PROVE  FALSE
    BY <1>0, <2>1 DEF StopApplication
  <2>2. ASSUME Lose
        PROVE  FALSE
    <3>1. PICK m \in net : sock[m.dst] # "bound"
      BY <2>2 DEF Lose
    <3>2. m.dst \in Node
      BY ArrivedId DEF OInv, DInv, PeerMessage, Message
    <3> QED
      BY <1>2, <2>2, <3>1, <3>2 DEF Lose, AllBound
  <2> QED
    BY <1>3, <2>1, <2>2
<1>4. CASE UNCHANGED vars
  <2>1. \A j \in Id : LiveOK(j)
    BY <1>4 DEF LiveInv, vars
  <2> SUFFICES ASSUME NEW j \in Id PROVE LiveOK(j)'
    OBVIOUS
  <2>2. /\ Tx(j)' = Tx(j) /\ Msgs(j)' = Msgs(j) /\ Evs(j)' = Evs(j)
        /\ Kept(j[1], j)' = Kept(j[1], j)
        /\ \A r \in Node : Rx(r, j)' = Rx(r, j) /\ Queued(r, j)' = Queued(r, j)
    BY <1>4, ViewsNext DEF vars, held, Tx, Msgs, Evs, Kept, Rx, Queued
  <2> QED
    BY <2>1, <2>2, LiveFrame
<1>5. ASSUME NEW n \in Node, NEW id, QubitSpoiled(n, id) \/ ClassicalSpoiled(n, id)
      PROVE  \A j \in Id : LiveOK(j)'
  <2>1. PICK m \in net : SendNACK(n, m) /\ Running
    BY <1>5 DEF QubitSpoiled, ClassicalSpoiled
  <2>2. \A j \in Id : LiveOK(j)
    BY <1>2, <2>1 DEF SendNACK
  <2> QED
    BY <2>1, <2>2, SpoiledLive
<1>6. ASSUME NEW n \in Node, NEW id,
             ReceiveQubit(n, id) \/ ReceiveClassical(n, id) \/ ReceiveNACK(n, id) \/ ReceiveAWK(n, id)
      PROVE  \A j \in Id : LiveOK(j)'
  <2>1. Running
    BY <1>6 DEF ReceiveQubit, ReceiveClassical, ReceiveNACK, ReceiveAWK
  <2>2. UNCHANGED sock
    BY <1>6 DEF ReceiveQubit, ReceiveClassical, ReceiveNACK, ReceiveAWK, Abort
  <2>3. \A j \in Id : LiveOK(j)
    BY <1>2, <2>1, <2>2
  <2> QED
    BY <1>0, <1>6, <2>3, ReceiveQubitLive, ReceiveClassicalLive, ReceiveNACKLive, ReceiveAWKLive
<1>7. ASSUME NEW n \in Node, NEW id, Timer(n, id)
      PROVE  \A j \in Id : LiveOK(j)'
  <2>1. Running
    BY <1>7 DEF Timer, SendClassical, LocalGate, ReleaseQubit
  <2>2. UNCHANGED sock
    BY <1>7 DEF Timer, SendClassical, LocalGate, ReleaseQubit, ReleaseAtSender, Abort
  <2>3. AllBound /\ \A j \in Id : LiveOK(j)
    BY <1>2, <2>1, <2>2
  <2> QED
    BY <1>0, <1>7, <2>3, SendClassicalLive, LocalGateLive, ReleaseQubitLive DEF Timer
<1> QED
  BY <1>1, <1>3, <1>4, <1>5, <1>6, <1>7 DEF Next, Timer

LEMMA InitLive == Init => LiveInv
<1> SUFFICES ASSUME Init, NEW id \in Id PROVE LiveOK(id)
  BY DEF LiveInv
<1>1. id[1] \in Node
  BY DEF Id
<1>2. Tx(id) = {} /\ Evs(id) = {} /\ \A r \in Node : Rx(r, id) = {}
  BY <1>1 DEF Init, Tx, Rx, Evs, At, Matches
<1> QED
  BY <1>2 DEF LiveOK

\* As long as no application is stopped and no packet is lost, every operation
\* that has a qubit, at either end, has a driver that will free it.
THEOREM NoOrphanHolds ==
  ASSUME NoOwnPeer, OneQubit, Lossy = FALSE
  PROVE  Spec => []((\A n \in Node : sock[n] # "closed") => NoOrphan)
<1>1. LiveInv /\ OInv => ((\A n \in Node : sock[n] # "closed") => NoOrphan)
  <2> SUFFICES ASSUME OInv, \A id \in Id : LiveOK(id) PROVE NoOrphan
    BY DEF LiveInv
  <2>1. ASSUME NEW id \in Id, Alive(id)
        PROVE  Drivers(id) # {}
    BY <2>1, AtIs DEF Alive, Drivers, Msgs, Evs, Queued, IsDriver
  <2>2. ASSUME NEW id \in Id, Releasing(id)
        PROVE  SenderRelease(id) # {}
    BY <2>2 DEF Releasing, SenderRelease, Evs, IsDriver
  <2>3. ASSUME NEW n \in Node, NEW i \in DOMAIN tx_qubits[n]
        PROVE  Drivers(tx_qubits[n][i].id) # {} \/ SenderRelease(tx_qubits[n][i].id) # {}
    <3>1. tx_qubits[n][i] \in Item(n)
      BY NodeLists, DomainOfSeq, ElementOfSeq DEF OInv, DInv
    <3>2. PICK id \in Id : id = tx_qubits[n][i].id
      BY <3>1, ItemFields
    <3>3. id[1] = n
      BY <3>2 DEF OInv, SenderOK
    <3>4. Tx(id) # {}
      BY <3>2, <3>3, AtIs DEF Tx
    <3> QED
      BY <2>1, <2>2, <3>2, <3>4 DEF LiveOK
  <2>4. ASSUME NEW n \in Node, NEW i \in DOMAIN rx_qubits[n]
        PROVE  Drivers(rx_qubits[n][i].id) # {}
    <3>1. rx_qubits[n][i] \in Item(n)
      BY NodeLists, DomainOfSeq, ElementOfSeq DEF OInv, DInv
    <3>2. PICK id \in Id : id = rx_qubits[n][i].id
      BY <3>1, ItemFields
    <3>3. Rx(n, id) # {}
      BY <3>2, AtIs DEF Rx
    <3> QED
      BY <2>1, <3>2, <3>3 DEF LiveOK
  <2> QED
    BY <2>3, <2>4 DEF NoOrphan
<1>2. LiveInv /\ OInv /\ OInv' /\ [Next]_vars => LiveInv'
  BY StepLive
<1> QED
  BY <1>1, <1>2, InitLive, OperationsInvariant, PTL DEF Spec

-----------------------------------------------------------------------------
(***************************************************************************)
(* Nothing is left behind: a key of m_data is that of a place in a list,   *)
(* or of an operation that is coming to one; a result is kept for as long  *)
(* as somebody waits for it, or its acknowledgement is on its way; and who *)
(* waits in m_rx_queue waits for a record or for an operation to come.     *)
(***************************************************************************)
\* Packet m asks for the qubit of the sender of operation id, or is the qubit.
Asks(id, m) ==
  \/ m.type = "Qubit"
  \/ m.type = "NACK" /\ m.dst = id[1] /\ Kept(id[1], id) = {}

Asked(id) == \E m \in Msgs(id) : Asks(id, m)

\* The qubit of operation id will come to receiver r.
Coming(r, id) == Asked(id) /\ \A t \in Tx(id) : Peers[id[1]][t.peer] = r

\* Nobody has measured a qubit of the operation.
Unmeasured(id) ==
  \/ Asked(id)
  \/ \E r \in Node : Queued(r, id) # {}
  \/ \E e \in Evs(id) : e.fn = "SendClassical"

SenderKey(id) == id \in data[id[1]] => Has(tx_queue[id[1]], id) \/ Tx(id) # {}

ReceiverKey(id) ==
  \A r \in Node \ {id[1]} :
    id \in data[r] => Rx(r, id) # {} \/ Queued(r, id) # {} \/ Coming(r, id)

NotYetKept(id) == Unmeasured(id) => \A r \in Node : Kept(r, id) = {}

\* The receiver of a telegate keeps its result while it has its qubit, and
\* drops it before it is told to release it.
KeptWaits(id) ==
  \A r \in Node \ {id[1]} : \A s \in Kept(r, id) : s.protocol = "telegate" => Rx(r, id) # {}

Dropped(id) ==
  \A r \in Node : \A e \in Evs(id) :
    e.fn = "ReleaseQubit" /\ IsDriver(e) /\ e.node = r => Kept(r, id) = {}

\* The sender keeps its result until it is acknowledged.
Owed(id) == Kept(id[1], id) # {} => \E m \in Msgs(id) : (m.type = "AWK" => m.dst = id[1])

CleanOK(id) ==
  /\ SenderKey(id) /\ ReceiverKey(id)
  /\ NotYetKept(id) /\ KeptWaits(id) /\ Dropped(id) /\ Owed(id)

AllClean == \A id \in Id : CleanOK(id)

\* A free qubit is not left beside an operation that waits for it.
QueueServed(r) ==
  rx_queue[r] # <<>> => rx_qubits[r] # <<>> \/ \E id \in Id : Coming(r, id)

AllServed == \A r \in Node : QueueServed(r)

KeptOnce == \A r \in Node : Distinct(storage[r])

CleanInv == (\A n \in Node : sock[n] # "closed") => AllClean /\ AllServed /\ KeptOnce

\* Who is coming stays so, or has come.
StillComing ==
  \A r \in Node, id \in Id : Coming(r, id) => Coming(r, id)' \/ rx_qubits'[r] # <<>>

-----------------------------------------------------------------------------
\* An operation that a step leaves alone.
Same(j) ==
  /\ Tx(j)' = Tx(j) /\ Msgs(j)' = Msgs(j) /\ Evs(j)' = Evs(j)
  /\ \A r \in Node : /\ Rx(r, j)' = Rx(r, j) /\ Queued(r, j)' = Queued(r, j)
                     /\ Kept(r, j)' = Kept(r, j)
                     /\ j \in data'[r] => j \in data[r]
  /\ Has(tx_queue[j[1]], j) => Has(tx_queue'[j[1]], j)

LEMMA SameComing ==
  ASSUME NEW j \in Id, Msgs(j)' = Msgs(j), Kept(j[1], j)' = Kept(j[1], j), Tx(j)' = Tx(j)
  PROVE  /\ Asked(j)' <=> Asked(j)
         /\ \A r : Coming(r, j)' <=> Coming(r, j)
<1>1. Asked(j)' <=> Asked(j)
  BY DEF Asked, Asks
<1> QED
  BY <1>1 DEF Coming

LEMMA SameClean ==
  ASSUME NEW j \in Id, CleanOK(j), Same(j)
  PROVE  CleanOK(j)' /\ \A r : Coming(r, j) => Coming(r, j)'
<1>1. j[1] \in Node
  BY DEF Id
<1>2. (Asked(j)' <=> Asked(j)) /\ \A r : Coming(r, j)' <=> Coming(r, j)
  BY <1>1, SameComing DEF Same
<1>3. SenderKey(j)'
  BY <1>1 DEF CleanOK, SenderKey, Same
<1>4. ReceiverKey(j)'
  BY <1>2 DEF CleanOK, ReceiverKey, Same
<1>5. NotYetKept(j)'
  BY <1>2 DEF CleanOK, NotYetKept, Unmeasured, Same
<1>6. KeptWaits(j)'
  BY DEF CleanOK, KeptWaits, Same
<1>7. Dropped(j)'
  BY DEF CleanOK, Dropped, Same, IsDriver
<1>8. Owed(j)'
  BY <1>1 DEF CleanOK, Owed, Same
<1> QED
  BY <1>2, <1>3, <1>4, <1>5, <1>6, <1>7, <1>8 DEF CleanOK

\* The operations that a handler of operation id at node n leaves alone.
LEMMA OthersSame ==
  ASSUME NEW n \in Node, NEW id,
         OnlyAt(n, tx_qubits, tx_qubits'), OnlyAt(n, rx_qubits, rx_qubits'),
         OnlyAt(n, rx_queue, rx_queue'), OnlyAt(n, storage, storage'),
         \A j : j # id => /\ At(tx_qubits'[n], j) = At(tx_qubits[n], j)
                          /\ At(rx_qubits'[n], j) = At(rx_qubits[n], j)
                          /\ At(rx_queue'[n], j) = At(rx_queue[n], j)
                          /\ At(storage'[n], j) = At(storage[n], j),
         \A m \in net : m \in net' \/ m.id = id,
         \A m \in net' : m \in net \/ m.id = id,
         \A e : e.id # id => (e \in events' <=> e \in events),
         \A r \in Node : \A j \in data'[r] : j \in data[r] \/ j = id,
         UNCHANGED tx_queue
  PROVE  \A j \in Id : j # id => Same(j)
<1> SUFFICES ASSUME NEW j \in Id, j # id PROVE Same(j)
  OBVIOUS
<1>1. j[1] \in Node
  BY DEF Id
<1>2. \A r \in Node : /\ At(tx_qubits'[r], j) = At(tx_qubits[r], j)
                      /\ At(rx_qubits'[r], j) = At(rx_qubits[r], j)
                      /\ At(rx_queue'[r], j) = At(rx_queue[r], j)
                      /\ At(storage'[r], j) = At(storage[r], j)
  <2> SUFFICES ASSUME NEW r \in Node
               PROVE  /\ At(tx_qubits'[r], j) = At(tx_qubits[r], j)
                      /\ At(rx_qubits'[r], j) = At(rx_qubits[r], j)
                      /\ At(rx_queue'[r], j) = At(rx_queue[r], j)
                      /\ At(storage'[r], j) = At(storage[r], j)
    OBVIOUS
  <2>1. CASE r = n
    BY <2>1
  <2>2. CASE r # n
    BY <2>2 DEF OnlyAt
  <2> QED
    BY <2>1, <2>2
<1>3. Tx(j)' = Tx(j)
  BY <1>1, <1>2, ViewsNext DEF Tx
<1>4. \A r \in Node : /\ Rx(r, j)' = Rx(r, j) /\ Queued(r, j)' = Queued(r, j)
                      /\ Kept(r, j)' = Kept(r, j)
  BY <1>2, ViewsNext DEF Rx, Queued, Kept
<1>5. Evs(j)' = Evs(j) /\ Msgs(j)' = Msgs(j)
  <2>1. Evs(j)' = {e \in events' : e.id = j} /\ Msgs(j)' = {m \in net' : m.id = j}
    BY ViewsNext
  <2> QED
    BY <2>1 DEF Evs, Msgs
<1> QED
  BY <1>1, <1>3, <1>4, <1>5 DEF Same

\* A packet is answered with a packet of the same operation, which asks for
\* the qubit if that one did.
LEMMA SwapClean ==
  ASSUME AllClean, OInv, NEW m \in net, NEW packet, NEW id, id = m.id,
         m.type # "AWK", packet.id = id, packet.type # "AWK", Asks(id, packet) <=> Asks(id, m),
         net' = (net \ {m}) \cup {packet}, UNCHANGED <<held, events>>,
         \A r \in Node : \A j \in data'[r] :
           \/ j \in data[r]
           \/ /\ j = id
              /\ r = id[1] => Tx(id) # {}
              /\ r # id[1] => Rx(r, id) # {} \/ Coming(r, id)
  PROVE  (\A j \in Id : CleanOK(j)') /\ StillComing
<1>1. id \in Id /\ id[1] \in Node /\ CleanOK(id)
  BY ArrivedId DEF OInv, DInv, AllClean, Id
<1>2. UNCHANGED <<tx_queue, tx_qubits, rx_queue, rx_qubits, storage>>
  BY DEF held
<1>3. \A j \in Id : j # id => Same(j)
  <2> SUFFICES ASSUME NEW j \in Id, j # id PROVE Same(j)
    OBVIOUS
  <2>1. /\ Tx(j)' = Tx(j) /\ Evs(j)' = Evs(j)
        /\ \A r \in Node : /\ Rx(r, j)' = Rx(r, j) /\ Queued(r, j)' = Queued(r, j)
                           /\ Kept(r, j)' = Kept(r, j)
    BY <1>2, ViewsNext DEF Tx, Evs, Rx, Queued, Kept
  <2>2. Msgs(j)' = Msgs(j)
    <3>1. Msgs(j)' = {p \in net' : p.id = j}
      BY ViewsNext
    <3> QED
      BY <3>1 DEF Msgs
  <2> QED
    BY <1>2, <2>1, <2>2 DEF Same
<1>4. /\ Tx(id)' = Tx(id) /\ Evs(id)' = Evs(id)
      /\ \A r \in Node : /\ Rx(r, id)' = Rx(r, id) /\ Queued(r, id)' = Queued(r, id)
                         /\ Kept(r, id)' = Kept(r, id)
  BY <1>2, ViewsNext DEF Tx, Evs, Rx, Queued, Kept
<1>5. Msgs(id) = {m} /\ Msgs(id)' = {packet}
  <2>1. Msgs(id) = {m}
    BY AlonePacket
  <2>2. Msgs(id)' = {p \in net' : p.id = id}
    BY ViewsNext
  <2> QED
    BY <2>1, <2>2 DEF Msgs
<1>6. (Asked(id) <=> Asks(id, m)) /\ (Asks(id, packet)' <=> Asks(id, packet))
  BY <1>1, <1>4, <1>5 DEF Asked, Asks
<1>7. Asked(id)' <=> Asked(id)
  <2>1. Asked(id)' <=> Asks(id, packet)'
    BY <1>5 DEF Asked
  <2> QED
    BY <1>6, <2>1
<1>8. \A r : Coming(r, id)' <=> Coming(r, id)
  BY <1>4, <1>7 DEF Coming
<1>9. CleanOK(id)'
  <2>1. SenderKey(id)'
    BY <1>1, <1>2, <1>4 DEF CleanOK, SenderKey
  <2>2. ReceiverKey(id)'
    BY <1>1, <1>4, <1>8 DEF CleanOK, ReceiverKey
  <2>3. NotYetKept(id)'
    BY <1>1, <1>4, <1>7 DEF CleanOK, NotYetKept, Unmeasured
  <2>4. KeptWaits(id)' /\ Dropped(id)'
    BY <1>1, <1>4 DEF CleanOK, KeptWaits, Dropped, IsDriver
  <2>5. Owed(id)'
    BY <1>5 DEF Owed
  <2> QED
    BY <2>1, <2>2, <2>3, <2>4, <2>5 DEF CleanOK
<1>10. \A j \in Id : CleanOK(j)' /\ \A r : Coming(r, j) => Coming(r, j)'
  BY <1>3, <1>8, <1>9, SameClean DEF AllClean
<1> QED
  BY <1>10 DEF StillComing

\* ReleaseClassic takes the only result of the operation.
LEMMA DroppedClassic ==
  ASSUME NEW S, NEW seq \in Seq(S), NEW id, Distinct(seq)
  PROVE  /\ At(WithoutClassic(seq, id), id) = {} /\ Distinct(WithoutClassic(seq, id))
         /\ \A j : j # id => At(WithoutClassic(seq, id), j) = At(seq, j)
<1>1. CASE Has(seq, id)
  <2>1. PICK k \in 1..Len(seq) : k = Slot(seq, id) /\ seq[k].id = id
    BY <1>1, SlotAt
  <2>2. WithoutClassic(seq, id) = RemoveAt(seq, k)
    BY <1>1, <2>1 DEF WithoutClassic
  <2>3. At(RemoveAt(seq, k), id) = {} /\ Distinct(RemoveAt(seq, k))
    BY <2>1, AtRemove
  <2> QED
    BY <2>2, <2>3, AtWithoutClassic
<1>2. CASE ~Has(seq, id)
  <2>1. WithoutClassic(seq, id) = seq
    BY <1>2 DEF WithoutClassic
  <2> QED
    BY <1>2, <2>1, AtIs
<1> QED
  BY <1>1, <1>2

LEMMA SpoiledClean ==
  ASSUME OneQubit, AllClean, OInv, NEW n \in Node, NEW m \in net, m.dst = n,
         m.type \in {"Qubit", "Classical"}, SendNACK(n, m)
  PROVE  (\A j \in Id : CleanOK(j)') /\ StillComing
<1>1. PICK id \in Id : id = m.id
  BY ArrivedId DEF OInv, DInv
<1>2. PICK nack : nack = NACKFor(n, PeerIndex(n, m.src), m.id, m.protocol)
  OBVIOUS
<1>3. nack.id = id /\ nack.type = "NACK" /\ nack.dst = m.src
  <2>1. m \in PeerMessage
    BY ArrivedId DEF OInv, DInv
  <2>2. \E i \in DOMAIN Peers[n] : Peers[n][i] = m.src
    BY <2>1 DEF PeerMessage
  <2>3. Peers[n][PeerIndex(n, m.src)] = m.src
    BY <2>2 DEF PeerIndex
  <2> QED
    BY <1>1, <1>2, <2>3 DEF NACKFor, Packet
<1>4. net' = (net \ {m}) \cup {nack} /\ UNCHANGED <<held, events>>
  BY <1>2 DEF SendNACK
<1>5. \A r \in Node : \A j \in data'[r] : j \in data[r] \/ (j = id /\ r = n)
  BY <1>1 DEF SendNACK, OInv, DInv, IInv, RestOK
<1>6. Msgs(id) = {m} /\ MessageOK(id, m) /\ id[1] \in Node
  BY <1>1, AlonePacket, OpFacts DEF DrivenOK
<1>7. /\ Asks(id, nack) <=> Asks(id, m)
      /\ n = id[1] => Tx(id) # {}
      /\ n # id[1] => Rx(n, id) # {} \/ Coming(n, id)
  <2>1. CASE m.type = "Qubit"
    <3>1. QubitOK(id, m)
      BY <1>6, <2>1 DEF MessageOK
    <3>2. Asks(id, m) /\ Asks(id, nack)
      BY <1>3, <2>1, <3>1 DEF Asks, QubitOK, Holding, Open
    <3>3. Coming(n, id)
      BY <1>6, <3>1, <3>2 DEF Coming, Asked, QubitOK, Agreed
    <3> QED
      BY <3>1, <3>2, <3>3 DEF QubitOK
  <2>2. CASE m.type = "Classical" /\ n = id[1]
    <3>1. MeasuredOK(id, m.src, m.protocol)
      BY <1>6, <2>2 DEF MessageOK
    <3> QED
      BY <1>3, <2>2, <3>1 DEF MeasuredOK, Asks, Holding, Open
  <2>3. CASE m.type = "Classical" /\ n # id[1]
    <3>1. ResultOK(id, m)
      BY <1>6, <2>3 DEF MessageOK
    <3> QED
      BY <1>3, <2>3, <3>1 DEF ResultOK, Asks
  <2> QED
    BY <2>1, <2>2, <2>3
<1> QED
  BY <1>1, <1>3, <1>4, <1>5, <1>7, SwapClean

LEMMA ReceiveNACKClean ==
  ASSUME AllClean, OInv, NEW n \in Node, NEW id, ReceiveNACK(n, id), failed' = "none"
  PROVE  (\A j \in Id : CleanOK(j)') /\ StillComing
<1> DEFINE stored == Has(storage[n], id)
           it == storage[n][LastSlot(storage[n], id)]
           qubit == tx_qubits[n][Slot(tx_qubits[n], id)]
           again == IF stored
                    THEN Packet("Classical", n, it.peer, id, it.protocol, it.x, it.z)
                    ELSE QubitOf(n, qubit)
<1>1. PICK m \in net : /\ Arrives(m, "NACK", n, id) /\ (stored \/ Has(tx_qubits[n], id))
                       /\ net' = (net \ {m}) \cup {again}
                       /\ UNCHANGED <<held, data, events>>
  BY DEF ReceiveNACK, Abort
<1>2. m.type = "NACK" /\ m.dst = n /\ m.id = id /\ id \in Id
  BY <1>1, ArrivedId DEF Arrives, OInv, DInv
<1>3. PICK packet : packet = again
  OBVIOUS
<1>4. packet.id = id /\ packet.type = IF stored THEN "Classical" ELSE "Qubit"
  <2>1. CASE stored
    BY <1>3, <2>1 DEF Packet
  <2>2. CASE ~stored
    <3>1. qubit.id = id
      BY <1>1, <2>2, SlotAt, NodeLists DEF OInv, DInv
    <3> QED
      BY <1>3, <2>2, <3>1 DEF Packet, QubitOf
  <2> QED
    BY <2>1, <2>2
<1>5. net' = (net \ {m}) \cup {packet} /\ UNCHANGED <<held, data, events>>
  BY <1>1, <1>3
<1>6. Msgs(id) = {m} /\ MessageOK(id, m) /\ (stored <=> Kept(n, id) # {})
  BY <1>2, AlonePacket, OpFacts, AtIs DEF DrivenOK, Kept
<1> HIDE DEF again, stored
<1>7. Asks(id, packet) <=> Asks(id, m)
  <2>1. CASE n = id[1]
    BY <1>2, <1>4, <1>6, <2>1 DEF Asks
  <2>2. CASE n # id[1]
    <3>1. Kept(n, id) # {}
      BY <1>2, <1>6, <2>2 DEF MessageOK, MeasuredOK
    <3> QED
      BY <1>2, <1>4, <1>6, <2>2, <3>1 DEF Asks
  <2> QED
    BY <2>1, <2>2
<1>8. \A r \in Node : \A j \in data'[r] : j \in data[r]
  BY <1>5
<1>9. packet.type # "AWK" /\ UNCHANGED <<held, events>>
  BY <1>4, <1>5
<1> QED
  BY <1>2, <1>4, <1>5, <1>7, <1>8, <1>9, SwapClean

\* An acknowledgement takes the result it is for; a teledata one finds none at
\* the sender.
LEMMA ReceiveAWKClean ==
  ASSUME AllClean, KeptOnce, OInv, NEW n \in Node, NEW id, ReceiveAWK(n, id)
  PROVE  (\A j \in Id : CleanOK(j)') /\ StillComing /\ KeptOnce'
<1>1. PICK m \in net :
        /\ Arrives(m, "AWK", n, id)
        /\ net' = net \ {m}
        /\ storage' = [storage EXCEPT ![n] = WithoutClassic(storage[n], id)]
        /\ UNCHANGED <<tx_queue, tx_qubits, rx_queue, rx_qubits, data, events>>
  BY DEF ReceiveAWK
<1>2. m.type = "AWK" /\ m.dst = n /\ m.id = id /\ id \in Id
  BY <1>1, ArrivedId DEF Arrives, OInv, DInv
<1>3. storage[n] \in Seq(Item(n)) /\ DOMAIN storage = Node
  BY NodeLists DEF OInv, DInv
<1>4. OnlyAt(n, storage, storage') /\ storage'[n] = WithoutClassic(storage[n], id)
  BY <1>1, <1>3, OnlyAtExcept
<1>5. /\ At(storage'[n], id) = {} /\ Distinct(storage'[n])
      /\ \A j : j # id => At(storage'[n], j) = At(storage[n], j)
  BY <1>3, <1>4, DroppedClassic DEF KeptOnce
<1>6. KeptOnce'
  BY <1>4, <1>5 DEF KeptOnce, OnlyAt
<1>7. AwkOK(id, m) /\ id[1] \in Node /\ CleanOK(id) /\ Msgs(id) = {m}
  BY <1>2, OpFacts DEF DrivenOK, MessageOK, Msgs, AllClean, AwkOK
<1>8. /\ Tx(id)' = Tx(id) /\ Evs(id)' = Evs(id) /\ Msgs(id)' = {}
      /\ \A r \in Node : /\ Rx(r, id)' = Rx(r, id) /\ Queued(r, id)' = Queued(r, id)
                         /\ Kept(r, id)' = IF r = n THEN {} ELSE Kept(r, id)
  <2>1. Msgs(id)' = {p \in net' : p.id = id}
    BY ViewsNext
  <2>2. Msgs(id)' = {}
    BY <1>1, <1>7, <2>1 DEF Msgs
  <2>3. \A r \in Node : r # n => Kept(r, id)' = Kept(r, id)
    BY <1>4, ViewsNext DEF Kept, OnlyAt
  <2> QED
    BY <1>1, <1>5, <2>2, <2>3, ViewsNext DEF Tx, Evs, Rx, Queued
<1>9. ~Asked(id) /\ ~Asked(id)' /\ \A r : ~Coming(r, id)
  BY <1>2, <1>7, <1>8 DEF Asked, Asks, Coming
<1>10. CleanOK(id)'
  <2>1. SenderKey(id)'
    BY <1>1, <1>7, <1>8 DEF CleanOK, SenderKey
  <2>2. ReceiverKey(id)'
    BY <1>1, <1>7, <1>8, <1>9 DEF CleanOK, ReceiverKey
  <2>3. NotYetKept(id)'
    BY <1>7, <1>8, <1>9 DEF CleanOK, NotYetKept, Unmeasured
  <2>4. KeptWaits(id)' /\ Dropped(id)'
    BY <1>7, <1>8 DEF CleanOK, KeptWaits, Dropped, IsDriver
  <2>5. Kept(id[1], id)' = {}
    BY <1>2, <1>7, <1>8 DEF CleanOK, Owed
  <2> QED
    BY <2>1, <2>2, <2>3, <2>4, <2>5 DEF CleanOK, Owed
<1>11. \A j \in Id : j # id => Same(j)
  <2>1. /\ OnlyAt(n, tx_qubits, tx_qubits') /\ OnlyAt(n, rx_qubits, rx_qubits')
        /\ OnlyAt(n, rx_queue, rx_queue')
    BY <1>1 DEF OnlyAt
  <2> QED
    BY <1>1, <1>2, <1>4, <1>5, <2>1, OthersSame
<1>12. \A j \in Id : CleanOK(j)' /\ \A r : Coming(r, j) => Coming(r, j)'
  BY <1>9, <1>10, <1>11, SameClean DEF AllClean
<1> QED
  BY <1>6, <1>12 DEF StillComing

\* An operation of which no result is kept.
LEMMA NothingKept ==
  ASSUME NEW id, id[1] \in Node, \A r \in Node : Kept(r, id)' = {}, SenderKey(id)', ReceiverKey(id)'
  PROVE  CleanOK(id)'
BY DEF CleanOK, NotYetKept, KeptWaits, Dropped, Owed

\* A qubit arrives where somebody waits for it, and takes a place or waits.
LEMMA ReceiveQubitClean ==
  ASSUME OneQubit, NumQubits = 1, OInv, AllClean, AllServed, NEW n \in Node, NEW id,
         ReceiveQubit(n, id), failed' = "none"
  PROVE  (\A j \in Id : CleanOK(j)') /\ AllServed'
<1> DEFINE known == Has(rx_qubits[n], id)
           room == Room(n)
           Event0 == [fn |-> "SendClassical", node |-> n, id |-> id, sender |-> FALSE]
           Item0(m) == [id |-> id, peer |-> PeerIndex(n, m.src), protocol |-> m.protocol,
                        has_qubit |-> ~known /\ room, operating |-> ~known /\ room,
                        x |-> FALSE, z |-> FALSE]
<1>1. PICK m \in net :
        /\ Arrives(m, "Qubit", n, id)
        /\ ~known =>
             /\ rx_qubits' = [rx_qubits EXCEPT ![n] =
                                IF room THEN Append(rx_qubits[n], Item0(m)) ELSE rx_qubits[n]]
             /\ rx_queue' = [rx_queue EXCEPT ![n] =
                               IF room THEN rx_queue[n] ELSE Append(rx_queue[n], Item0(m))]
             /\ events' = events \cup (IF room THEN {Event0} ELSE {})
             /\ data' = [data EXCEPT ![n] = data[n] \cup {id}]
        /\ net' = net \ {m}
        /\ UNCHANGED <<tx_queue, tx_qubits, storage>>
  BY DEF ReceiveQubit, Abort
<1>2. m.type = "Qubit" /\ m.dst = n /\ m.id = id /\ id \in Id
  BY <1>1, ArrivedId DEF Arrives, OInv, DInv
<1>3. /\ Msgs(id) = {m} /\ \A e \in Evs(id) : ~IsDriver(e)
      /\ \A r \in Node : Queued(r, id) = {}
  BY <1>2, AlonePacket
<1>4. QubitOK(id, m) /\ id[1] \in Node /\ NoRx(id) /\ CleanOK(id)
  BY <1>2, <1>3, OpFacts DEF DrivenOK, MessageOK, QubitOK, AllClean
<1>5. rx_qubits[n] \in Seq(Item(n)) /\ rx_queue[n] \in Seq(Item(n))
      /\ n \in DOMAIN rx_qubits /\ n \in DOMAIN rx_queue /\ DOMAIN data = Node
  BY NodeLists DEF OInv, DInv, IInv, RestOK
<1>6. ~known /\ At(rx_qubits[n], id) = {}
  BY <1>4, AtIs DEF Rx, NoRx
<1>7. PICK item, ev : item = Item0(m) /\ ev = Event0
  OBVIOUS
<1>8. item \in Item(n) /\ item.id = id
  <2>1. m \in PeerMessage
    BY ArrivedId DEF OInv, DInv
  <2>2. \E i \in DOMAIN Peers[n] : Peers[n][i] = m.src
    BY <1>2, <2>1 DEF PeerMessage
  <2>3. PeerIndex(n, m.src) \in DOMAIN Peers[n]
    BY <2>2 DEF PeerIndex
  <2>4. m.protocol \in Protocols
    BY <2>1, MessageFields
  <2>5. (~known /\ room) \in BOOLEAN
    OBVIOUS
  <2> QED
    BY <1>2, <1>7, <2>3, <2>4, <2>5 DEF Item
<1>9. ev.id = id
  BY <1>7
<1>10. /\ OnlyAt(n, rx_qubits, rx_qubits') /\ OnlyAt(n, rx_queue, rx_queue')
       /\ rx_qubits'[n] = IF room THEN Append(rx_qubits[n], item) ELSE rx_qubits[n]
       /\ rx_queue'[n] = IF room THEN rx_queue[n] ELSE Append(rx_queue[n], item)
       /\ events' = events \cup (IF room THEN {ev} ELSE {})
       /\ OnlyAt(n, data, data') /\ data'[n] = data[n] \cup {id}
       /\ net' = net \ {m} /\ UNCHANGED <<tx_queue, tx_qubits, storage>>
  <2>1. /\ rx_qubits' = [rx_qubits EXCEPT ![n] =
                            IF room THEN Append(rx_qubits[n], item) ELSE rx_qubits[n]]
        /\ rx_queue' = [rx_queue EXCEPT ![n] =
                           IF room THEN rx_queue[n] ELSE Append(rx_queue[n], item)]
        /\ events' = events \cup (IF room THEN {ev} ELSE {})
        /\ data' = [data EXCEPT ![n] = data[n] \cup {id}]
        /\ net' = net \ {m} /\ UNCHANGED <<tx_queue, tx_qubits, storage>>
    BY <1>1, <1>6, <1>7
  <2> HIDE DEF known, room, Event0, Item0
  <2> QED
    BY <1>5, <2>1, OnlyAtExcept
<1>a. rx_qubits'[n] # <<>>
  <2>1. CASE room
    BY <1>5, <1>8, <1>10, <2>1
  <2>2. CASE ~room
    <3>1. Len(rx_qubits[n]) # 0
      BY <1>5, <2>2, LenProperties DEF Room
    <3> QED
      BY <1>10, <2>2, <3>1
  <2> QED
    BY <2>1, <2>2
<1> HIDE DEF known, room, Event0, Item0
<1>11. \A j : /\ At(rx_qubits'[n], j) = IF room /\ j = id THEN At(rx_qubits[n], j) \cup {item}
                                        ELSE At(rx_qubits[n], j)
              /\ At(rx_queue'[n], j) = IF ~room /\ j = id THEN At(rx_queue[n], j) \cup {item}
                                       ELSE At(rx_queue[n], j)
  <2>1. \A j : At(Append(rx_qubits[n], item), j)
                 = IF item.id = j THEN At(rx_qubits[n], j) \cup {item} ELSE At(rx_qubits[n], j)
    BY <1>5, <1>8, AtAppend
  <2>2. \A j : At(Append(rx_queue[n], item), j)
                 = IF item.id = j THEN At(rx_queue[n], j) \cup {item} ELSE At(rx_queue[n], j)
    BY <1>5, <1>8, AtAppend
  <2> QED
    BY <1>8, <1>10, <2>1, <2>2
<1>12. \A j \in Id : j # id => Same(j)
  <2>1. /\ \A p \in net : p \in net' \/ p.id = id
        /\ \A p \in net' : p \in net \/ p.id = id
    BY <1>2, <1>10
  <2>2. \A e : e.id # id => (e \in events' <=> e \in events)
    BY <1>9, <1>10
  <2>3. OnlyAt(n, tx_qubits, tx_qubits') /\ OnlyAt(n, storage, storage')
    BY <1>10 DEF OnlyAt
  <2>4. \A j : j # id => /\ At(tx_qubits'[n], j) = At(tx_qubits[n], j)
                         /\ At(rx_qubits'[n], j) = At(rx_qubits[n], j)
                         /\ At(rx_queue'[n], j) = At(rx_queue[n], j)
                         /\ At(storage'[n], j) = At(storage[n], j)
    BY <1>10, <1>11
  <2>5. \A r \in Node : \A j \in data'[r] : j \in data[r] \/ j = id
    BY <1>10 DEF OnlyAt
  <2> QED
    BY <1>10, <2>1, <2>2, <2>3, <2>4, <2>5, OthersSame
<1>13. \A j \in Id : j # id => CleanOK(j)' /\ \A r : Coming(r, j) => Coming(r, j)'
  BY <1>12, SameClean DEF AllClean
<1>14. Tx(id)' = Tx(id) /\ \A r \in Node : Kept(r, id)' = Kept(r, id)
  BY <1>10, ViewsNext DEF Tx, Kept
<1>15. Rx(n, id)' # {} \/ Queued(n, id)' # {}
  <2>1. Rx(n, id)' = At(rx_qubits'[n], id) /\ Queued(n, id)' = At(rx_queue'[n], id)
    BY ViewsNext
  <2> QED
    BY <1>11, <2>1
<1>16. Asked(id) /\ \A r : Coming(r, id) => r = n
  <2>1. Asked(id)
    BY <1>2, <1>3 DEF Asked, Asks
  <2>2. Tx(id) # {} /\ \A t \in Tx(id) : Peers[id[1]][t.peer] = n
    BY <1>2, <1>4 DEF QubitOK, Holding, Open, Agreed
  <2> QED
    BY <2>1, <2>2 DEF Coming
<1>17. CleanOK(id)'
  <2>1. \A r \in Node : Kept(r, id)' = {}
    BY <1>4, <1>14, <1>16 DEF CleanOK, NotYetKept, Unmeasured
  <2>2. SenderKey(id)'
    <3>1. n # id[1] /\ data'[id[1]] = data[id[1]]
      BY <1>2, <1>4, <1>10 DEF QubitOK, OnlyAt
    <3> QED
      BY <1>4, <1>10, <1>14, <3>1 DEF CleanOK, SenderKey
  <2>3. ASSUME NEW r \in Node \ {id[1]}, id \in data'[r]
        PROVE  r = n
    <3>1. CASE r # n
      <4>1. id \in data[r]
        BY <1>10, <2>3, <3>1 DEF OnlyAt
      <4> QED
        BY <1>3, <1>4, <1>16, <4>1 DEF CleanOK, ReceiverKey, NoRx
    <3> QED
      BY <3>1
  <2>4. ReceiverKey(id)'
    BY <1>15, <2>3 DEF ReceiverKey
  <2> QED
    BY <1>4, <2>1, <2>2, <2>4, NothingKept
<1>18. AllServed'
  <2> SUFFICES ASSUME NEW r \in Node, rx_queue'[r] # <<>>, rx_qubits'[r] = <<>>
               PROVE  \E j \in Id : Coming(r, j)'
    BY DEF AllServed, QueueServed
  <2>1. r # n
    BY <1>a
  <2>2. rx_queue[r] # <<>> /\ rx_qubits[r] = <<>>
    BY <1>10, <2>1 DEF OnlyAt
  <2>3. PICK j \in Id : Coming(r, j)
    BY <2>2 DEF AllServed, QueueServed
  <2>4. j # id
    BY <1>16, <2>1, <2>3
  <2> QED
    BY <1>13, <2>3, <2>4
<1> QED
  BY <1>13, <1>17, <1>18

\* What ReceiveClassical does to the stored results.
LEMMA ClassicalStorage ==
  ASSUME OneQubit, KeptOnce, OInv, NEW n \in Node, NEW id, ReceiveClassical(n, id), failed' = "none"
  PROVE  /\ KeptOnce'
         /\ Has(rx_qubits[n], id) => At(storage'[n], id) = {}
<1>1. PICK m \in net :
        storage' = [storage EXCEPT ![n] =
                      IF ~Has(rx_qubits[n], id) /\ Has(tx_qubits[n], id) /\ m.protocol = "telegate"
                      THEN storage[n] ELSE WithoutClassic(storage[n], id)]
  BY DEF ReceiveClassical, Abort
<1>2. storage[n] \in Seq(Item(n)) /\ n \in DOMAIN storage
  BY NodeLists DEF OInv, DInv
<1>3. /\ OnlyAt(n, storage, storage')
      /\ storage'[n] = IF ~Has(rx_qubits[n], id) /\ Has(tx_qubits[n], id) /\ m.protocol = "telegate"
                       THEN storage[n] ELSE WithoutClassic(storage[n], id)
  BY <1>1, <1>2, OnlyAtExcept
<1>4. Distinct(storage[n])
  BY DEF KeptOnce
<1>5. /\ At(WithoutClassic(storage[n], id), id) = {}
      /\ Distinct(WithoutClassic(storage[n], id))
  BY <1>2, <1>4, DroppedClassic
<1> QED
  BY <1>3, <1>4, <1>5 DEF KeptOnce, OnlyAt

\* The result that corrects a qubit is answered by an acknowledgement, which
\* the receiver of a telegate sends to its sender.
LEMMA ReceiveClassicalClean ==
  ASSUME OneQubit, AllClean, KeptOnce, OInv, NEW n \in Node, NEW id, ReceiveClassical(n, id),
         failed' = "none"
  PROVE  (\A j \in Id : CleanOK(j)') /\ StillComing /\ KeptOnce'
<1>0. KeptOnce' /\ (Has(rx_qubits[n], id) => At(storage'[n], id) = {})
  BY ClassicalStorage
<1>1. PICK m \in net : \E k, it, ev, awk : \/ AtSenderStep(n, id, m, k, it, ev, awk)
                                           \/ AtReceiverStep(n, id, m, k, it, ev, awk)
  BY ClassicalSteps DEF Abort, Functions
<1>2. PICK k, it, ev, awk : \/ AtSenderStep(n, id, m, k, it, ev, awk)
                            \/ AtReceiverStep(n, id, m, k, it, ev, awk)
  BY <1>1
<1>3. id \in Id
  BY ClassicalSteps DEF Abort
<1>4. /\ m.type = "Classical" /\ m.dst = n /\ m.id = id
      /\ ev.id = id /\ awk.id = id /\ it.id = id /\ awk.type = "AWK"
      /\ events' = events \cup {ev} /\ net' \subseteq (net \ {m}) \cup {awk}
      /\ \A p \in net : p \in net' \/ p = m
      /\ OnlyAt(n, storage, storage') /\ At(storage'[n], id) \subseteq At(storage[n], id)
      /\ \A j : j # id => At(storage'[n], j) = At(storage[n], j)
      /\ UNCHANGED <<tx_queue, rx_queue, data>>
  BY <1>2 DEF AtSenderStep, AtReceiverStep
<1>5. /\ Msgs(id) = {m} /\ \A e \in Evs(id) : ~IsDriver(e)
      /\ \A r \in Node : Queued(r, id) = {}
  BY <1>4, AlonePacket
<1>6. MessageOK(id, m) /\ id[1] \in Node /\ CleanOK(id) /\ PlacesOK(id)
  BY <1>3, <1>5, OpFacts DEF DrivenOK, AllClean
<1>7. /\ Evs(id)' = Evs(id) \cup {ev} /\ Msgs(id)' \subseteq {awk}
      /\ \A r \in Node : Queued(r, id)' = {} /\ (r # n => Kept(r, id)' = Kept(r, id))
  <2>1. Evs(id)' = {e \in events' : e.id = id} /\ Msgs(id)' = {p \in net' : p.id = id}
    BY ViewsNext
  <2>2. \A p \in net : p.id = id => p = m
    BY <1>5 DEF Msgs
  <2> QED
    BY <1>4, <1>5, <2>1, <2>2, ViewsNext DEF Evs, Kept, OnlyAt, Queued
<1>8. ~Asked(id) /\ ~Unmeasured(id)' /\ \A r : ~Coming(r, id)
  <2>1. ev.fn # "SendClassical"
    BY <1>2 DEF AtSenderStep, AtReceiverStep
  <2>2. ~Asked(id) /\ ~Asked(id)'
    BY <1>4, <1>5, <1>7 DEF Asked, Asks
  <2> QED
    BY <1>5, <1>7, <2>1, <2>2 DEF Unmeasured, IsDriver, Coming
<1>9. ASSUME \A j \in Id : j # id => Same(j), CleanOK(id)'
      PROVE  (\A j \in Id : CleanOK(j)') /\ StillComing
  <2>1. \A j \in Id : CleanOK(j)' /\ \A r : Coming(r, j) => Coming(r, j)'
    BY <1>8, <1>9, SameClean DEF AllClean
  <2> QED
    BY <2>1 DEF StillComing
<1>10. /\ \A p \in net : p \in net' \/ p.id = id
       /\ \A p \in net' : p \in net \/ p.id = id
       /\ \A e : e.id # id => (e \in events' <=> e \in events)
       /\ \A r \in Node : \A j \in data'[r] : j \in data[r] \/ j = id
       /\ OnlyAt(n, rx_queue, rx_queue') /\ rx_queue'[n] = rx_queue[n]
  BY <1>4 DEF OnlyAt
<1>11. CASE AtSenderStep(n, id, m, k, it, ev, awk)
  <2>1. /\ id[1] = n /\ ev.sender = TRUE
        /\ ev.fn = IF m.protocol = "telegate" THEN "LocalGate" ELSE "ReleaseQubit"
        /\ TxUpdate(n, k, it) /\ SameLists(rx_qubits, rx_qubits')
    BY <1>11 DEF AtSenderStep
  <2>2. Kept(n, id)' = {}
    <3>1. MeasuredOK(id, m.src, m.protocol)
      BY <1>4, <1>6, <2>1 DEF MessageOK
    <3>2. Kept(n, id) = {} /\ Kept(n, id)' \subseteq Kept(n, id)
      BY <1>4, <2>1, <3>1, ViewsNext DEF MeasuredOK, Holding, Open, Kept
    <3> QED
      BY <3>2
  <2>3. \A r \in Node : Rx(r, id)' = Rx(r, id)
    BY <2>1, ViewsNext DEF Rx, SameLists
  <2>4. /\ OnlyAt(n, tx_qubits, tx_qubits') /\ Tx(id)' = {it}
        /\ \A j : j # id => At(tx_qubits'[n], j) = At(tx_qubits[n], j)
    <3>1. /\ OnlyAt(n, tx_qubits, tx_qubits') /\ (it.id[1] = n => Tx(it.id)' = {it})
          /\ \A j : j # it.id => At(tx_qubits'[n], j) = At(tx_qubits[n], j)
      BY <2>1, TxChanged
    <3> QED
      BY <1>4, <2>1, <3>1
  <2>5. ~(ev.fn = "ReleaseQubit" /\ IsDriver(ev))
    BY <2>1 DEF IsDriver
  <2>6. CleanOK(id)'
    <3>1. SenderKey(id)'
      BY <2>4 DEF SenderKey
    <3>2. ReceiverKey(id)'
      BY <1>4, <1>5, <1>6, <1>8, <2>3 DEF CleanOK, ReceiverKey
    <3>3. NotYetKept(id)'
      BY <1>8 DEF NotYetKept
    <3>4. KeptWaits(id)'
      BY <1>6, <1>7, <2>1, <2>3 DEF CleanOK, KeptWaits
    <3>5. Dropped(id)'
      BY <1>5, <1>7, <2>5 DEF Dropped, IsDriver
    <3>6. Owed(id)'
      BY <2>1, <2>2 DEF Owed
    <3> QED
      BY <3>1, <3>2, <3>3, <3>4, <3>5, <3>6 DEF CleanOK
  <2>7. \A j \in Id : j # id => Same(j)
    <3>1. OnlyAt(n, rx_qubits, rx_qubits')
      BY <2>1 DEF OnlyAt, SameLists
    <3>2. \A j : j # id => /\ At(tx_qubits'[n], j) = At(tx_qubits[n], j)
                           /\ At(rx_qubits'[n], j) = At(rx_qubits[n], j)
                           /\ At(rx_queue'[n], j) = At(rx_queue[n], j)
                           /\ At(storage'[n], j) = At(storage[n], j)
      BY <1>4, <1>10, <2>1, <2>4 DEF SameLists
    <3> QED
      BY <1>4, <1>10, <2>4, <3>1, <3>2, OthersSame
  <2> QED
    BY <1>0, <1>9, <2>6, <2>7
<1>12. CASE AtReceiverStep(n, id, m, k, it, ev, awk)
  <2>1. /\ id[1] # n /\ ev.node = n /\ ev.fn = "ReleaseQubit" /\ awk.dst = Peers[n][it.peer]
        /\ RxUpdate(n, k, it) /\ SameLists(tx_qubits, tx_qubits')
        /\ it.peer = rx_qubits[n][k].peer
    BY <1>12 DEF AtReceiverStep, RxUpdate
  <2>2. ResultOK(id, m)
    BY <1>4, <1>6, <2>1 DEF MessageOK
  <2>3. Kept(n, id)' = {}
    <3>1. Has(rx_qubits[n], id)
      BY <1>4, <2>2, AtIs DEF ResultOK, Rx
    <3> QED
      BY <1>0, <3>1, ViewsNext
  <2>4. Tx(id)' = Tx(id)
    BY <1>6, <2>1, ViewsNext DEF Tx, SameLists
  <2>5. /\ OnlyAt(n, rx_qubits, rx_qubits') /\ rx_qubits[n][k] \in Rx(n, id)
        /\ \A j : j # id => At(rx_qubits'[n], j) = At(rx_qubits[n], j)
        /\ \A r \in Node : Rx(r, id) # {} => Rx(r, id)' # {}
    <3>1. /\ OnlyAt(n, rx_qubits, rx_qubits') /\ rx_qubits[n][k] \in Rx(n, it.id)
          /\ \A j : j # it.id => At(rx_qubits'[n], j) = At(rx_qubits[n], j)
          /\ \A r \in Node : Rx(r, it.id) # {} => Rx(r, it.id)' # {}
      BY <2>1, RxChanged
    <3> QED
      BY <1>4, <3>1
  <2>6. awk.dst = id[1]
    BY <1>6, <2>1, <2>5 DEF PlacesOK, RecordOK
  <2>7. CleanOK(id)'
    <3>1. SenderKey(id)'
      BY <1>4, <1>6, <2>4 DEF CleanOK, SenderKey
    <3>2. ReceiverKey(id)'
      BY <1>4, <1>5, <1>6, <1>8, <2>5 DEF CleanOK, ReceiverKey
    <3>3. NotYetKept(id)'
      BY <1>8 DEF NotYetKept
    <3>4. KeptWaits(id)'
      BY <1>6, <1>7, <2>3, <2>5 DEF CleanOK, KeptWaits
    <3>5. Dropped(id)'
      BY <1>5, <1>7, <2>1, <2>3 DEF Dropped, IsDriver
    <3>6. Owed(id)'
      <4>1. awk \in Msgs(id)'
        BY <1>4, <1>12, ViewsNext DEF AtReceiverStep
      <4> QED
        BY <2>6, <4>1 DEF Owed
    <3> QED
      BY <3>1, <3>2, <3>3, <3>4, <3>5, <3>6 DEF CleanOK
  <2>8. \A j \in Id : j # id => Same(j)
    <3>1. OnlyAt(n, tx_qubits, tx_qubits')
      BY <2>1 DEF OnlyAt, SameLists
    <3>2. \A j : j # id => /\ At(tx_qubits'[n], j) = At(tx_qubits[n], j)
                           /\ At(rx_qubits'[n], j) = At(rx_qubits[n], j)
                           /\ At(rx_queue'[n], j) = At(rx_queue[n], j)
                           /\ At(storage'[n], j) = At(storage[n], j)
      BY <1>4, <1>10, <2>1, <2>5 DEF SameLists
    <3> QED
      BY <1>4, <1>10, <2>5, <3>1, <3>2, OthersSame
  <2> QED
    BY <1>0, <1>9, <2>7, <2>8
<1> QED
  BY <1>2, <1>11, <1>12

\* The operations that a release at a receiver leaves alone, or asks for.
LEMMA ReleaseOthersClean ==
  ASSUME OneQubit, OInv, AllBound, AllClean, NEW n \in Node, NEW id \in Id, NEW sent,
         CanReleaseRx(n, id), ReleaseAtReceiver(n, id, sent), \A p \in sent : p.id = id,
         Queued(n, id) = {}, OnlyAt(n, storage, storage'),
         \A j : j # id => At(storage'[n], j) = At(storage[n], j),
         \A e : e.id # id => (e \in events' <=> e \in events), UNCHANGED <<tx_queue, tx_qubits>>
  PROVE  /\ \A j \in Id : j # id => CleanOK(j)' /\ \A r : Coming(r, j) => Coming(r, j)'
         /\ rx_queue[n] # <<>> => \E j \in Id : Coming(n, j)'
         /\ \A r \in Node : r # n => rx_queue'[r] = rx_queue[r] /\ rx_qubits'[r] = rx_qubits[r]
         /\ rx_queue[n] = <<>> => rx_queue'[n] = <<>>
<1>1. PICK queue \in Seq(Item(n)) : queue = rx_queue[n] /\ Distinct(queue)
  BY NodeLists DEF OInv, DInv
<1>2. PICK h, nack : h = Head(queue) /\ nack = NACKFor(n, h.peer, h.id, h.protocol)
  OBVIOUS
<1>3. /\ nack.id = h.id /\ nack.type = "NACK" /\ nack.dst = Peers[n][h.peer]
      /\ Promoted(n) = IF queue = <<>> THEN {} ELSE {nack}
  BY <1>1, <1>2 DEF NACKFor, Packet, Promoted
<1>4. n \in DOMAIN rx_qubits /\ n \in DOMAIN rx_queue /\ DOMAIN data = Node
  BY NodeLists DEF OInv, DInv, IInv, RestOK
<1>5. /\ OnlyAt(n, rx_qubits, rx_qubits') /\ rx_qubits'[n] = ReleasedRx(n, id)
      /\ OnlyAt(n, rx_queue, rx_queue')
      /\ rx_queue'[n] = IF queue = <<>> THEN queue ELSE Tail(queue)
      /\ \A r \in Node : data'[r] \subseteq data[r]
      /\ net' = net \cup sent \cup Promoted(n)
  <2>1. net' = net \cup sent \cup Promoted(n)
    BY DEF ReleaseAtReceiver, Out, AllBound
  <2>2. OnlyAt(n, rx_qubits, rx_qubits') /\ rx_qubits'[n] = ReleasedRx(n, id)
    BY <1>4, OnlyAtExcept DEF ReleaseAtReceiver
  <2>3. /\ OnlyAt(n, rx_queue, rx_queue')
        /\ rx_queue'[n] = IF queue = <<>> THEN queue ELSE Tail(queue)
    BY <1>1, <1>4, OnlyAtExcept DEF ReleaseAtReceiver
  <2>4. \A r \in Node : data'[r] \subseteq data[r]
    BY <1>4 DEF ReleaseAtReceiver
  <2> QED
    BY <2>1, <2>2, <2>3, <2>4
<1>6. ASSUME NEW j \in Id, j # id
      PROVE  /\ Tx(j)' = Tx(j) /\ Evs(j)' = Evs(j) /\ j[1] \in Node
             /\ Msgs(j)' = Msgs(j) \cup {p \in Promoted(n) : p.id = j}
             /\ \A r \in Node : Kept(r, j)' = Kept(r, j) /\ Rx(r, j)' = Rx(r, j)
             /\ \A r \in Node : r # n => Queued(r, j)' = Queued(r, j)
             /\ Queued(n, j)' = At(rx_queue'[n], j) /\ Queued(n, j) = At(queue, j)
  <2>1. Evs(j)' = {e \in events' : e.id = j} /\ Msgs(j)' = {m \in net' : m.id = j}
    BY ViewsNext
  <2>2. Tx(j)' = Tx(j) /\ Evs(j)' = Evs(j) /\ j[1] \in Node
    BY <1>6, <2>1, ViewsNext DEF Tx, Evs, Id
  <2>3. Msgs(j)' = Msgs(j) \cup {p \in Promoted(n) : p.id = j}
    BY <1>5, <1>6, <2>1 DEF Msgs
  <2>4. \A r \in Node : r # n => /\ Rx(r, j)' = Rx(r, j) /\ Queued(r, j)' = Queued(r, j)
                                 /\ Kept(r, j)' = Kept(r, j)
    BY <1>5, ViewsNext DEF Rx, Queued, Kept, OnlyAt
  <2>5. Kept(n, j)' = Kept(n, j)
    BY <1>6, ViewsNext DEF Kept
  <2>6. Rx(n, j)' = Rx(n, j)
    <3>1. Has(rx_qubits[n], id)
      BY DEF CanReleaseRx
    <3>2. Rx(n, j)' = At(ReleasedRx(n, id), j)
      BY <1>5, ViewsNext
    <3> QED
      BY <1>6, <3>1, <3>2, ReleasedRxAt DEF Rx
  <2>7. Queued(n, j)' = At(rx_queue'[n], j) /\ Queued(n, j) = At(queue, j)
    BY <1>1, ViewsNext DEF Queued
  <2> QED
    BY <2>2, <2>3, <2>4, <2>5, <2>6, <2>7
<1>7. ASSUME NEW j \in Id, j # id, ~(queue # <<>> /\ h.id = j)
      PROVE  CleanOK(j)' /\ \A r : Coming(r, j) => Coming(r, j)'
  <2>1. Queued(n, j)' = Queued(n, j)
    BY <1>1, <1>2, <1>5, <1>6, <1>7, AtTail
  <2>2. Msgs(j)' = Msgs(j)
    BY <1>3, <1>6, <1>7
  <2>3. Same(j)
    BY <1>5, <1>6, <1>7, <2>1, <2>2 DEF Same
  <2> QED
    BY <2>3, SameClean DEF AllClean
<1>8. ASSUME queue # <<>>, NEW j \in Id, j = h.id
      PROVE  /\ j # id /\ CleanOK(j)' /\ Coming(n, j)'
             /\ \A r : Coming(r, j) => Coming(r, j)'
  <2>1. h \in Queued(n, j) /\ j # id
    <3>1. At(queue, Head(queue).id) = {Head(queue)}
      BY <1>1, <1>8, AtTail
    <3>2. h \in Queued(n, j)
      BY <1>1, <1>2, <1>8, <3>1 DEF Queued
    <3> QED
      BY <3>2
  <2>2. /\ Msgs(j) = {} /\ \A r \in Node : r # n => Queued(r, j) = {}
    BY <2>1, AloneQueued
  <2>3. QueuedOK(j, n, h) /\ CleanOK(j)
    BY <2>1, OpFacts DEF DrivenOK, AllClean
  <2>4. nack \in Msgs(j)'
    BY <1>3, <1>6, <1>8, <2>1
  <2>5. Asks(j, nack)'
    <3>1. nack.dst = j[1] /\ Kept(j[1], j) = {}
      BY <1>3, <2>3 DEF QueuedOK, RecordOK, Holding, Open
    <3> QED
      BY <1>3, <1>6, <2>1, <3>1 DEF Asks
  <2>6. Coming(n, j)'
    <3>1. \A t \in Tx(j) : Peers[j[1]][t.peer] = n
      BY <2>3 DEF QueuedOK, Agreed
    <3> QED
      BY <1>6, <2>1, <2>4, <2>5, <3>1 DEF Coming, Asked
  <2>7. \A r : ~Coming(r, j)
    BY <2>2 DEF Coming, Asked
  <2>8. CleanOK(j)'
    <3>1. \A r \in Node : Kept(r, j)' = {}
      BY <1>6, <2>1, <2>3 DEF CleanOK, NotYetKept, Unmeasured
    <3>2. SenderKey(j)'
      BY <1>5, <1>6, <2>1, <2>3 DEF CleanOK, SenderKey
    <3>3. ReceiverKey(j)'
      <4> SUFFICES ASSUME NEW r \in Node \ {j[1]}, j \in data'[r], r # n PROVE FALSE
        BY <2>6 DEF ReceiverKey
      <4>1. Rx(r, j) # {} \/ Queued(r, j) # {}
        BY <1>5, <2>3, <2>7 DEF CleanOK, ReceiverKey
      <4> QED
        BY <2>2, <2>3, <4>1 DEF QueuedOK, NoRx
    <3> QED
      BY <1>6, <2>1, <3>1, <3>2, <3>3, NothingKept
  <2> QED
    BY <2>1, <2>6, <2>7, <2>8
<1>9. queue # <<>> => h.id \in Id
  <2>1. queue # <<>> => h \in Item(n)
    BY <1>1, <1>2, AtTail
  <2> QED
    BY <2>1, ItemFields
<1>10. \A j \in Id : j # id => CleanOK(j)' /\ \A r : Coming(r, j) => Coming(r, j)'
  BY <1>7, <1>8
<1>11. rx_queue[n] # <<>> => \E j \in Id : Coming(n, j)'
  BY <1>1, <1>8, <1>9
<1>12. /\ \A r \in Node : r # n => rx_queue'[r] = rx_queue[r] /\ rx_qubits'[r] = rx_qubits[r]
       /\ rx_queue[n] = <<>> => rx_queue'[n] = <<>>
  BY <1>1, <1>5 DEF OnlyAt
<1> QED
  BY <1>10, <1>11, <1>12

\* A step that changes the places and the queue of one receiver only.
LEMMA ServedStep ==
  ASSUME AllServed, StillComing, NEW n \in Node, QueueServed(n)',
         \A r \in Node : r # n => rx_queue'[r] = rx_queue[r] /\ rx_qubits'[r] = rx_qubits[r]
  PROVE  AllServed'
<1> SUFFICES ASSUME NEW r \in Node, r # n, rx_queue'[r] # <<>>, rx_qubits'[r] = <<>>
             PROVE  \E j \in Id : Coming(r, j)'
  BY DEF AllServed, QueueServed
<1>1. PICK j \in Id : Coming(r, j)
  BY DEF AllServed, QueueServed
<1> QED
  BY <1>1 DEF StillComing

\* A telegate ends at its receiver, which has dropped its result.
LEMMA ReleaseAtReceiverClean ==
  ASSUME OneQubit, OInv, AllBound, AllClean, AllServed,
         NEW n \in Node, NEW id, NEW e \in events,
         e.fn = "ReleaseQubit", e.node = n, e.id = id, ~e.sender, events' = events \ {e},
         CanReleaseRx(n, id), ReleaseAtReceiver(n, id, {}),
         UNCHANGED <<tx_queue, tx_qubits, storage>>
  PROVE  (\A j \in Id : CleanOK(j)') /\ AllServed'
<1>1. IsDriver(e) /\ id \in Id /\ e \in Evs(id)
  BY DEF IsDriver, Evs, OInv, DInv, IInv, RestOK, Event
<1>2. /\ \A m \in Msgs(id) : m.type = "AWK"
      /\ \A f \in Evs(id) : IsDriver(f) => f = e
      /\ \A r \in Node : Queued(r, id) = {}
  BY <1>1, AloneEvent
<1>3. /\ n # id[1] /\ Rx(n, id) # {} /\ PlacesOK(id) /\ CleanOK(id) /\ id[1] \in Node
  BY <1>1, OpFacts DEF DrivenOK, EventOK, AllClean
<1>4. /\ Msgs(id)' = Msgs(id)
      /\ \A r \in Node : /\ Queued(r, id)' = {} /\ Rx(r, id)' = {}
                         /\ r # n => data'[r] = data[r]
  <2>1. \A p \in {} : p.id = id
    OBVIOUS
  <2>2. /\ Msgs(id)' \subseteq Msgs(id) \cup {} /\ \A m \in Msgs(id) : m \in Msgs(id)'
        /\ \A r \in Node : /\ Queued(r, id)' \subseteq Queued(r, id)
                           /\ r # n => data'[r] = data[r]
        /\ NoRx(id)'
    BY <1>1, <1>2, <2>1, ReleasedViews
  <2> QED
    BY <1>2, <2>2 DEF NoRx
<1>5. /\ Tx(id)' = Tx(id) /\ Evs(id)' = Evs(id) \ {e} /\ id \notin data'[n]
      /\ \A r \in Node : Kept(r, id)' = Kept(r, id)
  <2>1. id \notin data'[n]
    BY DEF ReleaseAtReceiver, OInv, DInv, IInv, RestOK
  <2> QED
    BY <2>1, ViewsNext DEF Tx, Evs, Kept
<1>6. ~Asked(id) /\ ~Unmeasured(id)' /\ \A r : ~Coming(r, id)
  <2>1. ~Asked(id) /\ ~Asked(id)'
    BY <1>2, <1>4 DEF Asked, Asks
  <2> QED
    BY <1>2, <1>4, <1>5, <2>1 DEF Unmeasured, IsDriver, Coming
<1>7. \A r \in Node : r # n => Rx(r, id) = {}
  BY <1>3 DEF PlacesOK
<1>8. CleanOK(id)'
  <2>1. SenderKey(id)'
    BY <1>3, <1>4, <1>5 DEF CleanOK, SenderKey
  <2>2. ReceiverKey(id)'
    BY <1>2, <1>3, <1>4, <1>5, <1>6, <1>7 DEF CleanOK, ReceiverKey
  <2>3. NotYetKept(id)'
    BY <1>6 DEF NotYetKept
  <2>4. Kept(n, id) = {}
    BY <1>1, <1>3 DEF CleanOK, Dropped
  <2>5. KeptWaits(id)'
    BY <1>3, <1>5, <1>7, <2>4 DEF CleanOK, KeptWaits
  <2>6. Dropped(id)' /\ Owed(id)'
    BY <1>3, <1>4, <1>5 DEF CleanOK, Dropped, Owed, IsDriver
  <2> QED
    BY <2>1, <2>2, <2>3, <2>5, <2>6 DEF CleanOK
<1>9. /\ \A j \in Id : j # id => CleanOK(j)' /\ \A r : Coming(r, j) => Coming(r, j)'
      /\ rx_queue[n] # <<>> => \E j \in Id : Coming(n, j)'
      /\ \A r \in Node : r # n => rx_queue'[r] = rx_queue[r] /\ rx_qubits'[r] = rx_qubits[r]
      /\ rx_queue[n] = <<>> => rx_queue'[n] = <<>>
  <2>1. \A p \in {} : p.id = id
    OBVIOUS
  <2>2. \A f : f.id # id => (f \in events' <=> f \in events)
    OBVIOUS
  <2>3. OnlyAt(n, storage, storage') /\ \A j : j # id => At(storage'[n], j) = At(storage[n], j)
    BY DEF OnlyAt
  <2> QED
    BY <1>1, <1>2, <2>1, <2>2, <2>3, ReleaseOthersClean
<1>10. StillComing /\ QueueServed(n)'
  BY <1>6, <1>9 DEF StillComing, QueueServed
<1> QED
  BY <1>8, <1>9, <1>10, ServedStep

LEMMA HeldList ==
  ASSUME NEW seq, NEW id, At(seq, id) # {}
  PROVE  seq # <<>>
<1>1. DOMAIN <<>> = {}
  OBVIOUS
<1> QED
  BY <1>1, AtIs

\* The receiver has measured its qubit, for the first time: it keeps the result
\* of a telegate with its qubit, and that of a teledata without.
LEMMA SendClassicalClean ==
  ASSUME OneQubit, OInv, AllBound, \A j \in Id : LiveOK(j), AllClean, AllServed, KeptOnce,
         NEW n \in Node, NEW id, SendClassical(n, id), failed' = "none"
  PROVE  (\A j \in Id : CleanOK(j)') /\ AllServed' /\ KeptOnce'
<1> DEFINE s == Slot(rx_qubits[n], id)
           it == rx_qubits[n][s]
           result0 == [it EXCEPT !.operating = FALSE, !.x = TRUE, !.z = it.protocol = "teledata"]
           packet0 == Packet("Classical", n, it.peer, id, it.protocol, TRUE,
                             it.protocol = "teledata")
           Measured ==
             /\ storage' = [storage EXCEPT ![n] = Append(storage[n], result0)]
             /\ IF DoneAtOnce(it.protocol)
                THEN CanReleaseRx(n, id) /\ ReleaseAtReceiver(n, id, {packet0})
                ELSE /\ rx_qubits' = [rx_qubits EXCEPT ![n][s].operating = FALSE]
                     /\ net' = net \cup Out(n, {packet0})
                     /\ UNCHANGED <<rx_queue, data>>
             /\ UNCHANGED <<tx_queue, tx_qubits>>
<1>1. PICK e \in events :
        /\ e.fn = "SendClassical" /\ e.node = n /\ e.id = id
        /\ events' = events \ {e}
        /\ Has(rx_qubits[n], id) /\ (it.operating => Measured)
  BY DEF SendClassical
<1>2. IsDriver(e) /\ id \in Id /\ e \in Evs(id)
  BY <1>1 DEF IsDriver, Evs, OInv, DInv, IInv, RestOK, Event
<1>3. EventOK(id, e) /\ PlacesOK(id) /\ CleanOK(id) /\ id[1] \in Node
  BY <1>2, OpFacts DEF DrivenOK, AllClean
<1>4. n # id[1] /\ Rx(n, id) # {}
  BY <1>1, <1>3 DEF EventOK
<1>5. /\ \A f \in Evs(id) : IsDriver(f) => f = e
      /\ Msgs(id) = {} /\ \A r \in Node : Queued(r, id) = {}
  BY <1>1, <1>2, AloneEvent
<1>6. rx_qubits[n] \in Seq(Item(n)) /\ storage[n] \in Seq(Item(n)) /\ n \in DOMAIN storage
      /\ n \in DOMAIN rx_qubits /\ DOMAIN data = Node
  BY NodeLists DEF OInv, DInv, IInv, RestOK
<1>7. PICK k : k = s
  OBVIOUS
<1>8. k \in 1..Len(rx_qubits[n]) /\ rx_qubits[n][k].id = id /\ rx_qubits[n][k] \in Item(n)
      /\ rx_qubits[n][k] \in At(rx_qubits[n], id)
  BY <1>1, <1>6, <1>7, SlotAt
<1>9. PICK item \in Item(n) : item = rx_qubits[n][k] /\ item \in Rx(n, id) /\ item.id = id
  BY <1>8 DEF Rx
<1>10. item.operating = TRUE
  BY <1>1, <1>2, <1>9 DEF LiveOK
<1>11. PICK result, packet :
         /\ result = [item EXCEPT !.operating = FALSE, !.x = TRUE, !.z = item.protocol = "teledata"]
         /\ packet = Packet("Classical", n, item.peer, id, item.protocol, TRUE,
                            item.protocol = "teledata")
  OBVIOUS
<1>12. /\ result \in Item(n) /\ result.id = id /\ result.protocol = item.protocol
       /\ packet.id = id /\ packet.type = "Classical"
  BY <1>9, <1>11 DEF Item, Packet
<1>13. /\ storage' = [storage EXCEPT ![n] = Append(storage[n], result)]
       /\ IF DoneAtOnce(item.protocol)
          THEN CanReleaseRx(n, id) /\ ReleaseAtReceiver(n, id, {packet})
          ELSE /\ rx_qubits' = [rx_qubits EXCEPT ![n][k].operating = FALSE]
               /\ net' = net \cup Out(n, {packet})
               /\ UNCHANGED <<rx_queue, data>>
       /\ UNCHANGED <<tx_queue, tx_qubits>> /\ events' = events \ {e}
  BY <1>1, <1>7, <1>9, <1>10, <1>11
<1> HIDE DEF s, it, result0, packet0, Measured
<1>14. /\ OnlyAt(n, storage, storage') /\ storage'[n] = Append(storage[n], result)
       /\ \A j : At(storage'[n], j) = IF j = id THEN At(storage[n], j) \cup {result}
                                      ELSE At(storage[n], j)
  <2>1. OnlyAt(n, storage, storage') /\ storage'[n] = Append(storage[n], result)
    BY <1>6, <1>13, OnlyAtExcept
  <2>2. \A j : At(Append(storage[n], result), j)
                 = IF result.id = j THEN At(storage[n], j) \cup {result} ELSE At(storage[n], j)
    BY <1>6, <1>12, AtAppend
  <2> QED
    BY <1>12, <2>1, <2>2
<1>15. \A r \in Node : Kept(r, id) = {}
  BY <1>1, <1>2, <1>3 DEF CleanOK, NotYetKept, Unmeasured
<1>16. KeptOnce'
  <2>1. ~Has(storage[n], id)
    BY <1>15, AtIs DEF Kept
  <2>2. Distinct(storage'[n])
    BY <1>6, <1>12, <1>14, <2>1, AppendDistinct DEF KeptOnce
  <2> QED
    BY <1>14, <2>2 DEF KeptOnce, OnlyAt
<1>17. \A r \in Node : Kept(r, id)' = IF r = n THEN {result} ELSE {}
  <2>1. Kept(n, id)' = {result}
    BY <1>14, <1>15, ViewsNext DEF Kept
  <2>2. \A r \in Node : r # n => Kept(r, id)' = {}
    BY <1>14, <1>15, ViewsNext DEF Kept, OnlyAt
  <2> QED
    BY <2>1, <2>2
<1>18. Tx(id)' = Tx(id) /\ Evs(id)' = Evs(id) \ {e} /\ \A f \in Evs(id)' : ~IsDriver(f)
  <2>1. Tx(id)' = Tx(id) /\ Evs(id)' = Evs(id) \ {e}
    BY <1>13, ViewsNext DEF Tx, Evs
  <2> QED
    BY <1>5, <2>1 DEF IsDriver
<1>19. ~Asked(id) /\ \A r : ~Coming(r, id)
  BY <1>5 DEF Asked, Coming
<1>20. \A r \in Node : r # n => Rx(r, id) = {}
  BY <1>3, <1>4 DEF PlacesOK
<1>21. ASSUME Msgs(id)' \subseteq {packet}, \A r \in Node : Queued(r, id)' = {},
              \A r \in Node : r # n => data'[r] = data[r],
              Rx(n, id)' # {} \/ (DoneAtOnce(item.protocol) /\ id \notin data'[n])
       PROVE  CleanOK(id)'
  <2>1. ~Unmeasured(id)'
    <3>1. ~Asked(id)'
      BY <1>12, <1>21 DEF Asked, Asks
    <3> QED
      BY <1>18, <1>21, <3>1 DEF Unmeasured, IsDriver
  <2>2. SenderKey(id)'
    BY <1>3, <1>4, <1>13, <1>18, <1>21 DEF CleanOK, SenderKey
  <2>3. ReceiverKey(id)'
    BY <1>3, <1>5, <1>19, <1>20, <1>21 DEF CleanOK, ReceiverKey
  <2>4. KeptWaits(id)'
    BY <1>12, <1>17, <1>21 DEF KeptWaits, DoneAtOnce
  <2>5. NotYetKept(id)' /\ Dropped(id)' /\ Owed(id)'
    BY <1>3, <1>4, <1>17, <1>18, <2>1 DEF NotYetKept, Dropped, Owed, IsDriver
  <2> QED
    BY <2>2, <2>3, <2>4, <2>5 DEF CleanOK
<1>22. ASSUME \A j \in Id : j # id => CleanOK(j)' /\ \A r : Coming(r, j) => Coming(r, j)'
       PROVE  StillComing
  BY <1>19, <1>22 DEF StillComing
<1>23. \A f : f.id # id => (f \in events' <=> f \in events)
  BY <1>1
<1>24. CASE DoneAtOnce(item.protocol)
  <2>1. CanReleaseRx(n, id) /\ ReleaseAtReceiver(n, id, {packet})
    BY <1>13, <1>24
  <2>2. \A p \in {packet} : p.id = id
    BY <1>12
  <2>3. /\ Msgs(id)' \subseteq Msgs(id) \cup {packet}
        /\ \A r \in Node : /\ Queued(r, id)' \subseteq Queued(r, id)
                           /\ r # n => data'[r] = data[r]
    BY <1>2, <1>5, <2>1, <2>2, ReleasedViews
  <2>4. id \notin data'[n]
    BY <1>6, <2>1 DEF ReleaseAtReceiver
  <2>5. CleanOK(id)'
    BY <1>5, <1>21, <1>24, <2>3, <2>4
  <2>6. /\ \A j \in Id : j # id => CleanOK(j)' /\ \A r : Coming(r, j) => Coming(r, j)'
        /\ rx_queue[n] # <<>> => \E j \in Id : Coming(n, j)'
        /\ \A r \in Node : r # n => rx_queue'[r] = rx_queue[r] /\ rx_qubits'[r] = rx_qubits[r]
        /\ rx_queue[n] = <<>> => rx_queue'[n] = <<>>
    BY <1>2, <1>5, <1>13, <1>14, <1>23, <2>1, <2>2, ReleaseOthersClean
  <2>7. StillComing /\ QueueServed(n)'
    BY <1>22, <2>6 DEF QueueServed
  <2> QED
    BY <1>16, <2>5, <2>6, <2>7, ServedStep
<1>25. CASE ~DoneAtOnce(item.protocol)
  <2>1. PICK up : up = [item EXCEPT !.operating = FALSE]
    OBVIOUS
  <2>2. rx_qubits' = [rx_qubits EXCEPT ![n] = [rx_qubits[n] EXCEPT ![k] = up]] /\ up.id = id
    BY <1>9, <1>13, <1>25, <2>1 DEF Item
  <2>3. OnlyAt(n, rx_qubits, rx_qubits') /\ rx_qubits'[n] = [rx_qubits[n] EXCEPT ![k] = up]
    BY <1>6, <2>2, OnlyAtExcept
  <2>4. \A j : j # id => At(rx_qubits'[n], j) = At(rx_qubits[n], j)
    <3> SUFFICES ASSUME NEW j, j # id PROVE At(rx_qubits'[n], j) = At(rx_qubits[n], j)
      OBVIOUS
    <3>1. rx_qubits[n][k].id # j /\ up.id # j
      BY <1>8, <2>2
    <3> QED
      BY <1>6, <1>8, <2>3, <3>1, ExceptOther
  <2>5. At(rx_qubits'[n], id) # {} /\ Rx(n, id)' # {}
    <3>1. up \in At(rx_qubits'[n], id)
      BY <1>6, <1>8, <2>2, <2>3, ExceptOwn
    <3> QED
      BY <3>1, ViewsNext
  <2>6. /\ \A p \in net : p \in net' \/ p.id = id
        /\ \A p \in net' : p \in net \/ p = packet
        /\ OnlyAt(n, tx_qubits, tx_qubits') /\ OnlyAt(n, rx_queue, rx_queue')
        /\ tx_qubits'[n] = tx_qubits[n] /\ rx_queue' = rx_queue /\ data' = data
    BY <1>13, <1>25 DEF OnlyAt, Out, AllBound
  <2>7. \A j : j # id => /\ At(tx_qubits'[n], j) = At(tx_qubits[n], j)
                         /\ At(rx_qubits'[n], j) = At(rx_qubits[n], j)
                         /\ At(rx_queue'[n], j) = At(rx_queue[n], j)
                         /\ At(storage'[n], j) = At(storage[n], j)
    BY <1>14, <2>4, <2>6
  <2>8. \A j \in Id : j # id => Same(j)
    BY <1>12, <1>13, <1>14, <1>23, <2>3, <2>6, <2>7, OthersSame
  <2>9. \A j \in Id : j # id => CleanOK(j)' /\ \A r : Coming(r, j) => Coming(r, j)'
    BY <2>8, SameClean DEF AllClean
  <2>10. CleanOK(id)'
    <3>1. Msgs(id)' \subseteq {packet}
      <4>1. Msgs(id)' = {p \in net' : p.id = id}
        BY ViewsNext
      <4> QED
        BY <1>5, <2>6, <4>1 DEF Msgs
    <3>2. \A r \in Node : Queued(r, id)' = {}
      BY <1>5, <2>6, ViewsNext DEF Queued
    <3> QED
      BY <1>21, <2>5, <2>6, <3>1, <3>2
  <2>11. QueueServed(n)'
    BY <2>5, HeldList DEF QueueServed
  <2>12. \A r \in Node : r # n => rx_queue'[r] = rx_queue[r] /\ rx_qubits'[r] = rx_qubits[r]
    BY <2>3, <2>6 DEF OnlyAt
  <2>13. \A j \in Id : CleanOK(j)'
    BY <2>9, <2>10
  <2>14. StillComing
    BY <1>22, <2>9
  <2>15. AllServed'
    BY <2>11, <2>12, <2>14, ServedStep
  <2> QED
    BY <1>16, <2>13, <2>15
<1> QED
  BY <1>24, <1>25

\* The sender of a telegate keeps its result, which is on its way.
LEMMA LocalGateClean ==
  ASSUME OInv, AllBound, AllClean, KeptOnce, NEW n \in Node, NEW id,
         LocalGate(n, id), failed' = "none"
  PROVE  (\A j \in Id : CleanOK(j)') /\ StillComing /\ KeptOnce'
<1> DEFINE s == Slot(tx_qubits[n], id)
           item == tx_qubits[n][s]
           result0 == [item EXCEPT !.operating = FALSE, !.x = FALSE, !.z = TRUE]
           release0 == [fn |-> "ReleaseQubit", node |-> n, id |-> id, sender |-> TRUE]
           packet0 == Packet("Classical", n, item.peer, id, item.protocol, FALSE, TRUE)
<1>1. PICK e \in events :
        /\ e.fn = "LocalGate" /\ e.node = n /\ e.id = id
        /\ Has(tx_qubits[n], id)
        /\ events' = (events \ {e}) \cup {release0}
        /\ item.operating =>
             /\ tx_qubits' = [tx_qubits EXCEPT ![n][s].operating = FALSE]
             /\ storage' = [storage EXCEPT ![n] = Append(storage[n], result0)]
             /\ net' = net \cup Out(n, {packet0})
        /\ UNCHANGED <<tx_queue, rx_queue, rx_qubits, data>>
  BY DEF LocalGate, Abort
<1>2. IsDriver(e) /\ id \in Id /\ e \in Evs(id)
  BY <1>1 DEF IsDriver, Evs, OInv, DInv, IInv, RestOK, Event
<1>3. /\ id[1] = n /\ \A t \in Tx(id) : t.operating = TRUE
      /\ Kept(n, id) = {} /\ CleanOK(id)
  BY <1>1, <1>2, OpFacts DEF DrivenOK, EventOK, Open, AllClean
<1>4. /\ tx_qubits[n] \in Seq(Item(n)) /\ storage[n] \in Seq(Item(n))
      /\ n \in DOMAIN storage /\ n \in DOMAIN tx_qubits
  BY NodeLists DEF OInv, DInv
<1>5. PICK k : k = s
  OBVIOUS
<1>6. k \in 1..Len(tx_qubits[n]) /\ tx_qubits[n][k].id = id /\ tx_qubits[n][k] \in Item(n)
      /\ tx_qubits[n][k] \in At(tx_qubits[n], id)
  BY <1>1, <1>4, <1>5, SlotAt
<1>7. PICK old \in Item(n) : old = tx_qubits[n][k] /\ old.id = id /\ old.operating = TRUE
  BY <1>3, <1>6 DEF Tx
<1>8. PICK it, result, release, packet :
        /\ it = [old EXCEPT !.operating = FALSE]
        /\ result = [old EXCEPT !.operating = FALSE, !.x = FALSE, !.z = TRUE]
        /\ release = release0
        /\ packet = Packet("Classical", n, old.peer, id, old.protocol, FALSE, TRUE)
  OBVIOUS
<1>9. /\ it.id = id /\ result \in Item(n) /\ result.id = id
      /\ packet.id = id /\ packet.type = "Classical"
      /\ release.id = id /\ ~IsDriver(release)
  BY <1>7, <1>8 DEF Item, Packet, IsDriver
<1>10. /\ tx_qubits' = [tx_qubits EXCEPT ![n] = [tx_qubits[n] EXCEPT ![k] = it]]
       /\ storage' = [storage EXCEPT ![n] = Append(storage[n], result)]
       /\ net' = net \cup {packet} /\ events' = (events \ {e}) \cup {release}
       /\ UNCHANGED <<tx_queue, rx_queue, rx_qubits, data>>
  <2>1. item = old
    BY <1>5, <1>7
  <2>2. tx_qubits' = [tx_qubits EXCEPT ![n][k].operating = FALSE]
    BY <1>1, <1>5, <1>7, <2>1
  <2>3. tx_qubits' = [tx_qubits EXCEPT ![n] = [tx_qubits[n] EXCEPT ![k] = it]]
    BY <1>7, <1>8, <2>2
  <2> QED
    BY <1>1, <1>7, <1>8, <2>1, <2>3 DEF Out, AllBound
<1> HIDE DEF s, item, result0, release0, packet0
<1>11. /\ OnlyAt(n, tx_qubits, tx_qubits') /\ Tx(id)' = {it}
       /\ \A j : j # id => At(tx_qubits'[n], j) = At(tx_qubits[n], j)
  <2>1. TxUpdate(n, k, it)
    BY <1>6, <1>9, <1>10 DEF TxUpdate
  <2>2. /\ OnlyAt(n, tx_qubits, tx_qubits') /\ (it.id[1] = n => Tx(it.id)' = {it})
        /\ \A j : j # it.id => At(tx_qubits'[n], j) = At(tx_qubits[n], j)
    BY <2>1, TxChanged
  <2> QED
    BY <1>3, <1>9, <2>2
<1>12. /\ OnlyAt(n, storage, storage') /\ storage'[n] = Append(storage[n], result)
       /\ \A j : j # id => At(storage'[n], j) = At(storage[n], j)
  <2>1. OnlyAt(n, storage, storage') /\ storage'[n] = Append(storage[n], result)
    BY <1>4, <1>10, OnlyAtExcept
  <2>2. \A j : At(Append(storage[n], result), j)
                 = IF result.id = j THEN At(storage[n], j) \cup {result} ELSE At(storage[n], j)
    BY <1>4, <1>9, AtAppend
  <2> QED
    BY <1>9, <2>1, <2>2
<1>13. KeptOnce'
  <2>1. ~Has(storage[n], id)
    BY <1>3, AtIs DEF Kept
  <2>2. Distinct(storage'[n])
    BY <1>4, <1>9, <1>12, <2>1, AppendDistinct DEF KeptOnce
  <2> QED
    BY <1>12, <2>2 DEF KeptOnce, OnlyAt
<1>14. /\ \A f \in Evs(id) : IsDriver(f) => f = e
       /\ Msgs(id) = {} /\ \A r \in Node : Queued(r, id) = {}
  BY <1>1, <1>2, AloneEvent
<1>15. /\ Msgs(id)' = {packet} /\ Evs(id)' = (Evs(id) \ {e}) \cup {release}
       /\ \A r \in Node : /\ Rx(r, id)' = Rx(r, id) /\ Queued(r, id)' = {}
                          /\ r # n => Kept(r, id)' = Kept(r, id)
  <2>1. Evs(id)' = {f \in events' : f.id = id} /\ Msgs(id)' = {m \in net' : m.id = id}
    BY ViewsNext
  <2>2. Msgs(id)' = {packet} /\ Evs(id)' = (Evs(id) \ {e}) \cup {release}
    BY <1>9, <1>10, <1>14, <2>1 DEF Evs, Msgs
  <2>3. \A r \in Node : r # n => Kept(r, id)' = Kept(r, id)
    BY <1>12, ViewsNext DEF Kept, OnlyAt
  <2> QED
    BY <1>10, <1>14, <2>2, <2>3, ViewsNext DEF Rx, Queued
<1>16. \A f \in Evs(id)' : ~IsDriver(f)
  BY <1>9, <1>14, <1>15 DEF IsDriver
<1>17. ~Asked(id) /\ ~Unmeasured(id)' /\ \A r : ~Coming(r, id)
  <2>1. ~Asked(id) /\ ~Asked(id)'
    BY <1>9, <1>14, <1>15 DEF Asked, Asks
  <2> QED
    BY <1>15, <1>16, <2>1 DEF Unmeasured, IsDriver, Coming
<1>18. CleanOK(id)'
  <2>1. SenderKey(id)'
    BY <1>11 DEF SenderKey
  <2>2. ReceiverKey(id)'
    BY <1>3, <1>10, <1>14, <1>15, <1>17 DEF CleanOK, ReceiverKey
  <2>3. NotYetKept(id)'
    BY <1>17 DEF NotYetKept
  <2>4. KeptWaits(id)'
    BY <1>3, <1>15 DEF CleanOK, KeptWaits
  <2>5. Dropped(id)'
    BY <1>16 DEF Dropped, IsDriver
  <2>6. Owed(id)'
    BY <1>9, <1>15 DEF Owed
  <2> QED
    BY <2>1, <2>2, <2>3, <2>4, <2>5, <2>6 DEF CleanOK
<1>19. \A j \in Id : j # id => Same(j)
  <2>1. /\ \A p \in net : p \in net' \/ p.id = id
        /\ \A p \in net' : p \in net \/ p.id = id
    BY <1>9, <1>10
  <2>2. \A f : f.id # id => (f \in events' <=> f \in events)
    BY <1>1, <1>9, <1>10
  <2>3. OnlyAt(n, rx_qubits, rx_qubits') /\ OnlyAt(n, rx_queue, rx_queue')
    BY <1>10 DEF OnlyAt
  <2>4. \A j : j # id => /\ At(tx_qubits'[n], j) = At(tx_qubits[n], j)
                         /\ At(rx_qubits'[n], j) = At(rx_qubits[n], j)
                         /\ At(rx_queue'[n], j) = At(rx_queue[n], j)
                         /\ At(storage'[n], j) = At(storage[n], j)
    BY <1>10, <1>11, <1>12
  <2>5. \A r \in Node : \A j \in data'[r] : j \in data[r] \/ j = id
    BY <1>10
  <2> QED
    BY <1>10, <1>11, <1>12, <2>1, <2>2, <2>3, <2>4, <2>5, OthersSame
<1>20. \A j \in Id : CleanOK(j)' /\ \A r : Coming(r, j) => Coming(r, j)'
  BY <1>17, <1>18, <1>19, SameClean DEF AllClean
<1> QED
  BY <1>13, <1>20 DEF StillComing

\* Send loses no operation: it has its qubit, or waits behind the others.
LEMMA SendKeeps ==
  ASSUME NEW S, NEW base \in Seq(S), NEW queue \in Seq(S), NEW k \in 0..Len(queue), NEW j,
         Has(base, j) \/ Has(queue, j)
  PROVE  Has(AfterFirst(queue, k), j) \/ Has(base \o FirstOf(queue, k), j)
<1> DEFINE b == Len(base)
           rest == AfterFirst(queue, k)
           list == base \o FirstOf(queue, k)
<1>1. b \in Nat /\ DOMAIN base = 1..b /\ Len(queue) \in Nat /\ DOMAIN queue = 1..Len(queue)
  BY DomainOfSeq
<1>2. /\ FirstOf(queue, k) \in Seq(S) /\ Len(FirstOf(queue, k)) = k
      /\ \A i \in 1..k : FirstOf(queue, k)[i] = queue[i]
  BY SplitAt
<1>3. /\ DOMAIN list = 1..(b + k)
      /\ \A l \in 1..(b + k) : list[l] = IF l <= b THEN base[l] ELSE FirstOf(queue, k)[l - b]
  <2>1. PICK q \in Seq(S) : q = FirstOf(queue, k)
    BY <1>2
  <2>2. /\ base \o q \in Seq(S) /\ Len(base \o q) = b + Len(q)
        /\ \A l \in 1..(b + Len(q)) : (base \o q)[l] = IF l <= b THEN base[l] ELSE q[l - b]
    BY ConcatProperties
  <2> QED
    BY <1>2, <2>1, <2>2, DomainOfSeq
<1>4. DOMAIN rest = 1..(Len(queue) - k) /\ \A i \in 1..(Len(queue) - k) : rest[i] = queue[k + i]
  <2>1. \A i \in (k + 1)..Len(queue) : queue[i] \in S
    BY <1>1, ElementOfSeq
  <2>2. \A i \in 1..(Len(queue) - (k + 1) + 1) :
           SubSeq(queue, k + 1, Len(queue))[i] = queue[k + 1 + i - 1]
    BY <1>1, <2>1, SubSeqProperties
  <2>3. AfterFirst(queue, k) \in Seq(S) /\ Len(AfterFirst(queue, k)) = Len(queue) - k
    BY SplitAt
  <2>4. Len(queue) - (k + 1) + 1 = Len(queue) - k
    BY <1>1
  <2>5. \A i \in 1..(Len(queue) - k) : k + 1 + i - 1 = k + i
    BY <1>1
  <2> QED
    BY <2>2, <2>3, <2>4, <2>5, DomainOfSeq DEF AfterFirst
<1> HIDE DEF b, rest, list
<1>5. CASE Has(base, j)
  <2>1. PICK l \in 1..b : base[l].id = j
    BY <1>1, <1>5 DEF Has
  <2>2. l \in 1..(b + k) /\ l <= b
    BY <1>1
  <2>3. list[l].id = j
    BY <1>3, <2>1, <2>2
  <2> QED
    BY <1>3, <2>2, <2>3 DEF Has, list
<1>6. CASE Has(queue, j)
  <2>1. PICK i \in 1..Len(queue) : queue[i].id = j
    BY <1>1, <1>6 DEF Has
  <2>2. CASE i <= k
    <3>0. PICK l : l = b + i
      OBVIOUS
    <3>1. l \in 1..(b + k) /\ ~(l <= b) /\ l - b = i /\ i \in 1..k
      BY <1>1, <2>2, <3>0
    <3>2. list[l] = queue[i]
      <4>1. list[l] = FirstOf(queue, k)[l - b]
        BY <1>3, <3>1
      <4> QED
        BY <1>2, <3>1, <4>1
    <3> QED
      BY <1>3, <2>1, <3>1, <3>2 DEF Has, list
  <2>3. CASE ~(i <= k)
    <3>1. i - k \in 1..(Len(queue) - k) /\ k + (i - k) = i
      BY <1>1, <2>3
    <3>2. rest[i - k] = queue[i]
      BY <1>4, <3>1
    <3> QED
      BY <1>4, <2>1, <3>1, <3>2 DEF Has, rest
  <2> QED
    BY <2>2, <2>3
<1> QED
  BY <1>5, <1>6

\* Send: the operations that get a qubit are unknown elsewhere.
LEMMA SendClean ==
  ASSUME NoOwnPeer, OInv, DInv', AllClean, AllServed,
         NEW n \in Node, NEW queue, NEW base, NEW k, NEW gone,
         SendStep(n, base, queue, k, gone),
         net' = net \cup {QubitOf(n, queue[i]) : i \in 1..k},
         \A r \in Node : \A j \in data'[r] : j \in data[r] \/ (r = n /\ j[1] = n),
         \A j \in data'[n] : j[1] = n => Has(tx_queue'[n], j) \/ At(tx_qubits'[n], j) # {}
  PROVE  (\A j \in Id : CleanOK(j)') /\ AllServed'
<1>1. /\ \A j : At(base, j) \subseteq At(tx_qubits[n], j)
      /\ \A i \in DOMAIN queue : queue[i].id[1] = n /\ Unsent(queue[i].id)
      /\ queue \in Seq(Item(n)) /\ k \in 0..Len(queue)
      /\ tx_qubits' = [tx_qubits EXCEPT ![n] = base \o FirstOf(queue, k)]
      /\ tx_queue' = [tx_queue EXCEPT ![n] = AfterFirst(queue, k)]
      /\ events' \subseteq events /\ UNCHANGED <<rx_queue, rx_qubits, storage>>
  BY DEF SendStep
<1>2. \A j \in Id : (\A i \in 1..k : queue[i].id # j) => At(tx_qubits'[n], j) = At(base, j)
  BY SendOps
<1>3. OnlyAt(n, tx_qubits, tx_qubits') /\ OnlyAt(n, tx_queue, tx_queue')
  BY <1>1, OnlyAtExcept
<1>4. \A i \in 1..k : i \in DOMAIN queue /\ QubitOf(n, queue[i]).id = queue[i].id
  <2>1. Len(queue) \in Nat /\ DOMAIN queue = 1..Len(queue)
    BY <1>1, DomainOfSeq
  <2> QED
    BY <1>1, <2>1 DEF QubitOf, Packet
<1>5. ASSUME NEW j \in Id
      PROVE  /\ j[1] \in Node /\ CleanOK(j)
             /\ \A r \in Node : /\ Rx(r, j)' = Rx(r, j) /\ Queued(r, j)' = Queued(r, j)
                                /\ Kept(r, j)' = Kept(r, j)
             /\ Evs(j)' \subseteq Evs(j)
             /\ Tx(j)' = At(tx_qubits'[j[1]], j) /\ (j[1] # n => Tx(j)' = Tx(j))
             /\ SenderKey(j)'
  <2>1. Evs(j)' = {e \in events' : e.id = j}
    BY ViewsNext
  <2>2. j[1] \in Node /\ CleanOK(j)
    BY DEF Id, AllClean
  <2>3. Tx(j)' = At(tx_qubits'[j[1]], j) /\ (j[1] # n => Tx(j)' = Tx(j))
    BY <1>3, <2>2, ViewsNext DEF Tx, OnlyAt
  <2>4. SenderKey(j)'
    <3>1. CASE j[1] = n
      BY <2>3, <3>1 DEF SenderKey
    <3>2. CASE j[1] # n
      BY <1>3, <2>2, <2>3, <3>2 DEF SenderKey, CleanOK, OnlyAt
    <3> QED
      BY <3>1, <3>2
  <2> QED
    BY <1>1, <2>1, <2>2, <2>3, <2>4, ViewsNext DEF Evs, Rx, Queued, Kept
<1>6. ASSUME NEW j \in Id, NEW i \in 1..k, queue[i].id = j
      PROVE  CleanOK(j)' /\ \A r : ~Coming(r, j)
  <2>1. Untouched(j) /\ j[1] = n
    BY <1>1, <1>4, <1>6, OpFacts DEF KeysOK
  <2>2. \A r : ~Coming(r, j)
    BY <2>1 DEF Untouched, Coming, Asked
  <2>3. \A r \in Node : Kept(r, j)' = {}
    BY <1>5, <2>1 DEF Untouched
  <2>4. ReceiverKey(j)'
    BY <1>5, <2>1, <2>2 DEF Untouched, CleanOK, ReceiverKey
  <2> QED
    BY <1>5, <2>2, <2>3, <2>4, NothingKept
<1>7. ASSUME NEW j \in Id, \A i \in 1..k : queue[i].id # j
      PROVE  CleanOK(j)' /\ \A r : Coming(r, j) => Coming(r, j)'
  <2>1. Msgs(j)' = Msgs(j)
    <3>1. Msgs(j)' = {m \in net' : m.id = j}
      BY ViewsNext
    <3> QED
      BY <1>4, <1>7, <3>1 DEF Msgs
  <2>2. Tx(j)' \subseteq Tx(j)
    BY <1>1, <1>2, <1>5, <1>7 DEF Tx
  <2>3. Asked(j)' <=> Asked(j)
    BY <1>5, <2>1 DEF Asked, Asks
  <2>4. \A r : Coming(r, j) => Coming(r, j)'
    BY <2>2, <2>3 DEF Coming
  <2>5. ReceiverKey(j)'
    BY <1>5, <2>4 DEF CleanOK, ReceiverKey
  <2>6. NotYetKept(j)'
    BY <1>5, <2>3 DEF CleanOK, NotYetKept, Unmeasured
  <2>7. KeptWaits(j)' /\ Dropped(j)' /\ Owed(j)'
    BY <1>5, <2>1 DEF CleanOK, KeptWaits, Dropped, Owed, IsDriver
  <2> QED
    BY <1>5, <2>4, <2>5, <2>6, <2>7 DEF CleanOK
<1>8. \A j \in Id : CleanOK(j)' /\ \A r : Coming(r, j) => Coming(r, j)'
  BY <1>6, <1>7
<1>9. StillComing
  BY <1>8 DEF StillComing
<1>10. QueueServed(n)'
  BY <1>1, <1>9 DEF StillComing, AllServed, QueueServed
<1> QED
  BY <1>1, <1>8, <1>9, <1>10, ServedStep

\* Run: the new operation has its key and is in a list.
LEMMA RunBodyKeys ==
  ASSUME AllClean, OInv, NEW n \in Node, RunBody(n), failed' = "none"
  PROVE  /\ \A r \in Node : \A j \in data'[r] : j \in data[r] \/ (r = n /\ j[1] = n)
         /\ \A j \in data'[n] : j[1] = n => Has(tx_queue'[n], j) \/ At(tx_qubits'[n], j) # {}
<1>1. PICK p \in DOMAIN Peers[n], protocol \in Protocols :
        LET item == [id |-> <<n, msg_count[n]>>, peer |-> p, protocol |-> protocol,
                     has_qubit |-> FALSE, operating |-> FALSE, x |-> FALSE, z |-> FALSE]
            waiting == Append(tx_queue[n], item)
            k == Movable(waiting, tx_qubits[n])
        IN RunStep(n, item, waiting, k)
  BY DEF RunBody, RunStep
<1>2. PICK id, item, queue, k :
        /\ id = <<n, msg_count[n]>>
        /\ item = [id |-> id, peer |-> p, protocol |-> protocol,
                   has_qubit |-> FALSE, operating |-> FALSE, x |-> FALSE, z |-> FALSE]
        /\ queue = Append(tx_queue[n], item)
        /\ k = Movable(queue, tx_qubits[n])
  OBVIOUS
<1>3. msg_count[n] \in Nat /\ id \in Id /\ id[1] = n /\ data \in [Node -> SUBSET Id]
  BY <1>2 DEF OInv, DInv, IInv, RestOK, Id
<1>4. item \in Item(n) /\ item.id = id
  BY <1>2, <1>3 DEF Item
<1>5. /\ tx_queue[n] \in Seq(Item(n)) /\ tx_qubits[n] \in Seq(Item(n))
      /\ Len(tx_qubits[n]) <= NumQubits /\ n \in DOMAIN tx_queue /\ n \in DOMAIN tx_qubits
  BY DEF OInv, DInv, IInv, HeldOK, NodeOK
<1>6. /\ queue \in Seq(Item(n))
      /\ \A j : At(queue, j) = IF id = j THEN At(tx_queue[n], j) \cup {item}
                               ELSE At(tx_queue[n], j)
  <2>1. PICK seq : seq = tx_queue[n] /\ seq \in Seq(Item(n))
    BY <1>5
  <2>2. Append(seq, item) \in Seq(Item(n))
    BY <1>4, <2>1, AppendProperties
  <2>0. seq \in Seq(Item(n)) /\ item \in Item(n)
    BY <1>4, <2>1
  <2>3. \A j : At(Append(seq, item), j)
                 = IF item.id = j THEN At(seq, j) \cup {item} ELSE At(seq, j)
    BY <2>0, AtAppend
  <2>4. queue = Append(seq, item)
    BY <1>2, <2>1
  <2> QED
    BY <1>4, <2>1, <2>2, <2>3, <2>4
<1>7. k \in 0..Len(queue)
  BY <1>2, <1>5, <1>6, MovableRange
<1>8. /\ tx_queue'  = [tx_queue EXCEPT ![n] = AfterFirst(queue, k)]
      /\ tx_qubits' = [tx_qubits EXCEPT ![n] = tx_qubits[n] \o FirstOf(queue, k)]
      /\ data' = [data EXCEPT ![n] = @ \cup {id}]
  <2>1. RunStep(n, item, queue, k)
    BY <1>1, <1>2
  <2> QED
    BY <1>4, <2>1 DEF RunStep, Abort
<1>9. /\ tx_queue'[n] = AfterFirst(queue, k) /\ tx_qubits'[n] = tx_qubits[n] \o FirstOf(queue, k)
      /\ data'[n] = data[n] \cup {id} /\ \A r \in Node : r # n => data'[r] = data[r]
  BY <1>3, <1>5, <1>8
<1>10. ASSUME NEW j \in data'[n], j[1] = n
       PROVE  Has(tx_queue'[n], j) \/ At(tx_qubits'[n], j) # {}
  <2>1. j \in Id
    BY <1>3, <1>9, <1>10
  <2>2. Has(tx_qubits[n], j) \/ Has(queue, j)
    <3>1. CASE j = id
      BY <1>6, <3>1, AtIs
    <3>2. CASE j # id
      <4>1. SenderKey(j) /\ j \in data[j[1]]
        BY <1>9, <1>10, <2>1, <3>2 DEF AllClean, CleanOK
      <4>2. Has(tx_queue[n], j) \/ At(tx_qubits[n], j) # {}
        BY <1>10, <4>1 DEF SenderKey, Tx
      <4> QED
        BY <1>6, <3>2, <4>2, AtIs
    <3> QED
      BY <3>1, <3>2
  <2>3. Has(tx_queue'[n], j) \/ Has(tx_qubits'[n], j)
    BY <1>5, <1>6, <1>7, <1>9, <2>2, SendKeeps
  <2> QED
    BY <2>3, AtIs
<1> QED
  BY <1>3, <1>9, <1>10

LEMMA RunBodyClean ==
  ASSUME NoOwnPeer, OInv, DInv', AllClean, AllServed, NEW n \in Node, RunBody(n),
         failed' = "none"
  PROVE  (\A j \in Id : CleanOK(j)') /\ AllServed'
<1>1. PICK base, queue, k : /\ SendStep(n, base, queue, k, {})
                            /\ net' = net \cup {QubitOf(n, queue[i]) : i \in 1..k}
  BY RunBodySends
<1> QED
  BY <1>1, RunBodyKeys, SendClean

\* ReleaseQubit at the sender: the key goes with the qubit.
LEMMA ReleaseAtSenderKeys ==
  ASSUME AllClean, OInv, NEW n \in Node, NEW id \in Id, n = id[1], ReleaseAtSender(n, id),
         failed' = "none"
  PROVE  /\ \A r \in Node : \A j \in data'[r] : j \in data[r]
         /\ \A j \in data'[n] : j[1] = n => Has(tx_queue'[n], j) \/ At(tx_qubits'[n], j) # {}
<1>1. PICK s, base, queue, k : /\ s = Slot(tx_qubits[n], id)
                               /\ base = RemoveAt(tx_qubits[n], s)
                               /\ queue = tx_queue[n] /\ k = Movable(queue, base)
  OBVIOUS
<1>2. /\ Has(tx_qubits[n], id)
      /\ tx_qubits' = [tx_qubits EXCEPT ![n] = base \o FirstOf(queue, k)]
      /\ tx_queue' = [tx_queue EXCEPT ![n] = AfterFirst(queue, k)]
      /\ data' = [data EXCEPT ![n] = @ \ {id}]
  BY <1>1 DEF ReleaseAtSender
<1>3. /\ tx_queue[n] \in Seq(Item(n)) /\ tx_qubits[n] \in Seq(Item(n))
      /\ Len(tx_qubits[n]) <= NumQubits /\ Len(tx_qubits[n]) \in Nat
      /\ n \in DOMAIN tx_queue /\ n \in DOMAIN tx_qubits /\ data \in [Node -> SUBSET Id]
  BY DomainOfSeq DEF OInv, DInv, IInv, HeldOK, NodeOK, RestOK
<1>4. s \in 1..Len(tx_qubits[n]) /\ tx_qubits[n][s].id = id
  BY <1>1, <1>2, <1>3, SlotFound
<1>5. /\ base \in Seq(Item(n)) /\ Len(base) = Len(tx_qubits[n]) - 1
      /\ \A j : j # id => At(base, j) = At(tx_qubits[n], j)
  <2>0. /\ RemoveAt(tx_qubits[n], s) \in Seq(Item(n))
        /\ Len(RemoveAt(tx_qubits[n], s)) = Len(tx_qubits[n]) - 1
    BY <1>3, <1>4, RemoveAtElements
  <2>1. base \in Seq(Item(n)) /\ Len(base) = Len(tx_qubits[n]) - 1
    BY <1>1, <2>0
  <2>2. ASSUME NEW j, j # id
        PROVE  At(base, j) = At(tx_qubits[n], j)
    <3>1. tx_qubits[n][s].id # j
      BY <1>4, <2>2
    <3>2. At(RemoveAt(tx_qubits[n], s), j) = At(tx_qubits[n], j)
      BY <1>3, <1>4, <3>1, AtRemove
    <3> QED
      BY <1>1, <3>2
  <2> QED
    BY <2>1, <2>2
<1>6. k \in 0..Len(queue) /\ queue \in Seq(Item(n))
  <2>1. Len(base) <= NumQubits
    BY <1>3, <1>5, ParametersAssumption
  <2> QED
    BY <1>1, <1>3, <1>5, <2>1, MovableRange
<1>7. /\ tx_queue'[n] = AfterFirst(queue, k) /\ tx_qubits'[n] = base \o FirstOf(queue, k)
      /\ data'[n] = data[n] \ {id} /\ \A r \in Node : r # n => data'[r] = data[r]
  BY <1>2, <1>3
<1>8. ASSUME NEW j \in data'[n], j[1] = n
      PROVE  Has(tx_queue'[n], j) \/ At(tx_qubits'[n], j) # {}
  <2>1. j \in Id /\ j # id /\ j \in data[n]
    BY <1>3, <1>7, <1>8
  <2>2. Has(queue, j) \/ At(tx_qubits[n], j) # {}
    BY <1>1, <1>8, <2>1 DEF AllClean, CleanOK, SenderKey, Tx
  <2>3. Has(base, j) \/ Has(queue, j)
    BY <1>5, <2>1, <2>2, AtIs
  <2>4. Has(tx_queue'[n], j) \/ Has(tx_qubits'[n], j)
    BY <1>5, <1>6, <1>7, <2>3, SendKeeps
  <2> QED
    BY <2>4, AtIs
<1> QED
  BY <1>7, <1>8

LEMMA ReleaseAtSenderClean ==
  ASSUME NoOwnPeer, OInv, DInv', AllBound, AllClean, AllServed,
         NEW n \in Node, NEW id, NEW e \in events,
         e.fn = "ReleaseQubit", e.node = n, e.id = id, e.sender, events' = events \ {e},
         ReleaseAtSender(n, id), failed' = "none"
  PROVE  (\A j \in Id : CleanOK(j)') /\ AllServed'
<1>1. id \in Id /\ n = id[1]
  BY ReleaseAtSenderSends
<1>2. PICK base, queue, k :
        /\ SendStep(n, base, queue, k, {id}) /\ At(base, id) = {}
        /\ net' = net \cup Out(n, SentOf(n, queue, k))
        /\ queue = tx_queue[n] /\ k = Movable(queue, base) /\ Len(base) < NumQubits
  BY ReleaseAtSenderSends
<1>3. net' = net \cup {QubitOf(n, queue[i]) : i \in 1..k}
  BY <1>2 DEF Out, AllBound, SentOf
<1>4. /\ \A r \in Node : \A j \in data'[r] : j \in data[r]
      /\ \A j \in data'[n] : j[1] = n => Has(tx_queue'[n], j) \/ At(tx_qubits'[n], j) # {}
  BY <1>1, ReleaseAtSenderKeys
<1> QED
  BY <1>2, <1>3, <1>4, SendClean

LEMMA ReleaseQubitClean ==
  ASSUME NoOwnPeer, OneQubit, OInv, DInv', AllBound, AllClean, AllServed, KeptOnce,
         NEW n \in Node, NEW id, ReleaseQubit(n, id), failed' = "none"
  PROVE  (\A j \in Id : CleanOK(j)') /\ AllServed' /\ KeptOnce'
<1>1. PICK e \in events :
        /\ e.fn = "ReleaseQubit" /\ e.node = n /\ e.id = id
        /\ events' = events \ {e}
        /\ \/ e.sender /\ ReleaseAtSender(n, id) /\ UNCHANGED storage
           \/ /\ ~e.sender
              /\ CanReleaseRx(n, id) /\ ReleaseAtReceiver(n, id, {})
              /\ UNCHANGED <<tx_queue, tx_qubits, storage>>
  BY DEF ReleaseQubit, ReleaseAtSender
<1>2. KeptOnce'
  BY <1>1 DEF KeptOnce
<1>3. CASE e.sender
  BY <1>1, <1>2, <1>3, ReleaseAtSenderClean
<1>4. CASE ~e.sender
  BY <1>1, <1>2, <1>4, ReleaseAtReceiverClean
<1> QED
  BY <1>3, <1>4

-----------------------------------------------------------------------------
(***************************************************************************)
(* All steps.                                                              *)
(***************************************************************************)

\* A step that leaves a free qubit to nobody, and adds nobody who waits.
LEMMA ServedSame ==
  ASSUME AllServed, StillComing, UNCHANGED rx_queue,
         \A r \in Node : rx_qubits[r] # <<>> => rx_qubits'[r] # <<>>
  PROVE  AllServed'
<1> SUFFICES ASSUME NEW r \in Node, rx_queue'[r] # <<>>, rx_qubits'[r] = <<>>
             PROVE  \E j \in Id : Coming(r, j)'
  BY DEF AllServed, QueueServed
<1>1. PICK j \in Id : Coming(r, j)
  BY DEF AllServed, QueueServed
<1> QED
  BY <1>1 DEF StillComing

\* A result that arrives takes no place of a receiver away.
LEMMA ClassicalKeepsPlaces ==
  ASSUME OInv, NEW n \in Node, NEW id, ReceiveClassical(n, id), failed' = "none"
  PROVE  UNCHANGED rx_queue /\ \A r \in Node : rx_qubits[r] # <<>> => rx_qubits'[r] # <<>>
<1>1. PICK m \in net : \E k, it, ev, awk : \/ AtSenderStep(n, id, m, k, it, ev, awk)
                                           \/ AtReceiverStep(n, id, m, k, it, ev, awk)
  BY ClassicalSteps DEF Abort, Functions
<1>2. PICK k, it, ev, awk : \/ AtSenderStep(n, id, m, k, it, ev, awk)
                            \/ AtReceiverStep(n, id, m, k, it, ev, awk)
  BY <1>1
<1>3. CASE AtSenderStep(n, id, m, k, it, ev, awk)
  BY <1>3 DEF AtSenderStep, SameLists
<1>4. CASE AtReceiverStep(n, id, m, k, it, ev, awk)
  <2>1. RxUpdate(n, k, it) /\ UNCHANGED rx_queue
    BY <1>4 DEF AtReceiverStep
  <2>2. /\ Rx(n, it.id) # {} => Rx(n, it.id)' # {}
        /\ rx_qubits[n][k] \in Rx(n, it.id) /\ OnlyAt(n, rx_qubits, rx_qubits')
    BY <2>1, RxChanged
  <2>3. At(rx_qubits'[n], it.id) # {}
    BY <2>2, ViewsNext DEF Rx
  <2> QED
    BY <2>1, <2>2, <2>3, HeldList DEF OnlyAt
<1> QED
  BY <1>2, <1>3, <1>4

LEMMA StepClean ==
  ASSUME NoOwnPeer, NumQubits = 1, Lossy = FALSE, OInv, OInv', LiveInv, CleanInv, [Next]_vars
  PROVE  CleanInv'
<1> SUFFICES ASSUME \A n \in Node : sock'[n] # "closed"
             PROVE  (\A j \in Id : CleanOK(j)') /\ AllServed' /\ KeptOnce'
  BY DEF CleanInv, AllClean
<1>0. OneQubit /\ DInv' /\ failed' = "none" /\ sock \in [Node -> {"unbound", "bound", "closed"}]
  BY DEF OneQubit, OInv, DInv, IInv, RestOK
<1>1. ASSUME NEW n \in Node, StartApplication(n) \/ Run(n)
      PROVE  (\A j \in Id : CleanOK(j)') /\ AllServed' /\ KeptOnce'
  <2>1. RunBody(n) /\ sock[n] # "closed"
    BY <1>1 DEF StartApplication, Run
  <2>2. \A r \in Node : r # n => sock'[r] = sock[r]
    BY <1>0, <2>1 DEF RunBody, Abort
  <2>3. AllClean /\ AllServed /\ KeptOnce
    BY <2>1, <2>2 DEF CleanInv
  <2>4. UNCHANGED storage
    BY <2>1, RunBodySends DEF SendStep
  <2>5. KeptOnce'
    BY <2>3, <2>4 DEF KeptOnce
  <2> QED
    BY <1>0, <2>1, <2>3, <2>5, RunBodyClean
<1>2. ASSUME UNCHANGED sock, Running
      PROVE  AllBound /\ (\A j \in Id : LiveOK(j)) /\ AllClean /\ AllServed /\ KeptOnce
  BY <1>0, <1>2 DEF Running, AllBound, LiveInv, CleanInv
<1>3. CASE Lose \/ \E n \in Node : StopApplication(n)
  <2>1. ASSUME NEW n \in Node, StopApplication(n)
        PROVE  FALSE
    BY <1>0, <2>1 DEF StopApplication
  <2>2. ASSUME Lose
        PROVE  FALSE
    <3>1. PICK m \in net : sock[m.dst] # "bound"
      BY <2>2 DEF Lose
    <3>2. m.dst \in Node
      BY ArrivedId DEF OInv, DInv, PeerMessage, Message
    <3> QED
      BY <1>2, <2>2, <3>1, <3>2 DEF Lose, AllBound
  <2> QED
    BY <1>3, <2>1, <2>2
<1>4. CASE UNCHANGED vars
  <2>1. AllClean /\ AllServed /\ KeptOnce
    BY <1>4 DEF CleanInv, vars
  <2>2. ASSUME NEW j \in Id
        PROVE  Same(j)
    BY <1>4, ViewsNext DEF vars, held, Tx, Msgs, Evs, Kept, Rx, Queued, Same
  <2>3. \A j \in Id : CleanOK(j)' /\ \A r : Coming(r, j) => Coming(r, j)'
    BY <2>1, <2>2, SameClean DEF AllClean
  <2>4. AllServed'
    BY <1>4, <2>1, <2>3, ServedSame DEF StillComing, vars, held
  <2>5. KeptOnce'
    BY <1>4, <2>1 DEF KeptOnce, vars, held
  <2> QED
    BY <2>3, <2>4, <2>5
<1>5. ASSUME NEW n \in Node, NEW id, QubitSpoiled(n, id) \/ ClassicalSpoiled(n, id)
      PROVE  (\A j \in Id : CleanOK(j)') /\ AllServed' /\ KeptOnce'
  <2>1. PICK m \in net : /\ SendNACK(n, m) /\ Running /\ m.dst = n
                         /\ m.type \in {"Qubit", "Classical"}
    BY <1>5 DEF QubitSpoiled, ClassicalSpoiled, Arrives
  <2>2. AllClean /\ AllServed /\ KeptOnce
    BY <1>2, <2>1 DEF SendNACK
  <2>3. (\A j \in Id : CleanOK(j)') /\ StillComing
    BY <1>0, <2>1, <2>2, SpoiledClean
  <2>4. UNCHANGED <<rx_queue, rx_qubits, storage>>
    BY <2>1 DEF SendNACK, held
  <2> QED
    BY <2>2, <2>3, <2>4, ServedSame DEF KeptOnce
<1>6. ASSUME NEW n \in Node, NEW id,
             ReceiveQubit(n, id) \/ ReceiveClassical(n, id) \/ ReceiveNACK(n, id) \/ ReceiveAWK(n, id)
      PROVE  (\A j \in Id : CleanOK(j)') /\ AllServed' /\ KeptOnce'
  <2>1. Running
    BY <1>6 DEF ReceiveQubit, ReceiveClassical, ReceiveNACK, ReceiveAWK
  <2>2. UNCHANGED sock
    BY <1>6 DEF ReceiveQubit, ReceiveClassical, ReceiveNACK, ReceiveAWK, Abort
  <2>3. AllClean /\ AllServed /\ KeptOnce
    BY <1>2, <2>1, <2>2
  <2>4. CASE ReceiveQubit(n, id)
    <3>1. UNCHANGED storage
      BY <1>0, <2>4 DEF ReceiveQubit, Abort, held
    <3> QED
      BY <1>0, <2>3, <2>4, <3>1, ReceiveQubitClean DEF KeptOnce
  <2>5. CASE ReceiveClassical(n, id)
    BY <1>0, <2>3, <2>5, ReceiveClassicalClean, ClassicalKeepsPlaces, ServedSame
  <2>6. CASE ReceiveNACK(n, id)
    <3>1. UNCHANGED <<rx_queue, rx_qubits, storage>>
      BY <2>6 DEF ReceiveNACK, Abort, held
    <3> QED
      BY <1>0, <2>3, <2>6, <3>1, ReceiveNACKClean, ServedSame DEF KeptOnce
  <2>7. CASE ReceiveAWK(n, id)
    <3>1. UNCHANGED <<rx_queue, rx_qubits>>
      BY <2>7 DEF ReceiveAWK
    <3> QED
      BY <1>0, <2>3, <2>7, <3>1, ReceiveAWKClean, ServedSame
  <2> QED
    BY <1>6, <2>4, <2>5, <2>6, <2>7
<1>7. ASSUME NEW n \in Node, NEW id, Timer(n, id)
      PROVE  (\A j \in Id : CleanOK(j)') /\ AllServed' /\ KeptOnce'
  <2>1. Running
    BY <1>7 DEF Timer, SendClassical, LocalGate, ReleaseQubit
  <2>2. UNCHANGED sock
    BY <1>7 DEF Timer, SendClassical, LocalGate, ReleaseQubit, ReleaseAtSender, Abort
  <2>3. AllBound /\ (\A j \in Id : LiveOK(j)) /\ AllClean /\ AllServed /\ KeptOnce
    BY <1>2, <2>1, <2>2
  <2>4. CASE LocalGate(n, id)
    <3>1. UNCHANGED <<rx_queue, rx_qubits>>
      BY <2>4 DEF LocalGate, Abort, held
    <3> QED
      BY <1>0, <2>3, <2>4, <3>1, LocalGateClean, ServedSame
  <2> QED
    BY <1>0, <1>7, <2>3, <2>4, SendClassicalClean, ReleaseQubitClean DEF Timer
<1> QED
  BY <1>1, <1>3, <1>4, <1>5, <1>6, <1>7 DEF Next, Timer

LEMMA InitClean == Init => CleanInv
<1> SUFFICES ASSUME Init PROVE AllClean /\ AllServed /\ KeptOnce
  BY DEF CleanInv
<1>1. ASSUME NEW id \in Id
      PROVE  CleanOK(id)
  <2>1. id[1] \in Node
    BY DEF Id
  <2>2. /\ \A r \in Node : Kept(r, id) = {} /\ data[r] = {}
        /\ Evs(id) = {}
    BY DEF Init, Kept, Evs, At, Matches
  <2> QED
    BY <2>1, <2>2 DEF CleanOK, SenderKey, ReceiverKey, NotYetKept, KeptWaits, Dropped, Owed
<1>2. AllServed
  BY DEF Init, AllServed, QueueServed
<1>3. KeptOnce
  BY DEF Init, KeptOnce, Distinct
<1> QED
  BY <1>1, <1>2, <1>3 DEF AllClean

\* As long as no application is stopped and no packet is lost, with one qubit at
\* each node: when no packet is in flight and nothing is scheduled, every list
\* of every node is empty, but for the stored results of teledata.
THEOREM CleanAtRestHolds ==
  ASSUME NoOwnPeer, NumQubits = 1, Lossy = FALSE
  PROVE  Spec => []((\A n \in Node : sock[n] # "closed") => CleanAtRest)
<1>0. OneQubit
  BY DEF OneQubit
<1>1. ASSUME OInv, LiveInv, CleanInv, \A n \in Node : sock[n] # "closed", net = {}, events = {},
             NEW n \in Node
      PROVE  /\ tx_queue[n] = <<>> /\ tx_qubits[n] = <<>>
             /\ rx_queue[n] = <<>> /\ rx_qubits[n] = <<>>
             /\ data[n] = {}
             /\ \A i \in DOMAIN storage[n] : storage[n][i].protocol = "teledata"
  <2>1. ASSUME NEW id \in Id
        PROVE  /\ LiveOK(id) /\ CleanOK(id) /\ Msgs(id) = {} /\ Evs(id) = {}
               /\ ~Asked(id) /\ \A r : ~Coming(r, id)
    BY <1>1 DEF LiveInv, CleanInv, AllClean, Msgs, Evs, Asked, Coming
  <2>2. \A id \in Id : NoRx(id)
    <3> SUFFICES ASSUME NEW id \in Id, NEW r \in Node, Rx(r, id) # {} PROVE FALSE
      BY DEF NoRx
    <3>1. PICK q \in Node : Queued(q, id) # {}
      BY <2>1 DEF LiveOK, Alive
    <3>2. NoRx(id)
      BY <1>0, <1>1, <3>1, OpFacts DEF DrivenOK, QueuedOK
    <3> QED
      BY <3>2 DEF NoRx
  <2>3. \A r \in Node : rx_qubits[r] = <<>>
    <3> SUFFICES ASSUME NEW r \in Node, rx_qubits[r] # <<>> PROVE FALSE
      OBVIOUS
    <3>1. rx_qubits[r] \in Seq(Item(r))
      BY <1>1, NodeLists DEF OInv, DInv
    <3>2. PICK i \in DOMAIN rx_qubits[r] : rx_qubits[r][i] \in Item(r)
      BY <3>1
    <3>3. PICK id \in Id : id = rx_qubits[r][i].id
      BY <3>2, ItemFields
    <3>4. Rx(r, id) # {}
      BY <3>2, <3>3, AtIs DEF Rx
    <3> QED
      BY <2>2, <3>4 DEF NoRx
  <2>4. \A r \in Node : rx_queue[r] = <<>>
    BY <1>1, <2>1, <2>3 DEF CleanInv, AllServed, QueueServed
  <2>5. \A id \in Id : \A r \in Node : Queued(r, id) = {}
    BY <2>4 DEF Queued, At, Matches
  <2>6. \A id \in Id : Tx(id) = {}
    BY <2>1, <2>5 DEF LiveOK, Alive, Releasing
  <2>7. tx_qubits[n] = <<>>
    <3> SUFFICES ASSUME tx_qubits[n] # <<>> PROVE FALSE
      OBVIOUS
    <3>1. tx_qubits[n] \in Seq(Item(n))
      BY <1>1, NodeLists DEF OInv, DInv
    <3>2. PICK i \in DOMAIN tx_qubits[n] : tx_qubits[n][i] \in Item(n)
      BY <3>1
    <3>3. PICK id \in Id : id = tx_qubits[n][i].id
      BY <3>2, ItemFields
    <3>4. id[1] = n
      BY <1>1, <3>2, <3>3 DEF OInv, SenderOK
    <3>5. Tx(id) # {}
      BY <3>2, <3>3, <3>4, AtIs DEF Tx
    <3> QED
      BY <2>6, <3>5
  <2>8. tx_queue[n] = <<>>
    <3>1. tx_queue[n] # <<>> => Len(tx_qubits[n]) >= 1
      BY <1>1 DEF OInv, DInv, IInv, HeldOK, NodeOK
    <3>2. Len(tx_qubits[n]) = 0
      BY <2>7
    <3> QED
      BY <3>1, <3>2
  <2>9. data[n] = {}
    <3> SUFFICES ASSUME NEW id \in data[n] PROVE FALSE
      OBVIOUS
    <3>1. id \in Id
      BY <1>1 DEF OInv, DInv, IInv, RestOK
    <3>2. ~Has(tx_queue[n], id)
      BY <2>8 DEF Has
    <3>3. n # id[1]
      BY <2>1, <2>6, <3>1, <3>2 DEF CleanOK, SenderKey
    <3> QED
      BY <2>1, <2>2, <2>5, <3>1, <3>3 DEF CleanOK, ReceiverKey, NoRx
  <2>10. ASSUME NEW i \in DOMAIN storage[n]
         PROVE  storage[n][i].protocol = "teledata"
    <3>1. storage[n] \in Seq(Item(n))
      BY <1>1, NodeLists DEF OInv, DInv
    <3>2. storage[n][i] \in Item(n)
      BY <2>10, <3>1, DomainOfSeq, ElementOfSeq
    <3>3. PICK id \in Id : id = storage[n][i].id
      BY <3>2, ItemFields
    <3>4. storage[n][i] \in Kept(n, id)
      BY <2>10, <3>3, AtIs DEF Kept
    <3>5. n # id[1]
      BY <2>1, <3>4 DEF CleanOK, Owed
    <3>6. storage[n][i].protocol # "telegate"
      BY <2>1, <2>2, <3>4, <3>5 DEF CleanOK, KeptWaits, NoRx
    <3> QED
      BY <3>2, <3>6, ItemFields, ParametersAssumption
  <2> QED
    BY <2>3, <2>4, <2>7, <2>8, <2>9, <2>10
<1>2. LiveInv /\ CleanInv /\ OInv => ((\A n \in Node : sock[n] # "closed") => CleanAtRest)
  BY <1>1 DEF CleanAtRest
<1>3. LiveInv /\ OInv /\ OInv' /\ [Next]_vars => LiveInv'
  BY <1>0, StepLive
<1>4. LiveInv /\ CleanInv /\ OInv /\ OInv' /\ [Next]_vars => CleanInv'
  BY StepClean
<1> QED
  BY <1>2, <1>3, <1>4, InitLive, InitClean, OperationsInvariant, PTL DEF Spec
=============================================================================
