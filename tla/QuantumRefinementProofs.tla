------------------------ MODULE QuantumRefinementProofs ------------------------
(***************************************************************************)
(* Proof that the application with one qubit per direction implements      *)
(* Teleportation, for any peers and any number of operations, whatever     *)
(* packets are spoiled or lost and whatever nodes are stopped.             *)
(*                                                                         *)
(* The phases are read off the lists of the two nodes, so the proof first  *)
(* says what the lists tell of an operation (SenderLooks, ReceiverLooks),  *)
(* then what its events and packets add to that (PhaseInv), and then takes *)
(* one handler at a time.  SendStep is the step that takes more than one   *)
(* operation: it serves what waits in m_tx_queue, in its order.            *)
(***************************************************************************)
EXTENDS QuantumApplicationProofs, QuantumApplicationRefinement

-----------------------------------------------------------------------------
(***************************************************************************)
(* The application implements Teleportation.  An item of a sender that     *)
(* has its result is about to be released, and the receiver of a telegate  *)
(* that has the other result is so too; who was told that the qubit is     *)
(* corrected was told so after the sender had its result.                  *)
(***************************************************************************)
Ended(it) == it.operating = FALSE /\ (it.x \/ it.z)

Corrected(id) == \A t \in Tx(id) : Ended(t)

\* The receiver of a telegate is about to release its qubit.
LastEvent(id) == \E e \in Evs(id) : e.fn = "ReleaseQubit" /\ IsDriver(e)

SenderEnds(id) ==
  /\ (\E t \in Tx(id) : Ended(t)) => Releasing(id)
  /\ Releasing(id) => Corrected(id)
  /\ (\E m \in Msgs(id) : m.type = "AWK") \/ Kept(id[1], id) # {} \/ LastEvent(id) => Corrected(id)

RecordPhase(id, r, it) ==
  /\ it.has_qubit = TRUE
  /\ it.operating = TRUE => \E e \in Evs(id) : e.fn = "SendClassical"
  /\ it.x \/ it.z => it.operating = FALSE /\ LastEvent(id)
  /\ LastEvent(id) => it.x \/ it.z
  /\ \A t \in Tx(id) : Peers[id[1]][t.peer] = r

PhaseOK(id) ==
  /\ SenderEnds(id)
  /\ \A r \in Node : \A it \in Rx(r, id) : RecordPhase(id, r, it)
  /\ NotYetKept(id)

\* What waits in m_tx_queue is in the order of Run, and has no result.
QueueOK(n) ==
  /\ msg_count[n] <= MaxMsg[n]
  /\ \A i, j \in DOMAIN tx_queue[n] : i < j => tx_queue[n][i].id[2] < tx_queue[n][j].id[2]
  /\ \A i \in DOMAIN tx_queue[n] : tx_queue[n][i].x = FALSE /\ tx_queue[n][i].z = FALSE

PhaseInv ==
  /\ \A id \in Id : PhaseOK(id)
  /\ \A n \in Node : QueueOK(n)
  /\ \A n \in Node : sock[n] = "unbound" => msg_count[n] = 0

\* An operation that a step leaves alone, as far as its ends go.
Calm(j) ==
  /\ Tx(j)' = Tx(j) /\ Evs(j)' = Evs(j)
  /\ \A r \in Node : Rx(r, j)' = Rx(r, j) /\ Kept(r, j)' = Kept(r, j)
  /\ \A m \in Msgs(j)' : m.type = "AWK" => m \in Msgs(j)
  /\ Unmeasured(j)' => Unmeasured(j)

LEMMA CalmPhase ==
  ASSUME NEW j \in Id, PhaseOK(j), Calm(j)
  PROVE  PhaseOK(j)'
<1>0. j[1] \in Node
  BY DEF Id
<1>1. (LastEvent(j)' <=> LastEvent(j)) /\ (Releasing(j)' <=> Releasing(j))
  BY DEF Calm, LastEvent, Releasing, IsDriver
<1>2. Corrected(j)' <=> Corrected(j)
  BY DEF Calm, Corrected, Ended
<1>3. SenderEnds(j)'
  BY <1>0, <1>1, <1>2 DEF PhaseOK, SenderEnds, Calm, Ended
<1>4. \A r \in Node : \A it \in Rx(r, j)' : RecordPhase(j, r, it)'
  BY <1>1 DEF PhaseOK, RecordPhase, Calm
<1>5. NotYetKept(j)'
  BY DEF PhaseOK, NotYetKept, Calm
<1> QED
  BY <1>3, <1>4, <1>5 DEF PhaseOK

LEMMA SameCalm ==
  ASSUME NEW j \in Id, Same(j)
  PROVE  Calm(j)
<1>0. j[1] \in Node
  BY DEF Id
<1>1. Asked(j)' <=> Asked(j)
  BY <1>0, SameComing DEF Same
<1> QED
  BY <1>1 DEF Same, Calm, Unmeasured

\* The lists of the senders that are not changed.
LEMMA SameQueues ==
  ASSUME \A n \in Node : QueueOK(n), UNCHANGED <<msg_count, tx_queue>>
  PROVE  \A n \in Node : QueueOK(n)'
BY DEF QueueOK

-----------------------------------------------------------------------------
(***************************************************************************)
(* The phases of an operation, told from its items.                        *)
(***************************************************************************)
LEMMA AtConcat ==
  ASSUME NEW S, NEW a \in Seq(S), NEW b \in Seq(S), NEW id
  PROVE  At(a \o b, id) = At(a, id) \cup At(b, id)
<1>1. /\ DOMAIN a = 1..Len(a) /\ DOMAIN b = 1..Len(b) /\ Len(a) \in Nat /\ Len(b) \in Nat
      /\ DOMAIN (a \o b) = 1..(Len(a) + Len(b))
      /\ \A l \in 1..(Len(a) + Len(b)) : (a \o b)[l] = IF l <= Len(a) THEN a[l] ELSE b[l - Len(a)]
  BY ConcatProperties, DomainOfSeq
<1>2. PICK c : c = a \o b
  OBVIOUS
<1>3. ASSUME NEW it \in At(c, id)
      PROVE  it \in At(a, id) \cup At(b, id)
  <2>1. PICK l \in DOMAIN c : c[l].id = id /\ c[l] = it
    BY <1>3, AtIs
  <2>2. l \in 1..(Len(a) + Len(b))
    BY <1>1, <1>2, <2>1
  <2>3. CASE l <= Len(a)
    <3>1. l \in DOMAIN a /\ c[l] = a[l]
      BY <1>1, <1>2, <2>2, <2>3
    <3> QED
      BY <2>1, <3>1, AtIs
  <2>4. CASE ~(l <= Len(a))
    <3>1. PICK i : i = l - Len(a)
      OBVIOUS
    <3>2. i \in DOMAIN b /\ c[l] = b[i]
      BY <1>1, <1>2, <2>2, <2>4, <3>1
    <3> QED
      BY <2>1, <3>2, AtIs
  <2> QED
    BY <2>3, <2>4
<1>4. ASSUME NEW it \in At(a, id)
      PROVE  it \in At(c, id)
  <2>1. PICK l \in DOMAIN a : a[l].id = id /\ a[l] = it
    BY AtIs
  <2>2. l \in DOMAIN c /\ c[l] = a[l]
    BY <1>1, <1>2, <2>1
  <2> QED
    BY <2>1, <2>2, AtIs
<1>5. ASSUME NEW it \in At(b, id)
      PROVE  it \in At(c, id)
  <2>1. PICK i \in DOMAIN b : b[i].id = id /\ b[i] = it
    BY AtIs
  <2>2. PICK l : l = Len(a) + i
    OBVIOUS
  <2>3. l \in 1..(Len(a) + Len(b)) /\ ~(l <= Len(a)) /\ l - Len(a) = i
    BY <1>1, <2>1, <2>2
  <2>4. l \in DOMAIN c /\ c[l] = b[i]
    BY <1>1, <1>2, <2>3
  <2> QED
    BY <2>1, <2>4, AtIs
<1> QED
  BY <1>2, <1>3, <1>4, <1>5

Waiting(id) == At(tx_queue[id[1]], id)

ItemPhase(t) ==
  IF t.operating THEN "gating" ELSE IF t.x \/ t.z THEN "spent" ELSE "holding"

RecordLooks(it) ==
  IF it.operating THEN "measuring"
  ELSE IF ~it.has_qubit THEN "idle"
  ELSE IF it.x \/ it.z THEN "spent" ELSE "measured"

SenderLooks(id) ==
  /\ id[2] >= msg_count[id[1]] => SenderPhase(id) = "new"
  /\ Waiting(id) # {} => SenderPhase(id) = "waiting"
  /\ ~Unsent(id) /\ Tx(id) = {} => SenderPhase(id) = "done"
  /\ \A t \in Tx(id) : SenderPhase(id) = ItemPhase(t)

ReceiverLooks(id) ==
  /\ NoRx(id) => ReceiverPhase(id) =
       IF (\E r \in Node : Kept(r, id) # {}) \/ SenderPhase(id) \in {"spent", "done"}
       THEN "done" ELSE "idle"
  /\ \A r \in Node : \A it \in Rx(r, id) : ReceiverPhase(id) = RecordLooks(it)

JobLooks(id) ==
  /\ \A t \in Waiting(id) \cup Tx(id) : Job(id) = <<t.protocol, Peers[id[1]][t.peer]>>
  /\ Waiting(id) \cup Tx(id) = {} =>
       /\ NoRx(id) => Job(id) = <<>>
       /\ \A r \in Node : \A it \in Rx(r, id) : Job(id) = <<it.protocol, r>>

Looks(id) == SenderLooks(id) /\ ReceiverLooks(id) /\ JobLooks(id)

LEMMA WaitingFacts ==
  ASSUME OInv, NEW id \in Id
  PROVE  /\ Waiting(id) # {} <=> Has(tx_queue[id[1]], id)
         /\ \A t, u \in Waiting(id) : t = u
         /\ Waiting(id) \subseteq Item(id[1])
         /\ Waiting(id) # {} => id[2] < msg_count[id[1]] /\ Untouched(id)
         /\ msg_count[id[1]] \in Nat /\ id[2] \in Nat /\ id[1] \in Node
<1>1. id[1] \in Node /\ id[2] \in Nat
  BY DEF Id
<1>2. tx_queue[id[1]] \in Seq(Item(id[1])) /\ Distinct(tx_queue[id[1]]) /\ msg_count[id[1]] \in Nat
  BY <1>1, NodeLists DEF OInv, DInv, WaitingUnheard, IInv, RestOK
<1>3. Has(tx_queue[id[1]], id) => id[2] < msg_count[id[1]]
  BY <1>1 DEF OInv, DInv, WaitingUnheard, Has
<1>4. Has(tx_queue[id[1]], id) => Untouched(id)
  BY OpFacts DEF KeysOK, Unsent
<1> QED
  BY <1>1, <1>2, <1>3, <1>4, AtIs, AtType, DistinctAt DEF Waiting

LEMMA OneRecord ==
  ASSUME OneQubit, OInv, NEW id \in Id, NEW r \in Node, NEW q \in Node,
         NEW it \in Rx(r, id), NEW jt \in Rx(q, id)
  PROVE  q = r /\ it = jt
<1>1. q = r
  BY OpFacts DEF PlacesOK
<1>2. rx_qubits[r] \in Seq(Item(r)) /\ Len(rx_qubits[r]) <= NumQubits
  BY DEF OInv, DInv, IInv, HeldOK, NodeOK
<1>3. DOMAIN rx_qubits[r] = 1..Len(rx_qubits[r]) /\ Len(rx_qubits[r]) \in Nat
  BY <1>2, DomainOfSeq
<1>4. PICK i \in DOMAIN rx_qubits[r] : rx_qubits[r][i] = it
  BY AtIs DEF Rx
<1>5. PICK j \in DOMAIN rx_qubits[r] : rx_qubits[r][j] = jt
  BY <1>1, AtIs DEF Rx
<1>6. i = j
  BY <1>2, <1>3, <1>4, <1>5, ParametersAssumption DEF OneQubit
<1> QED
  BY <1>1, <1>4, <1>5, <1>6

LEMMA SenderLooksSo ==
  ASSUME OInv, NEW id \in Id
  PROVE  SenderLooks(id)
<1>1. /\ Waiting(id) # {} <=> Has(tx_queue[id[1]], id)
      /\ Waiting(id) # {} => id[2] < msg_count[id[1]] /\ Untouched(id)
      /\ msg_count[id[1]] \in Nat /\ id[2] \in Nat /\ id[1] \in Node
  BY WaitingFacts
<1>2. id[2] >= msg_count[id[1]] => Untouched(id)
  BY OpFacts DEF KeysOK, Unsent
<1>3. Tx(id) # {} <=> Has(tx_qubits[id[1]], id)
  BY AtIs DEF Tx
<1>4. ASSUME NEW t \in Tx(id)
      PROVE  Found(tx_qubits[id[1]], id) = t
  <2>1. tx_qubits[id[1]] \in Seq(Item(id[1]))
    BY <1>1, NodeLists DEF OInv, DInv
  <2>2. tx_qubits[id[1]][Slot(tx_qubits[id[1]], id)] \in Tx(id)
    BY <1>3, <1>4, <2>1, SlotAt DEF Tx
  <2> QED
    BY <2>2, OpFacts DEF Found
<1>5. ASSUME NEW t \in Tx(id)
      PROVE  SenderPhase(id) = ItemPhase(t)
  <2>1. ~Has(tx_queue[id[1]], id) /\ ~(id[2] >= msg_count[id[1]]) /\ Has(tx_qubits[id[1]], id)
    BY <1>1, <1>2, <1>3, <1>5 DEF Untouched
  <2> QED
    BY <1>4, <2>1 DEF SenderPhase, ItemPhase
<1>6. id[2] >= msg_count[id[1]] => SenderPhase(id) = "new"
  BY <1>1 DEF SenderPhase
<1>7. Waiting(id) # {} => SenderPhase(id) = "waiting"
  BY <1>1 DEF SenderPhase
<1>8. ~Unsent(id) /\ Tx(id) = {} => SenderPhase(id) = "done"
  BY <1>1, <1>3 DEF SenderPhase, Unsent
<1> QED
  BY <1>5, <1>6, <1>7, <1>8 DEF SenderLooks

LEMMA ReceiverLooksSo ==
  ASSUME OneQubit, OInv, NEW id \in Id
  PROVE  ReceiverLooks(id)
<1>1. \A r \in Node : Has(rx_qubits[r], id) <=> Rx(r, id) # {}
  BY AtIs DEF Rx
<1>2. NoRx(id) => Places(id) = {}
  BY <1>1 DEF NoRx, Places
<1>3. \A r \in Node : Has(storage[r], id) <=> Kept(r, id) # {}
  BY AtIs DEF Kept
<1>4. NoRx(id) => ReceiverPhase(id) =
        IF (\E r \in Node : Kept(r, id) # {}) \/ SenderPhase(id) \in {"spent", "done"}
        THEN "done" ELSE "idle"
  BY <1>2, <1>3 DEF ReceiverPhase
<1>5. ASSUME NEW r \in Node, NEW it \in Rx(r, id)
      PROVE  ReceiverPhase(id) = RecordLooks(it)
  <2>1. Places(id) = {r}
    BY <1>1, <1>5, OneRecord DEF Places
  <2>2. (CHOOSE n \in Places(id) : TRUE) = r
    BY <2>1
  <2>3. rx_qubits[r][Slot(rx_qubits[r], id)] \in Rx(r, id)
    BY <1>1, <1>5, SlotAt, NodeLists DEF Rx, OInv, DInv
  <2>4. Found(rx_qubits[r], id) = it
    BY <1>5, <2>3, OneRecord DEF Found
  <2> QED
    BY <2>1, <2>2, <2>4 DEF ReceiverPhase, RecordLooks
<1> QED
  BY <1>4, <1>5 DEF ReceiverLooks

LEMMA JobLooksSo ==
  ASSUME OneQubit, OInv, NEW id \in Id
  PROVE  JobLooks(id)
<1> DEFINE mine == tx_queue[id[1]] \o tx_qubits[id[1]]
<1>0. id[1] \in Node
  BY DEF Id
<1>1. tx_queue[id[1]] \in Seq(Item(id[1])) /\ tx_qubits[id[1]] \in Seq(Item(id[1]))
  BY <1>0, NodeLists DEF OInv, DInv
<1>2. mine \in Seq(Item(id[1]))
  BY <1>1, ConcatProperties
<1>3. At(mine, id) = Waiting(id) \cup Tx(id)
  BY <1>1, AtConcat DEF Waiting, Tx
<1>4. Has(mine, id) <=> Waiting(id) \cup Tx(id) # {}
  BY <1>3, AtIs
<1>5. \A t, u \in Waiting(id) \cup Tx(id) : t = u
  BY WaitingFacts, OpFacts DEF Untouched
<1>6. ASSUME NEW t \in Waiting(id) \cup Tx(id)
      PROVE  Job(id) = <<t.protocol, Peers[id[1]][t.peer]>>
  <2>1. Has(mine, id)
    BY <1>4, <1>6
  <2>2. mine[Slot(mine, id)] \in At(mine, id)
    BY <1>2, <2>1, SlotAt
  <2>3. Found(mine, id) = t
    BY <1>3, <1>5, <1>6, <2>2 DEF Found
  <2> HIDE DEF mine
  <2>4. Has(mine, id) => Job(id) = <<Found(mine, id).protocol, Peers[id[1]][Found(mine, id).peer]>>
    BY DEF Job, mine
  <2> QED
    BY <2>1, <2>3, <2>4
<1>7. \A r \in Node : Has(rx_qubits[r], id) <=> Rx(r, id) # {}
  BY AtIs DEF Rx
<1>8. ASSUME Waiting(id) \cup Tx(id) = {}, NoRx(id)
      PROVE  Job(id) = <<>>
  <2>1. Places(id) = {} /\ ~Has(mine, id)
    BY <1>4, <1>7, <1>8 DEF NoRx, Places
  <2> QED
    BY <2>1 DEF Job
<1>9. ASSUME Waiting(id) \cup Tx(id) = {}, NEW r \in Node, NEW it \in Rx(r, id)
      PROVE  Job(id) = <<it.protocol, r>>
  <2>1. Places(id) = {r}
    BY <1>7, <1>9, OneRecord DEF Places
  <2>2. (CHOOSE n \in Places(id) : TRUE) = r
    BY <2>1
  <2>3. rx_qubits[r][Slot(rx_qubits[r], id)] \in Rx(r, id)
    BY <1>7, <1>9, SlotAt, NodeLists DEF Rx, OInv, DInv
  <2>4. Found(rx_qubits[r], id) = it
    BY <1>9, <2>3, OneRecord DEF Found
  <2>5. ~Has(mine, id)
    BY <1>4, <1>9
  <2> QED
    BY <2>1, <2>2, <2>4, <2>5 DEF Job
<1> QED
  BY <1>6, <1>8, <1>9 DEF JobLooks

AllLook == \A id \in Id : Looks(id)

LEMMA EveryoneLooks ==
  ASSUME OneQubit
  PROVE  (OInv => AllLook) /\ (OInv' => AllLook')
<1>1. OInv => AllLook
  BY SenderLooksSo, ReceiverLooksSo, JobLooksSo DEF AllLook, Looks
<1> QED
  BY <1>1, PTL

-----------------------------------------------------------------------------
(***************************************************************************)
(* Steps of Teleportation.                                                 *)
(***************************************************************************)
\* An operation whose phases stay as they are.
Fixed(o) ==
  /\ SenderPhase(o)' = SenderPhase(o)
  /\ ReceiverPhase(o)' = ReceiverPhase(o)
  /\ Job(o)' = Job(o)

\* No operation enters or leaves m_tx_queue of its sender here.
SameTurn(o) ==
  /\ Waiting(o)' = Waiting(o)
  /\ o[2] >= msg_count'[o[1]] <=> o[2] >= msg_count[o[1]]

LEMMA OperationCases ==
  ASSUME OInv, NEW o \in Id
  PROVE  \/ o[2] >= msg_count[o[1]] /\ Untouched(o) /\ Waiting(o) = {}
         \/ Waiting(o) # {} /\ Untouched(o)
         \/ ~Unsent(o) /\ Waiting(o) = {} /\ Tx(o) = {}
         \/ ~Unsent(o) /\ Waiting(o) = {} /\ \E t \in Tx(o) : t \in Item(o[1]) /\ Tx(o) = {t}
<1>1. /\ Waiting(o) # {} <=> Has(tx_queue[o[1]], o)
      /\ Waiting(o) # {} => o[2] < msg_count[o[1]] /\ Untouched(o)
      /\ msg_count[o[1]] \in Nat /\ o[2] \in Nat
  BY WaitingFacts
<1>2. o[2] >= msg_count[o[1]] => Untouched(o) /\ Waiting(o) = {}
  BY <1>1, OpFacts DEF KeysOK, Unsent
<1>3. Tx(o) # {} => \E t \in Tx(o) : t \in Item(o[1]) /\ Tx(o) = {t}
  BY OpFacts
<1> QED
  BY <1>1, <1>2, <1>3 DEF Unsent

\* Neither its items nor what is kept of it change.
SameItems(o) ==
  /\ Tx(o)' = Tx(o)
  /\ \A r \in Node : Rx(r, o)' = Rx(r, o) /\ Kept(r, o)' = Kept(r, o)

LEMMA ItemsFixed ==
  ASSUME OneQubit, OInv, OInv', NEW o \in Id, SameItems(o), SameTurn(o)
  PROVE  Fixed(o)
<1>1. Looks(o) /\ Looks(o)'
  BY EveryoneLooks DEF AllLook
<1>2. /\ Tx(o)' = Tx(o) /\ Waiting(o)' = Waiting(o) /\ (NoRx(o)' <=> NoRx(o))
      /\ \A r \in Node : Rx(r, o)' = Rx(r, o) /\ Kept(r, o)' = Kept(r, o)
  BY DEF SameItems, SameTurn, NoRx
<1>3. Unsent(o)' <=> Unsent(o)
  <2>1. (Waiting(o) # {} <=> Has(tx_queue[o[1]], o))
    BY WaitingFacts
  <2>2. Waiting(o)' = At(tx_queue'[o[1]], o)
    BY DEF Waiting, At, Matches
  <2>3. Waiting(o)' # {} <=> Has(tx_queue'[o[1]], o)
    BY <2>2, AtIs
  <2> QED
    BY <2>1, <2>2, <2>3 DEF SameTurn, Unsent, Has, At, Matches
<1>4. SenderPhase(o)' = SenderPhase(o)
  <2>1. CASE o[2] >= msg_count[o[1]]
    BY <1>1, <2>1 DEF Looks, SenderLooks, SameTurn
  <2>2. CASE Waiting(o) # {}
    BY <1>1, <1>2, <2>2 DEF Looks, SenderLooks
  <2>3. CASE ~Unsent(o) /\ Tx(o) = {}
    BY <1>1, <1>2, <1>3, <2>3 DEF Looks, SenderLooks
  <2>4. CASE Tx(o) # {}
    BY <1>1, <1>2, <2>4 DEF Looks, SenderLooks, ItemPhase
  <2> QED
    BY <2>1, <2>2, <2>3, <2>4, OperationCases
<1>5. ReceiverPhase(o)' = ReceiverPhase(o)
  <2>1. CASE NoRx(o)
    BY <1>1, <1>2, <1>4, <2>1 DEF Looks, ReceiverLooks
  <2>2. CASE ~NoRx(o)
    BY <1>1, <1>2, <2>2 DEF Looks, ReceiverLooks, RecordLooks, NoRx
  <2> QED
    BY <2>1, <2>2
<1>6. Job(o)' = Job(o)
  <2>1. CASE Waiting(o) \cup Tx(o) # {}
    BY <1>1, <1>2, <2>1 DEF Looks, JobLooks
  <2>2. CASE Waiting(o) \cup Tx(o) = {} /\ NoRx(o)
    BY <1>1, <1>2, <2>2 DEF Looks, JobLooks
  <2>3. CASE Waiting(o) \cup Tx(o) = {} /\ ~NoRx(o)
    BY <1>1, <1>2, <2>3 DEF Looks, JobLooks, NoRx
  <2> QED
    BY <2>1, <2>2, <2>3
<1> QED
  BY <1>4, <1>5, <1>6 DEF Fixed

LEMMA CalmFixed ==
  ASSUME OneQubit, OInv, OInv', NEW o \in Id, Calm(o), SameTurn(o)
  PROVE  Fixed(o)
<1>1. SameItems(o)
  BY DEF Calm, SameItems
<1> QED
  BY <1>1, ItemsFixed

\* A step of Teleportation, or one that cannot be seen there.
TeleStep == [Tele!Next]_(Tele!vars)

LEMMA Stutters ==
  ASSUME \A o \in Op : Fixed(o)
  PROVE  TeleStep
<1>1. UNCHANGED Tele!vars
  BY DEF Fixed, Tele!vars
<1> QED
  BY <1>1 DEF TeleStep

LEMMA OpIsId ==
  ASSUME NEW o \in Op
  PROVE  o \in Id /\ o[1] \in Node /\ o[2] \in 0..(MaxMsg[o[1]] - 1)
<1>1. PICK n \in Node : o \in {n} \X (0..(MaxMsg[n] - 1))
  BY DEF Op
<1>2. MaxMsg[n] \in Nat
  BY ParametersAssumption
<1> QED
  BY <1>1, <1>2 DEF Id

LEMMA OpsOfFinite ==
  ASSUME NEW n \in Node, NEW S, \A o \in S : o \in Op /\ o[1] = n
  PROVE  IsFiniteSet(S)
<1>1. MaxMsg[n] \in Nat
  BY ParametersAssumption
<1>2. IsFiniteSet(0..(MaxMsg[n] - 1)) /\ IsFiniteSet({n})
  <2>1. PICK b : b = MaxMsg[n] - 1
    OBVIOUS
  <2>2. b \in Int /\ 0 \in Int
    BY <1>1, <2>1
  <2>3. IsFiniteSet(0..b)
    BY <2>2, FS_Interval
  <2> QED
    BY <2>1, <2>3, FS_Singleton
<1>3. IsFiniteSet({n} \X (0..(MaxMsg[n] - 1)))
  BY <1>2, FS_Product
<1>4. S \subseteq {n} \X (0..(MaxMsg[n] - 1))
  <2> SUFFICES ASSUME NEW o \in S PROVE o \in {n} \X (0..(MaxMsg[n] - 1))
    OBVIOUS
  <2>1. o \in Op /\ o[1] = n
    OBVIOUS
  <2>2. PICK k \in Node : o \in {k} \X (0..(MaxMsg[k] - 1))
    BY <2>1 DEF Op
  <2> QED
    BY <2>1, <2>2
<1> QED
  BY <1>3, <1>4, FS_Subset

LEMMA FewerThanQubits ==
  ASSUME OneQubit, NEW S, IsFiniteSet(S)
  PROVE  Cardinality(S) < NumQubits <=> NumQubits = 1 /\ S = {}
<1>1. Cardinality(S) \in Nat /\ (Cardinality(S) = 0 <=> S = {})
  BY FS_CardinalityType, FS_EmptySet
<1>2. NumQubits = 0 \/ NumQubits = 1
  BY ParametersAssumption DEF OneQubit
<1> QED
  BY <1>1, <1>2

\* Who gets the qubit of node n: the oldest that waits, when nobody holds it.
Next1(phase, n, op) ==
  /\ op[1] = n /\ phase[op] = "waiting" /\ NumQubits = 1
  /\ \A o \in Op : o[1] = n => /\ phase[o] \notin {"holding", "gating", "spent"}
                               /\ phase[o] = "waiting" => ~(o[2] < op[2])

LEMMA HandsOut ==
  ASSUME OneQubit, NEW phase, NEW n \in Node
  PROVE  Tele!HandOut(phase, n) = [op \in Op |-> IF Next1(phase, n, op) THEN "holding" ELSE phase[op]]
<1> SUFFICES ASSUME NEW op \in Op
             PROVE  Tele!HandOut(phase, n)[op] = IF Next1(phase, n, op) THEN "holding" ELSE phase[op]
  BY DEF Tele!HandOut
<1> DEFINE S == {o \in Op : /\ o[1] = n
                            /\ \/ phase[o] \in {"holding", "gating", "spent"}
                               \/ phase[o] = "waiting" /\ o[2] < op[2]}
<1>1. IsFiniteSet(S)
  <2>1. \A o \in S : o \in Op /\ o[1] = n
    OBVIOUS
  <2> HIDE DEF S
  <2> QED
    BY <2>1, OpsOfFinite
<1>2. Cardinality(S) < NumQubits <=> NumQubits = 1 /\ S = {}
  <2> HIDE DEF S
  <2> QED
    BY <1>1, FewerThanQubits
<1>3. op[1] = n /\ phase[op] = "waiting" /\ Cardinality(S) < NumQubits <=> Next1(phase, n, op)
  BY <1>2 DEF Next1
<1>4. Tele!HandOut(phase, n)[op] =
        IF op[1] = n /\ phase[op] = "waiting" /\ Cardinality(S) < NumQubits
        THEN "holding" ELSE phase[op]
  BY DEF Tele!HandOut, Tele!SenderHolds, Tele!Cardinality, Cardinality, Tele!IsFiniteSet, IsFiniteSet
<1> QED
  BY <1>3, <1>4

\* Every operation that holds a qubit is an operation of Op.
LEMMA ActiveOp ==
  ASSUME OInv, \A n \in Node : QueueOK(n), NEW id \in Id,
         id[2] < msg_count[id[1]]
  PROVE  id \in Op
<1>1. id[1] \in Node /\ id[2] \in Nat /\ msg_count[id[1]] \in Nat /\ MaxMsg[id[1]] \in Nat
  BY ParametersAssumption DEF Id, OInv, DInv, IInv, RestOK
<1>2. id[2] \in 0..(MaxMsg[id[1]] - 1)
  BY <1>1 DEF QueueOK
<1>3. id \in {id[1]} \X (0..(MaxMsg[id[1]] - 1))
  BY <1>1, <1>2 DEF Id
<1> QED
  BY <1>1, <1>3 DEF Op

LEMMA NoHandOut ==
  ASSUME OneQubit, OInv, \A n \in Node : QueueOK(n), NEW n \in Node
  PROVE  Tele!HandOut([op \in Op |-> SenderPhase(op)], n) = [op \in Op |-> SenderPhase(op)]
<1> DEFINE phase == [op \in Op |-> SenderPhase(op)]
<1> SUFFICES ASSUME NEW op \in Op, Next1(phase, n, op)
             PROVE  FALSE
  BY HandsOut
<1>1. op \in Id /\ op[1] = n /\ SenderPhase(op) = "waiting" /\ NumQubits = 1
  BY OpIsId DEF Next1
<1>2. Waiting(op) # {}
  <2>1. Looks(op)
    BY <1>1, EveryoneLooks DEF AllLook
  <2> QED
    BY <1>1, <2>1, OperationCases DEF Looks, SenderLooks, ItemPhase
<1>3. tx_qubits[n] \in Seq(Item(n)) /\ (tx_queue[n] # <<>> => Len(tx_qubits[n]) >= NumQubits)
  BY DEF OInv, DInv, IInv, HeldOK, NodeOK
<1>4. tx_queue[n] # <<>>
  BY <1>1, <1>2, HeldList DEF Waiting
<1>5. 1 \in DOMAIN tx_qubits[n]
  <2>1. DOMAIN tx_qubits[n] = 1..Len(tx_qubits[n]) /\ Len(tx_qubits[n]) \in Nat
    BY <1>3, DomainOfSeq
  <2>2. Len(tx_qubits[n]) >= 1
    <3>1. Len(tx_qubits[n]) >= NumQubits
      BY <1>3, <1>4
    <3> QED
      BY <1>1, <3>1
  <2> QED
    BY <2>1, <2>2
<1>6. tx_qubits[n][1] \in Item(n) /\ tx_qubits[n][1].id[1] = n
  <2>1. tx_qubits[n][1] \in Item(n)
    BY <1>3, <1>5, DomainOfSeq, ElementOfSeq
  <2>2. SenderOK(n)
    BY DEF OInv
  <2>3. tx_qubits[n][1].id[1] = n
    BY <1>5, <2>2 DEF SenderOK
  <2> QED
    BY <2>1, <2>3
<1>7. PICK id \in Id : id = tx_qubits[n][1].id /\ id[1] = n
  BY <1>6, ItemFields
<1>8. PICK t \in Tx(id) : TRUE
  BY <1>5, <1>7, AtIs DEF Tx
<1>9. SenderPhase(id) = ItemPhase(t)
  BY <1>8, EveryoneLooks DEF AllLook, Looks, SenderLooks
<1>10. id \in Op
  <2>1. ~Unsent(id) /\ msg_count[n] \in Nat /\ id[2] \in Nat
    BY <1>7, <1>8, OpFacts, WaitingFacts DEF KeysOK, Untouched
  <2> QED
    BY <1>7, <2>1, ActiveOp DEF Unsent
<1>11. SenderPhase(id) \in {"holding", "gating", "spent"}
  BY <1>9 DEF ItemPhase
<1> QED
  BY <1>7, <1>10, <1>11 DEF Next1

\* One operation moves on, and no qubit of a sender is freed.
LEMMA Becoming ==
  ASSUME OneQubit, OInv, \A n \in Node : QueueOK(n), NEW op \in Op, NEW s, NEW r,
         s = SenderPhase(op)', r = ReceiverPhase(op)',
         s # "done" \/ SenderPhase(op) = "done",
         \A o \in Op : o # op => Fixed(o),
         Job(op)' = IF s = "done" /\ r = "done" THEN <<>> ELSE Job(op)
  PROVE  Tele!Becomes(op, s, r)
<1> DEFINE sender == [o \in Op |-> SenderPhase(o)]
           receiver == [o \in Op |-> ReceiverPhase(o)]
           job == [o \in Op |-> Job(o)]
<1>1. [o \in Op |-> SenderPhase(o)'] = [sender EXCEPT ![op] = s]
  BY DEF Fixed
<1>2. [o \in Op |-> ReceiverPhase(o)'] = [receiver EXCEPT ![op] = r]
  BY DEF Fixed
<1>3. [o \in Op |-> Job(o)'] = IF s = "done" /\ r = "done" THEN [job EXCEPT ![op] = <<>>] ELSE job
  BY DEF Fixed
<1>4. [o \in Op |-> SenderPhase(o)'] =
        IF s = "done" THEN Tele!HandOut([sender EXCEPT ![op] = s], op[1])
        ELSE [sender EXCEPT ![op] = s]
  <2>1. CASE s = "done"
    <3>1. [sender EXCEPT ![op] = s] = sender
      BY <2>1
    <3>2. Tele!HandOut(sender, op[1]) = sender
      BY OpIsId, NoHandOut
    <3> HIDE DEF sender
    <3> QED
      BY <1>1, <2>1, <3>1, <3>2
  <2>2. CASE s # "done"
    BY <1>1, <2>2
  <2> QED
    BY <2>1, <2>2
<1> QED
  BY <1>2, <1>3, <1>4 DEF Tele!Becomes, Tele!NoJob

LEMMA Proceeds ==
  ASSUME NEW op \in Op,
         SenderPhase(op)' # SenderPhase(op) \/ ReceiverPhase(op)' # ReceiverPhase(op),
         Tele!Step(op, SenderPhase(op), ReceiverPhase(op))
  PROVE  TeleStep
BY DEF TeleStep, Tele!Next

-----------------------------------------------------------------------------
(***************************************************************************)
(* The handlers as steps of Teleportation: a packet that is spoiled, asked *)
(* for again or acknowledged, a qubit that arrives or is given back by its *)
(* receiver, a qubit that is measured, and a result that is applied.       *)
(***************************************************************************)
\* What a handler is proved to do.
PhaseStep == (\A j \in Id : PhaseOK(j)') /\ TeleStep

\* A step that no operation takes part in, as far as its ends go.
LEMMA AllCalm ==
  ASSUME OneQubit, OInv, OInv', \A j \in Id : PhaseOK(j),
         \A j \in Id : Calm(j) /\ SameTurn(j)
  PROVE  PhaseStep
<1>1. \A j \in Id : PhaseOK(j)'
  BY CalmPhase
<1>2. \A o \in Op : Fixed(o)
  BY OpIsId, CalmFixed
<1> QED
  BY <1>1, <1>2, Stutters DEF PhaseStep

LEMMA TurnKept ==
  ASSUME UNCHANGED <<msg_count, tx_queue>>
  PROVE  \A j : SameTurn(j)
<1>1. \A j : Waiting(j)' = At(tx_queue'[j[1]], j)
  BY DEF Waiting, At, Matches
<1> QED
  BY <1>1 DEF SameTurn, Waiting

\* Only operation id may do something.
LEMMA Stays ==
  ASSUME OneQubit, OInv, OInv', \A j \in Id : PhaseOK(j), NEW id \in Id, PhaseOK(id)',
         \A j \in Id : j # id => Calm(j), UNCHANGED <<msg_count, tx_queue>>, Fixed(id)
  PROVE  PhaseStep
<1>1. \A j \in Id : PhaseOK(j)'
  BY CalmPhase
<1>2. \A o \in Op : Fixed(o)
  BY OpIsId, CalmFixed, TurnKept
<1> QED
  BY <1>1, <1>2, Stutters DEF PhaseStep

LEMMA Moves ==
  ASSUME OneQubit, OInv, OInv', \A j \in Id : PhaseOK(j), \A n \in Node : QueueOK(n),
         NEW id \in Id, PhaseOK(id)', id[2] < msg_count[id[1]],
         \A j \in Id : j # id => Calm(j), UNCHANGED <<msg_count, tx_queue>>,
         NEW s, NEW r, s = SenderPhase(id)', r = ReceiverPhase(id)',
         s # "done" \/ SenderPhase(id) = "done",
         s # SenderPhase(id) \/ r # ReceiverPhase(id),
         Job(id)' = IF s = "done" /\ r = "done" THEN <<>> ELSE Job(id),
         id \in Op /\ Tele!Becomes(id, s, r) => Tele!Step(id, SenderPhase(id), ReceiverPhase(id))
  PROVE  PhaseStep
<1>1. \A j \in Id : PhaseOK(j)'
  BY CalmPhase
<1>2. \A o \in Op : o # id => Fixed(o)
  BY OpIsId, CalmFixed, TurnKept
<1>3. id \in Op
  BY ActiveOp
<1>4. Tele!Becomes(id, s, r)
  BY <1>2, <1>3, Becoming
<1>5. TeleStep
  BY <1>3, <1>4, Proceeds
<1> QED
  BY <1>1, <1>5 DEF PhaseStep

\* Packets may go, and may come if they ask for what is asked for already.
LEMMA NetCalm ==
  ASSUME UNCHANGED <<held, events, msg_count>>,
         \A p \in net' : \/ p \in net
                         \/ p.type # "AWK" /\ (Asks(p.id, p) => Asked(p.id))
  PROVE  \A j \in Id : Calm(j) /\ SameTurn(j)
<1> SUFFICES ASSUME NEW j \in Id PROVE Calm(j) /\ SameTurn(j)
  OBVIOUS
<1>0. UNCHANGED <<tx_queue, tx_qubits, rx_queue, rx_qubits, storage>> /\ j[1] \in Node
  BY DEF held, Id
<1>1. /\ Tx(j)' = Tx(j) /\ Evs(j)' = Evs(j)
      /\ \A r \in Node : /\ Rx(r, j)' = Rx(r, j) /\ Queued(r, j)' = Queued(r, j)
                         /\ Kept(r, j)' = Kept(r, j)
  BY <1>0, ViewsNext DEF Tx, Evs, Rx, Queued, Kept
<1>2. Msgs(j)' = {p \in net' : p.id = j}
  BY ViewsNext
<1>3. Asked(j)' => Asked(j)
  <2> SUFFICES ASSUME NEW p \in Msgs(j)', Asks(j, p)' PROVE Asked(j)
    BY DEF Asked
  <2>1. Asks(j, p)
    BY <1>0, <1>1 DEF Asks
  <2> QED
    BY <1>2, <2>1 DEF Asked, Msgs
<1>4. \A m \in Msgs(j)' : m.type = "AWK" => m \in Msgs(j)
  BY <1>2 DEF Msgs
<1>5. Unmeasured(j)' => Unmeasured(j)
  BY <1>1, <1>3 DEF Unmeasured
<1>6. SameTurn(j)
  BY <1>0, TurnKept
<1> QED
  BY <1>1, <1>4, <1>5, <1>6 DEF Calm

LEMMA SpoiledPhase ==
  ASSUME OneQubit, OInv, OInv', \A j \in Id : PhaseOK(j), NEW n \in Node, NEW m \in net,
         m.dst = n, m.type \in {"Qubit", "Classical"}, SendNACK(n, m)
  PROVE  PhaseStep
<1>1. PICK id \in Id : id = m.id
  BY ArrivedId DEF OInv, DInv
<1>2. PICK nack : nack = NACKFor(n, PeerIndex(n, m.src), m.id, m.protocol)
  OBVIOUS
<1>3. nack.id = id /\ nack.type = "NACK" /\ nack.dst = m.src
  <2>1. m \in PeerMessage
    BY ArrivedId DEF OInv, DInv
  <2>2. \E i \in DOMAIN Peers[n] : Peers[n][i] = m.src
    BY <2>1 DEF PeerMessage
  <2>3. Peers[n][PeerIndex(n, m.src)] = m.src
    BY <2>2 DEF PeerIndex
  <2> QED
    BY <1>1, <1>2, <2>3 DEF NACKFor, Packet
<1>4. net' = (net \ {m}) \cup {nack} /\ UNCHANGED <<held, events, msg_count>>
  BY <1>2 DEF SendNACK
<1>5. m \in Msgs(id) /\ MessageOK(id, m)
  BY <1>1, OpFacts DEF DrivenOK, Msgs
<1>6. Asks(id, nack) => Asked(id)
  <2>1. CASE m.type = "Qubit"
    BY <1>5, <2>1 DEF Asked, Asks
  <2>2. CASE m.type = "Classical"
    BY <1>3, <1>5, <2>2 DEF MessageOK, MeasuredOK, ResultOK, Asks
  <2> QED
    BY <2>1, <2>2
<1>7. \A p \in net' : p \in net \/ (p.type # "AWK" /\ (Asks(p.id, p) => Asked(p.id)))
  <2> SUFFICES ASSUME NEW p \in net', p \notin net
               PROVE  p.type # "AWK" /\ (Asks(p.id, p) => Asked(p.id))
    OBVIOUS
  <2>1. p = nack
    BY <1>4
  <2>2. p.id = id /\ p.type # "AWK"
    BY <2>1, <1>3
  <2>3. Asks(id, p) => Asked(id)
    BY <2>1, <1>6
  <2> QED
    BY <2>2, <2>3
<1>8. \A j \in Id : Calm(j) /\ SameTurn(j)
  BY <1>4, <1>7, NetCalm
<1> QED
  BY <1>8, AllCalm

LEMMA ReceiveNACKPhase ==
  ASSUME OneQubit, OInv, OInv', \A j \in Id : PhaseOK(j), NEW n \in Node, NEW id,
         ReceiveNACK(n, id), failed' = "none"
  PROVE  PhaseStep
<1> DEFINE stored == Has(storage[n], id)
           it == storage[n][LastSlot(storage[n], id)]
           qubit == tx_qubits[n][Slot(tx_qubits[n], id)]
           again == IF stored
                    THEN Packet("Classical", n, it.peer, id, it.protocol, it.x, it.z)
                    ELSE QubitOf(n, qubit)
<1>1. PICK m \in net : /\ Arrives(m, "NACK", n, id) /\ (stored \/ Has(tx_qubits[n], id))
                       /\ net' = (net \ {m}) \cup {again}
                       /\ UNCHANGED <<held, events, msg_count>>
  BY DEF ReceiveNACK, Abort
<1>2. m.type = "NACK" /\ m.dst = n /\ m.id = id /\ id \in Id
  BY <1>1, ArrivedId DEF Arrives, OInv, DInv
<1>3. PICK packet : packet = again
  OBVIOUS
<1>4. packet.id = id /\ packet.type = IF stored THEN "Classical" ELSE "Qubit"
  <2>1. CASE stored
    BY <1>3, <2>1 DEF Packet
  <2>2. CASE ~stored
    <3>1. qubit.id = id
      BY <1>1, <2>2, SlotAt, NodeLists DEF OInv, DInv
    <3> QED
      BY <1>3, <2>2, <3>1 DEF Packet, QubitOf
  <2> QED
    BY <2>1, <2>2
<1>5. net' = (net \ {m}) \cup {packet} /\ UNCHANGED <<held, events, msg_count>>
  BY <1>1, <1>3
<1>6. m \in Msgs(id) /\ MessageOK(id, m) /\ (stored <=> Kept(n, id) # {})
  BY <1>2, OpFacts, AtIs DEF DrivenOK, Kept, Msgs
<1> HIDE DEF again, stored
<1>7. Asks(id, packet) => Asked(id)
  <2>1. CASE n = id[1]
    BY <1>2, <1>4, <1>6, <2>1 DEF Asks, Asked
  <2>2. CASE n # id[1]
    <3>1. Kept(n, id) # {}
      BY <1>2, <1>6, <2>2 DEF MessageOK, MeasuredOK
    <3> QED
      BY <1>2, <1>4, <1>6, <2>2, <3>1 DEF Asks
  <2> QED
    BY <2>1, <2>2
<1>8. \A p \in net' : p \in net \/ (p.type # "AWK" /\ (Asks(p.id, p) => Asked(p.id)))
  <2> SUFFICES ASSUME NEW p \in net', p \notin net
               PROVE  p.type # "AWK" /\ (Asks(p.id, p) => Asked(p.id))
    OBVIOUS
  <2>1. p = packet
    BY <1>5
  <2>2. p.id = id /\ p.type # "AWK"
    BY <2>1, <1>4
  <2>3. Asks(id, p) => Asked(id)
    BY <2>1, <1>7
  <2> QED
    BY <2>2, <2>3
<1>9. \A j \in Id : Calm(j) /\ SameTurn(j)
  BY <1>5, <1>8, NetCalm
<1> QED
  BY <1>9, AllCalm

\* Nothing of the application moves.
LEMMA QuietPhase ==
  ASSUME OneQubit, OInv, OInv', \A j \in Id : PhaseOK(j),
         net' \subseteq net, UNCHANGED <<held, events, msg_count>>
  PROVE  PhaseStep
BY NetCalm, AllCalm

\* An acknowledgement takes the result it is for: what its sender has corrected
\* is not needed at the receiver any more.
LEMMA ReceiveAWKPhase ==
  ASSUME OneQubit, OInv, OInv', \A j \in Id : PhaseOK(j), NEW n \in Node, NEW id,
         ReceiveAWK(n, id)
  PROVE  PhaseStep
<1>1. PICK m \in net :
        /\ Arrives(m, "AWK", n, id)
        /\ net' = net \ {m}
        /\ storage' = [storage EXCEPT ![n] = WithoutClassic(storage[n], id)]
        /\ UNCHANGED <<tx_queue, tx_qubits, rx_queue, rx_qubits, data, events, msg_count>>
  BY DEF ReceiveAWK
<1>2. m.type = "AWK" /\ m.dst = n /\ m.id = id /\ id \in Id
  BY <1>1, ArrivedId DEF Arrives, OInv, DInv
<1>3. storage[n] \in Seq(Item(n)) /\ DOMAIN storage = Node
  BY NodeLists DEF OInv, DInv
<1>4. OnlyAt(n, storage, storage') /\ storage'[n] = WithoutClassic(storage[n], id)
  BY <1>1, <1>3, OnlyAtExcept
<1>5. /\ At(storage'[n], id) \subseteq At(storage[n], id)
      /\ \A j : j # id => At(storage'[n], j) = At(storage[n], j)
  BY <1>3, <1>4, AtWithoutClassic
<1>6. AwkOK(id, m) /\ id[1] \in Node /\ PhaseOK(id) /\ Msgs(id) = {m}
  BY <1>2, OpFacts DEF DrivenOK, MessageOK, Msgs, AwkOK
<1>7. /\ Tx(id)' = Tx(id) /\ Evs(id)' = Evs(id) /\ Msgs(id)' = {}
      /\ \A r \in Node : /\ Rx(r, id)' = Rx(r, id) /\ Queued(r, id)' = Queued(r, id)
                         /\ Kept(r, id)' \subseteq Kept(r, id)
  <2>1. Msgs(id)' = {p \in net' : p.id = id}
    BY ViewsNext
  <2>2. Msgs(id)' = {}
    BY <1>1, <1>6, <2>1 DEF Msgs
  <2>3. \A r \in Node : r # n => Kept(r, id)' = Kept(r, id)
    BY <1>4, ViewsNext DEF Kept, OnlyAt
  <2>4. Kept(n, id)' \subseteq Kept(n, id)
    BY <1>5, ViewsNext DEF Kept
  <2>5. \A r \in Node : Kept(r, id)' \subseteq Kept(r, id)
    BY <2>3, <2>4
  <2> QED
    BY <1>1, <2>2, <2>5, ViewsNext DEF Tx, Evs, Rx, Queued
<1>8. ~Asked(id)'
  BY <1>7 DEF Asked
<1>9. PhaseOK(id)'
  <2>1. (LastEvent(id)' <=> LastEvent(id)) /\ (Releasing(id)' <=> Releasing(id))
    BY <1>7 DEF LastEvent, Releasing, IsDriver
  <2>2. Corrected(id)' <=> Corrected(id)
    BY <1>7 DEF Corrected, Ended
  <2>3. SenderEnds(id)'
    BY <1>6, <1>7, <2>1, <2>2 DEF PhaseOK, SenderEnds, Ended
  <2>4. \A r \in Node : \A it \in Rx(r, id)' : RecordPhase(id, r, it)'
    BY <1>6, <1>7, <2>1 DEF PhaseOK, RecordPhase
  <2>5. NotYetKept(id)'
    BY <1>6, <1>7, <1>8 DEF AwkOK, NotYetKept, Unmeasured
  <2> QED
    BY <2>3, <2>4, <2>5 DEF PhaseOK
<1>10. \A j \in Id : j # id => Calm(j)
  <2>1. /\ OnlyAt(n, tx_qubits, tx_qubits') /\ OnlyAt(n, rx_qubits, rx_qubits')
        /\ OnlyAt(n, rx_queue, rx_queue')
    BY <1>1 DEF OnlyAt
  <2> QED
    BY <1>1, <1>2, <1>4, <1>5, <2>1, OthersSame, SameCalm
<1>11. Fixed(id)
  <2>1. Looks(id) /\ Looks(id)' /\ SameTurn(id)
    BY <1>1, <1>2, EveryoneLooks, TurnKept DEF AllLook
  <2>2. Waiting(id)' = Waiting(id) /\ Waiting(id) = {} /\ ~Unsent(id) /\ ~Unsent(id)'
    <3>1. ~Untouched(id)
      BY <1>6 DEF Untouched
    <3>2. ~Unsent(id) /\ Waiting(id) = {}
      BY <1>2, <3>1, OpFacts, WaitingFacts DEF KeysOK
    <3> QED
      BY <1>1, <2>1, <3>2 DEF SameTurn, Unsent, Has
  <2>3. SenderPhase(id)' = SenderPhase(id) /\ SenderPhase(id) \in {"spent", "done"}
    <3>1. CASE Tx(id) = {}
      BY <1>7, <2>1, <2>2, <3>1 DEF Looks, SenderLooks
    <3>2. CASE Tx(id) # {}
      <4>1. PICK t \in Tx(id) : TRUE
        BY <3>2
      <4>2. SenderPhase(id) = ItemPhase(t) /\ SenderPhase(id)' = ItemPhase(t)
        BY <1>7, <2>1, <4>1 DEF Looks, SenderLooks, ItemPhase
      <4>3. Ended(t)
        BY <1>2, <1>6, <4>1 DEF PhaseOK, SenderEnds, Corrected
      <4> QED
        BY <4>2, <4>3 DEF Ended, ItemPhase
    <3> QED
      BY <3>1, <3>2
  <2>4. ReceiverPhase(id)' = ReceiverPhase(id)
    <3>1. CASE NoRx(id)
      BY <1>7, <2>1, <2>3, <3>1 DEF Looks, ReceiverLooks, NoRx
    <3>2. CASE ~NoRx(id)
      BY <1>7, <2>1, <3>2 DEF Looks, ReceiverLooks, RecordLooks, NoRx
    <3> QED
      BY <3>1, <3>2
  <2>5. Job(id)' = Job(id)
    <3>1. CASE Tx(id) # {}
      BY <1>7, <2>1, <2>2, <3>1 DEF Looks, JobLooks
    <3>2. CASE Tx(id) = {} /\ NoRx(id)
      BY <1>7, <2>1, <2>2, <3>2 DEF Looks, JobLooks, NoRx
    <3>3. CASE Tx(id) = {} /\ ~NoRx(id)
      BY <1>7, <2>1, <2>2, <3>3 DEF Looks, JobLooks, NoRx
    <3> QED
      BY <3>1, <3>2, <3>3
  <2> QED
    BY <2>3, <2>4, <2>5 DEF Fixed
<1> QED
  BY <1>1, <1>2, <1>9, <1>10, <1>11, Stays

\* Who has its qubit and waits for a result.
LEMMA HoldsQubit ==
  ASSUME OneQubit, OInv, NEW id \in Id, PhaseOK(id), Holding(id)
  PROVE  /\ SenderPhase(id) = "holding" /\ id[2] < msg_count[id[1]] /\ Waiting(id) = {}
         /\ ~Unsent(id)
<1>1. PICK t \in Tx(id) : TRUE
  BY DEF Holding, Open
<1>2. ~Unsent(id) /\ Waiting(id) = {} /\ id[2] < msg_count[id[1]]
  <2>1. ~Untouched(id)
    BY <1>1 DEF Untouched
  <2>2. ~Unsent(id) /\ Waiting(id) = {}
    BY <2>1, OpFacts, WaitingFacts DEF KeysOK
  <2>3. msg_count[id[1]] \in Nat /\ id[2] \in Nat
    BY WaitingFacts
  <2> QED
    BY <2>2, <2>3 DEF Unsent
<1>3. t.operating = FALSE /\ ~Ended(t)
  BY <1>1 DEF Holding, Open, Idle, PhaseOK, SenderEnds, Releasing
<1>4. SenderPhase(id) = ItemPhase(t)
  BY <1>1, EveryoneLooks DEF AllLook, Looks, SenderLooks
<1> QED
  BY <1>2, <1>3, <1>4 DEF Ended, ItemPhase

\* Its phase lasts as long as its item does.
LEMMA StillHolds ==
  ASSUME OneQubit, OInv, OInv', NEW id \in Id, Tx(id) # {}, Tx(id)' = Tx(id)
  PROVE  SenderPhase(id)' = SenderPhase(id)
<1>1. PICK t \in Tx(id) : TRUE
  OBVIOUS
<1>2. SenderPhase(id) = ItemPhase(t)
  BY <1>1, EveryoneLooks DEF AllLook, Looks, SenderLooks
<1>3. SenderPhase(id)' = ItemPhase(t)
  <2>1. SenderLooks(id)' /\ t \in Tx(id)'
    BY <1>1, EveryoneLooks DEF AllLook, Looks
  <2> QED
    BY <2>1 DEF SenderLooks, ItemPhase
<1> QED
  BY <1>2, <1>3

\* Where there is room no operation is measured.
LEMMA FreePlace ==
  ASSUME OneQubit, OInv, \A j \in Id : PhaseOK(j), NEW n \in Node, Room(n),
         NEW id \in Op, NEW protocol, Job(id) = <<protocol, n>>,
         Tele!Becomes(id, "holding", "measuring")
  PROVE  Tele!Share(id, "holding", "idle")
<1>1. rx_qubits[n] \in Seq(Item(n)) /\ Len(rx_qubits[n]) \in Nat
  BY NodeLists DEF OInv, DInv
<1>2. NumQubits = 1 /\ Len(rx_qubits[n]) = 0
  BY <1>1, ParametersAssumption DEF Room, OneQubit
<1>3. DOMAIN rx_qubits[n] = {}
  BY <1>1, <1>2, DomainOfSeq
<1>4. ASSUME NEW o \in Op, ReceiverPhase(o) \in {"measuring", "measured", "spent"}
      PROVE  Job(o)[2] # n
  <2>1. o \in Id /\ Looks(o) /\ PhaseOK(o)
    BY OpIsId, EveryoneLooks DEF AllLook
  <2>2. PICK r \in Node : Rx(r, o) # {}
    BY <1>4, <2>1 DEF Looks, ReceiverLooks, NoRx
  <2>3. PICK it \in Rx(r, o) : TRUE
    BY <2>2
  <2>4. r # n
    BY <1>3, <2>3, AtIs DEF Rx
  <2>5. Waiting(o) = {}
    BY <2>1, <2>2, WaitingFacts DEF Untouched
  <2>6. CASE Tx(o) = {}
    BY <2>1, <2>3, <2>4, <2>5, <2>6 DEF Looks, JobLooks
  <2>7. CASE Tx(o) # {}
    <3>1. PICK t \in Tx(o) : TRUE
      BY <2>7
    <3>2. Job(o) = <<t.protocol, Peers[o[1]][t.peer]>>
      BY <2>1, <3>1 DEF Looks, JobLooks
    <3>3. Peers[o[1]][t.peer] = r
      BY <2>1, <2>3, <3>1 DEF PhaseOK, RecordPhase
    <3> QED
      BY <2>4, <3>2, <3>3
  <2> QED
    BY <2>6, <2>7
<1>5. {o \in Op : /\ [j \in Op |-> ReceiverPhase(j)][o] \in {"measuring", "measured", "spent"}
                 /\ [j \in Op |-> Job(j)][o][2] = [j \in Op |-> Job(j)][id][2]} = {}
  BY <1>4
<1>6. Cardinality({}) < NumQubits
  BY <1>2, FS_EmptySet
<1> QED
  BY <1>5, <1>6 DEF Tele!Share, Tele!ReceiverHolds, Tele!Cardinality, Cardinality,
                    Tele!IsFiniteSet, IsFiniteSet

\* A qubit arrives: its operation takes the place, or waits for it.
LEMMA ReceiveQubitPhase ==
  ASSUME OneQubit, OInv, OInv', \A j \in Id : PhaseOK(j), \A k \in Node : QueueOK(k),
         NEW n \in Node, NEW id, ReceiveQubit(n, id), failed' = "none"
  PROVE  PhaseStep
<1> DEFINE known == Has(rx_qubits[n], id)
           room == Room(n)
           Event0 == [fn |-> "SendClassical", node |-> n, id |-> id, sender |-> FALSE]
           Item0(m) == [id |-> id, peer |-> PeerIndex(n, m.src), protocol |-> m.protocol,
                        has_qubit |-> ~known /\ room, operating |-> ~known /\ room,
                        x |-> FALSE, z |-> FALSE]
<1>1. PICK m \in net :
        /\ Arrives(m, "Qubit", n, id)
        /\ ~known =>
             /\ rx_qubits' = [rx_qubits EXCEPT ![n] =
                                IF room THEN Append(rx_qubits[n], Item0(m)) ELSE rx_qubits[n]]
             /\ rx_queue' = [rx_queue EXCEPT ![n] =
                               IF room THEN rx_queue[n] ELSE Append(rx_queue[n], Item0(m))]
             /\ events' = events \cup (IF room THEN {Event0} ELSE {})
             /\ data' = [data EXCEPT ![n] = data[n] \cup {id}]
        /\ net' = net \ {m}
        /\ UNCHANGED <<tx_queue, tx_qubits, storage, msg_count>>
  BY DEF ReceiveQubit, Abort
<1>2. m.type = "Qubit" /\ m.dst = n /\ m.id = id /\ id \in Id
  BY <1>1, ArrivedId DEF Arrives, OInv, DInv
<1>3. /\ Msgs(id) = {m} /\ \A e \in Evs(id) : ~IsDriver(e)
      /\ \A r \in Node : Queued(r, id) = {}
  BY <1>2, AlonePacket
<1>4. QubitOK(id, m) /\ id[1] \in Node /\ NoRx(id) /\ PhaseOK(id)
  BY <1>2, <1>3, OpFacts DEF DrivenOK, MessageOK, QubitOK
<1>5. rx_qubits[n] \in Seq(Item(n)) /\ rx_queue[n] \in Seq(Item(n))
      /\ n \in DOMAIN rx_qubits /\ n \in DOMAIN rx_queue /\ DOMAIN data = Node
  BY NodeLists DEF OInv, DInv, IInv, RestOK
<1>6. ~known /\ At(rx_qubits[n], id) = {}
  BY <1>4, AtIs DEF Rx, NoRx
<1>7. PICK item, ev : item = Item0(m) /\ ev = Event0
  OBVIOUS
<1>8. item \in Item(n) /\ item.id = id
  <2>1. m \in PeerMessage
    BY ArrivedId DEF OInv, DInv
  <2>2. \E i \in DOMAIN Peers[n] : Peers[n][i] = m.src
    BY <1>2, <2>1 DEF PeerMessage
  <2>3. PeerIndex(n, m.src) \in DOMAIN Peers[n]
    BY <2>2 DEF PeerIndex
  <2>4. m.protocol \in Protocols
    BY <2>1, MessageFields
  <2>5. (~known /\ room) \in BOOLEAN
    OBVIOUS
  <2> QED
    BY <1>2, <1>7, <2>3, <2>4, <2>5 DEF Item
<1>9. ev.id = id
  BY <1>7
<1>10. /\ OnlyAt(n, rx_qubits, rx_qubits') /\ OnlyAt(n, rx_queue, rx_queue')
       /\ rx_qubits'[n] = IF room THEN Append(rx_qubits[n], item) ELSE rx_qubits[n]
       /\ rx_queue'[n] = IF room THEN rx_queue[n] ELSE Append(rx_queue[n], item)
       /\ events' = events \cup (IF room THEN {ev} ELSE {})
       /\ OnlyAt(n, data, data') /\ data'[n] = data[n] \cup {id}
       /\ net' = net \ {m} /\ UNCHANGED <<tx_queue, tx_qubits, storage>>
  <2>1. /\ rx_qubits' = [rx_qubits EXCEPT ![n] =
                            IF room THEN Append(rx_qubits[n], item) ELSE rx_qubits[n]]
        /\ rx_queue' = [rx_queue EXCEPT ![n] =
                           IF room THEN rx_queue[n] ELSE Append(rx_queue[n], item)]
        /\ events' = events \cup (IF room THEN {ev} ELSE {})
        /\ data' = [data EXCEPT ![n] = data[n] \cup {id}]
        /\ net' = net \ {m} /\ UNCHANGED <<tx_queue, tx_qubits, storage>>
    BY <1>1, <1>6, <1>7
  <2> HIDE DEF known, room, Event0, Item0
  <2> QED
    BY <1>5, <2>1, OnlyAtExcept
<1>a. /\ room <=> Room(n)
      /\ room => item.operating = TRUE /\ item.has_qubit = TRUE
      /\ item.x = FALSE /\ item.z = FALSE
      /\ ev.fn = "SendClassical" /\ IsDriver(ev)
  BY <1>6, <1>7 DEF IsDriver
<1>b. UNCHANGED msg_count
  BY <1>1
<1> HIDE DEF known, room, Event0, Item0
<1>11. \A j : /\ At(rx_qubits'[n], j) = IF room /\ j = id THEN At(rx_qubits[n], j) \cup {item}
                                        ELSE At(rx_qubits[n], j)
              /\ At(rx_queue'[n], j) = IF ~room /\ j = id THEN At(rx_queue[n], j) \cup {item}
                                       ELSE At(rx_queue[n], j)
  <2>1. \A j : At(Append(rx_qubits[n], item), j)
                 = IF item.id = j THEN At(rx_qubits[n], j) \cup {item} ELSE At(rx_qubits[n], j)
    BY <1>5, <1>8, AtAppend
  <2>2. \A j : At(Append(rx_queue[n], item), j)
                 = IF item.id = j THEN At(rx_queue[n], j) \cup {item} ELSE At(rx_queue[n], j)
    BY <1>5, <1>8, AtAppend
  <2> QED
    BY <1>8, <1>10, <2>1, <2>2
<1>12. \A j \in Id : j # id => Same(j)
  <2>1. /\ \A p \in net : p \in net' \/ p.id = id
        /\ \A p \in net' : p \in net \/ p.id = id
    BY <1>2, <1>10
  <2>2. \A e : e.id # id => (e \in events' <=> e \in events)
    BY <1>9, <1>10
  <2>3. OnlyAt(n, tx_qubits, tx_qubits') /\ OnlyAt(n, storage, storage')
    BY <1>10 DEF OnlyAt
  <2>4. \A j : j # id => /\ At(tx_qubits'[n], j) = At(tx_qubits[n], j)
                         /\ At(rx_qubits'[n], j) = At(rx_qubits[n], j)
                         /\ At(rx_queue'[n], j) = At(rx_queue[n], j)
                         /\ At(storage'[n], j) = At(storage[n], j)
    BY <1>10, <1>11
  <2>5. \A r \in Node : \A j \in data'[r] : j \in data[r] \/ j = id
    BY <1>10 DEF OnlyAt
  <2> QED
    BY <1>10, <2>1, <2>2, <2>3, <2>4, <2>5, OthersSame
<1>13. \A j \in Id : j # id => Calm(j)
  BY <1>12, SameCalm
<1>14. /\ Tx(id)' = Tx(id) /\ Msgs(id)' = {}
       /\ Evs(id)' = IF room THEN Evs(id) \cup {ev} ELSE Evs(id)
       /\ \A r \in Node : /\ Kept(r, id)' = Kept(r, id)
                          /\ Rx(r, id)' = IF r = n /\ room THEN {item} ELSE {}
  <2>1. Tx(id)' = Tx(id) /\ \A r \in Node : Kept(r, id)' = Kept(r, id)
    BY <1>10, ViewsNext DEF Tx, Kept
  <2>2. Evs(id)' = {e \in events' : e.id = id} /\ Msgs(id)' = {p \in net' : p.id = id}
    BY ViewsNext
  <2>3. Evs(id)' = IF room THEN Evs(id) \cup {ev} ELSE Evs(id)
    BY <1>9, <1>10, <2>2 DEF Evs
  <2>4. Msgs(id)' = {}
    BY <1>3, <1>10, <2>2 DEF Msgs
  <2>5. \A r \in Node : r # n => Rx(r, id)' = Rx(r, id)
    BY <1>10, ViewsNext DEF Rx, OnlyAt
  <2>6. Rx(n, id)' = IF room THEN {item} ELSE {}
    <3>1. Rx(n, id)' = At(rx_qubits'[n], id)
      BY ViewsNext
    <3> QED
      BY <1>6, <1>11, <3>1
  <2> QED
    BY <1>4, <2>1, <2>3, <2>4, <2>5, <2>6 DEF NoRx
<1>15. Asked(id) /\ Unmeasured(id) /\ ~Asked(id)' /\ \A r \in Node : Kept(r, id) = {}
  <2>1. Asked(id) /\ Unmeasured(id)
    BY <1>2, <1>3 DEF Asked, Asks, Unmeasured
  <2> QED
    BY <1>4, <1>14, <2>1 DEF PhaseOK, NotYetKept, Asked
<1>16. CASE ~room
  <2>1. Calm(id)
    BY <1>4, <1>14, <1>15, <1>16 DEF Calm, NoRx
  <2>2. \A j \in Id : Calm(j) /\ SameTurn(j)
    BY <1>10, <1>13, <1>b, <2>1, TurnKept
  <2> QED
    BY <2>2, AllCalm
<1>17. CASE room
  <2>1. PhaseOK(id)'
    <3>1. (Releasing(id)' <=> Releasing(id)) /\ ~LastEvent(id)' /\ (Corrected(id)' <=> Corrected(id))
      BY <1>3, <1>14, <1>a DEF Releasing, LastEvent, Corrected, Ended, IsDriver
    <3>2. SenderEnds(id)'
      BY <1>4, <1>14, <3>1 DEF PhaseOK, SenderEnds, Ended
    <3>3. \A r \in Node : \A it \in Rx(r, id)' : RecordPhase(id, r, it)'
      <4>1. RecordPhase(id, n, item)'
        BY <1>2, <1>4, <1>14, <1>17, <1>a, <3>1 DEF RecordPhase, QubitOK, Agreed
      <4> QED
        BY <1>14, <4>1
    <3>4. NotYetKept(id)'
      BY <1>14, <1>15 DEF NotYetKept
    <3> QED
      BY <3>2, <3>3, <3>4 DEF PhaseOK
  <2>2. PICK t \in Tx(id) : Tx(id) = {t}
    BY <1>2, <1>4, OpFacts DEF QubitOK, Holding, Open
  <2>3. /\ SenderPhase(id) = "holding" /\ SenderPhase(id)' = "holding"
        /\ id[2] < msg_count[id[1]] /\ Waiting(id) = {}
    BY <1>2, <1>4, <1>14, <2>1, <2>2, <1>b, HoldsQubit, StillHolds DEF QubitOK
  <2>4. Looks(id) /\ Looks(id)' /\ SameTurn(id)
    BY <1>2, <1>10, <1>b, EveryoneLooks, TurnKept DEF AllLook
  <2>5. ReceiverPhase(id) = "idle"
    BY <1>4, <1>15, <2>3, <2>4 DEF Looks, ReceiverLooks
  <2>6. ReceiverPhase(id)' = "measuring"
    <3>1. item \in Rx(n, id)'
      BY <1>14, <1>17
    <3> QED
      BY <1>17, <1>a, <2>4, <3>1 DEF Looks, ReceiverLooks, RecordLooks
  <2>7. Job(id) = <<t.protocol, n>> /\ Job(id)' = Job(id)
    <3>1. Job(id) = <<t.protocol, Peers[id[1]][t.peer]>> /\ t \in Tx(id)'
      BY <1>14, <2>2, <2>4 DEF Looks, JobLooks
    <3>2. Job(id)' = <<t.protocol, Peers[id[1]][t.peer]>>
      BY <2>4, <3>1 DEF Looks, JobLooks
    <3>3. Peers[id[1]][t.peer] = n
      BY <1>2, <1>4 DEF QubitOK, Agreed
    <3> QED
      BY <3>1, <3>2, <3>3
  <2>8. ASSUME id \in Op, Tele!Becomes(id, "holding", "measuring")
        PROVE  Tele!Step(id, "holding", "idle")
    <3>1. Room(n)
      BY <1>17, <1>a
    <3>2. Tele!Share(id, "holding", "idle")
      BY <2>7, <2>8, <3>1, FreePlace
    <3> QED
      BY <3>2 DEF Tele!Step
  <2> QED
    BY <1>2, <1>10, <1>13, <1>b, <2>1, <2>3, <2>5, <2>6, <2>7, <2>8, Moves
<1> QED
  BY <1>16, <1>17

\* Who may be corrected has given its qubit back, or is about to.
LEMMA CorrectedPhase ==
  ASSUME OneQubit, OInv, OInv', NEW id \in Id, Corrected(id), ~Untouched(id),
         UNCHANGED <<msg_count, tx_queue>>, Tx(id)' = Tx(id)
  PROVE  /\ SenderPhase(id)' = SenderPhase(id)
         /\ SenderPhase(id) = IF Tx(id) = {} THEN "done" ELSE "spent"
         /\ Waiting(id) = {} /\ Waiting(id)' = {} /\ id[2] < msg_count[id[1]]
<1>1. Looks(id) /\ Looks(id)' /\ SameTurn(id)
  BY EveryoneLooks, TurnKept DEF AllLook
<1>2. Waiting(id)' = Waiting(id) /\ Waiting(id) = {} /\ ~Unsent(id) /\ ~Unsent(id)'
  <2>1. ~Unsent(id) /\ Waiting(id) = {}
    BY OpFacts, WaitingFacts DEF KeysOK
  <2> QED
    BY <1>1, <2>1 DEF SameTurn, Unsent, Has
<1>3. id[2] < msg_count[id[1]]
  BY <1>2, WaitingFacts DEF Unsent
<1>4. CASE Tx(id) = {}
  BY <1>1, <1>2, <1>3, <1>4 DEF Looks, SenderLooks
<1>5. CASE Tx(id) # {}
  <2>1. PICK t \in Tx(id) : TRUE
    BY <1>5
  <2>2. SenderPhase(id) = ItemPhase(t) /\ SenderPhase(id)' = ItemPhase(t)
    BY <1>1, <2>1 DEF Looks, SenderLooks, ItemPhase
  <2>3. Ended(t)
    BY <2>1 DEF Corrected
  <2> QED
    BY <1>2, <1>3, <1>5, <2>2, <2>3 DEF Ended, ItemPhase
<1> QED
  BY <1>4, <1>5

\* The operations that a release at a receiver leaves alone, or asks for.
LEMMA ReleaseOthersCalm ==
  ASSUME OneQubit, OInv, NEW n \in Node, NEW id \in Id, NEW sent,
         CanReleaseRx(n, id), ReleaseAtReceiver(n, id, sent), \A p \in sent : p.id = id,
         OnlyAt(n, storage, storage'), \A j : j # id => At(storage'[n], j) = At(storage[n], j),
         \A e : e.id # id => (e \in events' <=> e \in events), UNCHANGED tx_qubits
  PROVE  \A j \in Id : j # id => Calm(j)
<1>1. PICK queue \in Seq(Item(n)) : queue = rx_queue[n] /\ Distinct(queue)
  BY NodeLists DEF OInv, DInv
<1>2. PICK h, nack : h = Head(queue) /\ nack = NACKFor(n, h.peer, h.id, h.protocol)
  OBVIOUS
<1>3. /\ nack.id = h.id /\ nack.type = "NACK"
      /\ Promoted(n) = IF queue = <<>> THEN {} ELSE {nack}
  BY <1>1, <1>2 DEF NACKFor, Packet, Promoted
<1>4. n \in DOMAIN rx_qubits /\ n \in DOMAIN rx_queue
  BY NodeLists DEF OInv, DInv
<1>5. /\ OnlyAt(n, rx_qubits, rx_qubits') /\ rx_qubits'[n] = ReleasedRx(n, id)
      /\ OnlyAt(n, rx_queue, rx_queue')
      /\ rx_queue'[n] = IF queue = <<>> THEN queue ELSE Tail(queue)
      /\ net' \subseteq net \cup sent \cup Promoted(n)
  <2>1. net' \subseteq net \cup sent \cup Promoted(n)
    BY DEF ReleaseAtReceiver, Out
  <2>2. OnlyAt(n, rx_qubits, rx_qubits') /\ rx_qubits'[n] = ReleasedRx(n, id)
    BY <1>4, OnlyAtExcept DEF ReleaseAtReceiver
  <2>3. /\ OnlyAt(n, rx_queue, rx_queue')
        /\ rx_queue'[n] = IF queue = <<>> THEN queue ELSE Tail(queue)
    BY <1>1, <1>4, OnlyAtExcept DEF ReleaseAtReceiver
  <2> QED
    BY <2>1, <2>2, <2>3
<1> SUFFICES ASSUME NEW j \in Id, j # id PROVE Calm(j)
  OBVIOUS
<1>6. Evs(j)' = {e \in events' : e.id = j} /\ Msgs(j)' = {m \in net' : m.id = j}
  BY ViewsNext
<1>7. Tx(j)' = Tx(j) /\ Evs(j)' = Evs(j) /\ j[1] \in Node
  BY <1>6, ViewsNext DEF Tx, Evs, Id
<1>8. Msgs(j)' \subseteq Msgs(j) \cup {p \in Promoted(n) : p.id = j}
  BY <1>5, <1>6 DEF Msgs
<1>9. \A r \in Node : r # n => /\ Rx(r, j)' = Rx(r, j) /\ Queued(r, j)' = Queued(r, j)
                               /\ Kept(r, j)' = Kept(r, j)
  BY <1>5, ViewsNext DEF Rx, Queued, Kept, OnlyAt
<1>10. Kept(n, j)' = Kept(n, j)
  BY ViewsNext DEF Kept
<1>11. Rx(n, j)' = Rx(n, j)
  <2>1. Has(rx_qubits[n], id)
    BY DEF CanReleaseRx
  <2>2. Rx(n, j)' = At(ReleasedRx(n, id), j)
    BY <1>5, ViewsNext
  <2> QED
    BY <2>1, <2>2, ReleasedRxAt DEF Rx
<1>12. Queued(n, j)' \subseteq Queued(n, j)
  <2>1. Queued(n, j)' = At(rx_queue'[n], j) /\ Queued(n, j) = At(queue, j)
    BY <1>1, ViewsNext DEF Queued
  <2>2. CASE queue = <<>>
    BY <1>5, <2>1, <2>2
  <2>3. CASE queue # <<>>
    <3>1. /\ At(Tail(queue), Head(queue).id) = {}
          /\ \A i : i # Head(queue).id => At(Tail(queue), i) = At(queue, i)
      <4>1. queue \in Seq(Item(n)) /\ queue # <<>> /\ Distinct(queue)
        BY <1>1, <2>3
      <4> QED
        BY <4>1, AtTail
    <3>2. rx_queue'[n] = Tail(queue)
      BY <1>5, <2>3
    <3> QED
      BY <2>1, <3>1, <3>2
  <2> QED
    BY <2>2, <2>3
<1>13. queue # <<>> => h \in At(queue, h.id)
  <2> SUFFICES ASSUME queue # <<>> PROVE h \in At(queue, h.id)
    OBVIOUS
  <2>1. At(queue, Head(queue).id) = {Head(queue)}
    BY <1>1, AtTail
  <2> QED
    BY <1>2, <2>1
<1>14. Unmeasured(j)' => Unmeasured(j)
  <2>1. ASSUME NEW m \in Msgs(j)', Asks(j, m)'
        PROVE  Unmeasured(j)
    <3>1. CASE m \in Msgs(j)
      <4>1. Asks(j, m)
        BY <1>7, <1>9, <1>10, <2>1 DEF Asks
      <4> QED
        BY <3>1, <4>1 DEF Unmeasured, Asked
    <3>2. CASE m \notin Msgs(j)
      <4>1. queue # <<>> /\ h.id = j
        BY <1>3, <1>8, <2>1, <3>2
      <4>2. Queued(n, j) # {}
        BY <1>1, <1>13, <4>1 DEF Queued
      <4> QED
        BY <4>2 DEF Unmeasured
    <3> QED
      BY <3>1, <3>2
  <2>2. Asked(j)' => Unmeasured(j)
    BY <2>1 DEF Asked
  <2>3. \A r \in Node : Queued(r, j)' # {} => Queued(r, j) # {}
    BY <1>9, <1>12
  <2> QED
    BY <1>7, <2>2, <2>3 DEF Unmeasured
<1>15. \A m \in Msgs(j)' : m.type = "AWK" => m \in Msgs(j)
  BY <1>3, <1>8
<1> QED
  BY <1>7, <1>9, <1>10, <1>11, <1>14, <1>15 DEF Calm

\* The receiver of a telegate is corrected and gives its qubit back.
LEMMA ReleaseReceiverPhase ==
  ASSUME OneQubit, OInv, OInv', \A j \in Id : PhaseOK(j), \A k \in Node : QueueOK(k),
         NEW n \in Node, NEW id, NEW e \in events,
         e.fn = "ReleaseQubit", e.node = n, e.id = id, ~e.sender, events' = events \ {e},
         CanReleaseRx(n, id), ReleaseAtReceiver(n, id, {}),
         UNCHANGED <<tx_queue, tx_qubits, storage, msg_count>>
  PROVE  PhaseStep
<1>1. IsDriver(e) /\ id \in Id /\ e \in Evs(id)
  BY DEF IsDriver, Evs, OInv, DInv, IInv, RestOK, Event
<1>2. /\ \A m \in Msgs(id) : m.type = "AWK"
      /\ \A f \in Evs(id) : IsDriver(f) => f = e
      /\ \A r \in Node : Queued(r, id) = {}
  BY <1>1, AloneEvent
<1>3. n # id[1] /\ Rx(n, id) # {} /\ PhaseOK(id) /\ id[1] \in Node
  BY <1>1, OpFacts DEF DrivenOK, EventOK
<1>4. Msgs(id)' = Msgs(id) /\ \A r \in Node : Queued(r, id)' = {} /\ Rx(r, id)' = {}
  <2>1. \A p \in {} : p.id = id
    OBVIOUS
  <2>2. /\ Msgs(id)' \subseteq Msgs(id) \cup {} /\ \A m \in Msgs(id) : m \in Msgs(id)'
        /\ \A r \in Node : Queued(r, id)' \subseteq Queued(r, id)
        /\ NoRx(id)'
    BY <1>1, <1>2, <2>1, ReleasedViews
  <2> QED
    BY <1>2, <2>2 DEF NoRx
<1>5. /\ Tx(id)' = Tx(id) /\ Evs(id)' = Evs(id) \ {e}
      /\ \A r \in Node : Kept(r, id)' = Kept(r, id)
  BY ViewsNext DEF Tx, Evs, Kept
<1>6. ~Unmeasured(id)'
  <2>1. ~Asked(id)'
    BY <1>2, <1>4 DEF Asked, Asks
  <2> QED
    BY <1>2, <1>4, <1>5, <2>1 DEF Unmeasured, IsDriver
<1>7. PhaseOK(id)'
  <2>1. (Releasing(id)' <=> Releasing(id)) /\ ~LastEvent(id)' /\ (Corrected(id)' <=> Corrected(id))
    BY <1>1, <1>2, <1>5 DEF Releasing, LastEvent, Corrected, Ended, IsDriver
  <2>2. SenderEnds(id)'
    BY <1>3, <1>4, <1>5, <2>1 DEF PhaseOK, SenderEnds, Ended
  <2>3. \A r \in Node : \A it \in Rx(r, id)' : RecordPhase(id, r, it)'
    BY <1>4
  <2>4. NotYetKept(id)'
    BY <1>6 DEF NotYetKept
  <2> QED
    BY <2>2, <2>3, <2>4 DEF PhaseOK
<1>8. \A j \in Id : j # id => Calm(j)
  <2>1. \A p \in {} : p.id = id
    OBVIOUS
  <2>2. \A f : f.id # id => (f \in events' <=> f \in events)
    OBVIOUS
  <2>3. OnlyAt(n, storage, storage') /\ \A j : j # id => At(storage'[n], j) = At(storage[n], j)
    BY DEF OnlyAt
  <2> QED
    BY <1>1, <2>1, <2>2, <2>3, ReleaseOthersCalm
<1>9. LastEvent(id) /\ Corrected(id) /\ ~Untouched(id)
  BY <1>1, <1>3 DEF LastEvent, PhaseOK, SenderEnds, Untouched
<1>10. /\ SenderPhase(id)' = SenderPhase(id)
       /\ SenderPhase(id) = IF Tx(id) = {} THEN "done" ELSE "spent"
       /\ Waiting(id) = {} /\ Waiting(id)' = {} /\ id[2] < msg_count[id[1]]
  BY <1>1, <1>5, <1>9, CorrectedPhase
<1>11. Looks(id) /\ Looks(id)'
  BY <1>1, EveryoneLooks DEF AllLook
<1>12. ReceiverPhase(id) = "spent"
  <2>1. PICK it \in Rx(n, id) : TRUE
    BY <1>3
  <2>2. RecordPhase(id, n, it)
    BY <1>3, <2>1 DEF PhaseOK
  <2> QED
    BY <1>9, <1>11, <2>1, <2>2 DEF Looks, ReceiverLooks, RecordLooks, RecordPhase
<1>13. ReceiverPhase(id)' = "done"
  <2>1. NoRx(id)'
    BY <1>4 DEF NoRx
  <2> QED
    BY <1>10, <1>11, <2>1 DEF Looks, ReceiverLooks
<1>14. Job(id)' = IF SenderPhase(id) = "done" THEN <<>> ELSE Job(id)
  <2>1. CASE Tx(id) = {}
    <3>1. NoRx(id)' /\ Tx(id)' = {}
      BY <1>4, <1>5, <2>1 DEF NoRx
    <3> QED
      BY <1>10, <1>11, <2>1, <3>1 DEF Looks, JobLooks
  <2>2. CASE Tx(id) # {}
    BY <1>5, <1>10, <1>11, <2>2 DEF Looks, JobLooks
  <2> QED
    BY <2>1, <2>2
<1>15. ASSUME id \in Op, Tele!Becomes(id, SenderPhase(id), "done")
       PROVE  Tele!Step(id, SenderPhase(id), "spent")
  BY <1>15 DEF Tele!Step, Tele!ReleaseReceiver
<1> QED
  BY <1>1, <1>7, <1>8, <1>10, <1>12, <1>13, <1>14, <1>15, Moves

\* An operation has one record, also after a step.
OneRecordEach ==
  \A id \in Id : \A r, q \in Node : \A it \in Rx(r, id), jt \in Rx(q, id) : q = r /\ jt = it

LEMMA OneRecordLater ==
  ASSUME OneQubit
  PROVE  OInv' => OneRecordEach'
<1>1. OInv => OneRecordEach
  BY OneRecord DEF OneRecordEach
<1> QED
  BY <1>1, PTL

LEMMA OneRecordNext ==
  ASSUME OneQubit, OInv', NEW id \in Id, NEW r \in Node, NEW it \in Rx(r, id)'
  PROVE  \A q \in Node : \A jt \in Rx(q, id)' : q = r /\ jt = it
BY OneRecordLater DEF OneRecordEach

\* The receiver has measured its qubit: it keeps the qubit of a telegate.
LEMMA SendClassicalPhase ==
  ASSUME OneQubit, OInv, OInv', \A j \in Id : PhaseOK(j), \A r \in Node : QueueOK(r),
         NEW n \in Node, NEW id, SendClassical(n, id), failed' = "none"
  PROVE  PhaseStep
<1> DEFINE s == Slot(rx_qubits[n], id)
           it == rx_qubits[n][s]
           result0 == [it EXCEPT !.operating = FALSE, !.x = TRUE, !.z = it.protocol = "teledata"]
           packet0 == Packet("Classical", n, it.peer, id, it.protocol, TRUE,
                             it.protocol = "teledata")
           Measured ==
             /\ storage' = [storage EXCEPT ![n] = Append(storage[n], result0)]
             /\ IF DoneAtOnce(it.protocol)
                THEN CanReleaseRx(n, id) /\ ReleaseAtReceiver(n, id, {packet0})
                ELSE /\ rx_qubits' = [rx_qubits EXCEPT ![n][s].operating = FALSE]
                     /\ net' = net \cup Out(n, {packet0})
                     /\ UNCHANGED rx_queue
<1>1. PICK e \in events :
        /\ e.fn = "SendClassical" /\ e.node = n /\ e.id = id
        /\ events' = events \ {e}
        /\ Has(rx_qubits[n], id) /\ UNCHANGED <<tx_queue, tx_qubits, msg_count>>
        /\ IF it.operating THEN Measured ELSE UNCHANGED <<held, net>>
  BY DEF SendClassical, held
<1>2. IsDriver(e) /\ id \in Id /\ e \in Evs(id)
  BY <1>1 DEF IsDriver, Evs, OInv, DInv, IInv, RestOK, Event
<1>3. EventOK(id, e) /\ PlacesOK(id) /\ PhaseOK(id) /\ id[1] \in Node
  BY <1>2, OpFacts DEF DrivenOK
<1>4. n # id[1] /\ Rx(n, id) # {}
  BY <1>1, <1>3 DEF EventOK
<1>5. /\ \A f \in Evs(id) : IsDriver(f) => f = e
      /\ Msgs(id) = {} /\ \A r \in Node : Queued(r, id) = {}
  BY <1>1, <1>2, AloneEvent
<1>6. rx_qubits[n] \in Seq(Item(n)) /\ storage[n] \in Seq(Item(n)) /\ n \in DOMAIN storage
      /\ n \in DOMAIN rx_qubits /\ DOMAIN data = Node
  BY NodeLists DEF OInv, DInv, IInv, RestOK
<1>7. PICK k : k = s
  OBVIOUS
<1>8. k \in 1..Len(rx_qubits[n]) /\ rx_qubits[n][k].id = id /\ rx_qubits[n][k] \in Item(n)
      /\ rx_qubits[n][k] \in At(rx_qubits[n], id)
  BY <1>1, <1>6, <1>7, SlotAt
<1>9. PICK item \in Item(n) : item = rx_qubits[n][k] /\ item \in Rx(n, id) /\ item.id = id
  BY <1>8 DEF Rx
<1>10. UNCHANGED <<tx_queue, tx_qubits, msg_count>> /\ events' = events \ {e}
  BY <1>1
<1>11. PICK result, packet :
         /\ result = [item EXCEPT !.operating = FALSE, !.x = TRUE, !.z = item.protocol = "teledata"]
         /\ packet = Packet("Classical", n, item.peer, id, item.protocol, TRUE,
                            item.protocol = "teledata")
  OBVIOUS
<1>12. /\ result \in Item(n) /\ result.id = id /\ result.protocol = item.protocol
       /\ packet.id = id /\ packet.type = "Classical"
  BY <1>9, <1>11 DEF Item, Packet
<1>13. /\ item.operating = TRUE =>
            /\ storage' = [storage EXCEPT ![n] = Append(storage[n], result)]
            /\ IF DoneAtOnce(item.protocol)
               THEN CanReleaseRx(n, id) /\ ReleaseAtReceiver(n, id, {packet})
               ELSE /\ rx_qubits' = [rx_qubits EXCEPT ![n][k].operating = FALSE]
                    /\ net' = net \cup Out(n, {packet})
                    /\ UNCHANGED rx_queue
       /\ item.operating = FALSE => UNCHANGED <<held, net>>
  BY <1>1, <1>7, <1>9, <1>11
<1> HIDE DEF s, it, result0, packet0, Measured
<1>14. Tx(id)' = Tx(id) /\ Evs(id)' = Evs(id) \ {e} /\ \A f \in Evs(id)' : ~IsDriver(f)
  <2>1. Tx(id)' = Tx(id) /\ Evs(id)' = Evs(id) \ {e}
    BY <1>10, ViewsNext DEF Tx, Evs
  <2> QED
    BY <1>5, <2>1 DEF IsDriver
<1>15. \A r \in Node : Kept(r, id) = {}
  BY <1>1, <1>2, <1>3 DEF PhaseOK, NotYetKept, Unmeasured
<1>16. \A r \in Node : r # n => Rx(r, id) = {}
  BY <1>3, <1>4 DEF PlacesOK
<1>17. /\ (Releasing(id)' <=> Releasing(id)) /\ ~LastEvent(id) /\ ~LastEvent(id)'
       /\ (Corrected(id)' <=> Corrected(id))
  BY <1>1, <1>2, <1>5, <1>14 DEF Releasing, LastEvent, Corrected, Ended, IsDriver
<1>18. RecordPhase(id, n, item) /\ item.has_qubit = TRUE
  BY <1>3, <1>9 DEF PhaseOK, RecordPhase
<1>19. item.x = FALSE /\ item.z = FALSE
  BY <1>9, <1>17, <1>18 DEF RecordPhase, Item
<1>20. \A f : f.id # id => (f \in events' <=> f \in events)
  BY <1>1
<1>21. ASSUME item.operating = FALSE
       PROVE  PhaseStep
  <2>1. UNCHANGED <<tx_queue, tx_qubits, rx_queue, rx_qubits, storage, net>>
    BY <1>13, <1>21 DEF held
  <2>2. \A r \in Node : /\ Rx(r, id)' = Rx(r, id) /\ Kept(r, id)' = Kept(r, id)
                        /\ Queued(r, id)' = Queued(r, id)
    BY <2>1, ViewsNext DEF Rx, Kept, Queued
  <2>3. Msgs(id)' = {}
    BY <1>5, <2>1, ViewsNext DEF Msgs
  <2>4. SenderEnds(id)'
    BY <1>3, <1>14, <1>17, <2>2, <2>3 DEF PhaseOK, SenderEnds, Ended
  <2>5. RecordPhase(id, n, item)'
    BY <1>14, <1>17, <1>18, <1>19, <1>21 DEF RecordPhase
  <2>6. \A r \in Node : \A jt \in Rx(r, id)' : RecordPhase(id, r, jt)'
    <3> SUFFICES ASSUME NEW r \in Node, NEW jt \in Rx(r, id) PROVE RecordPhase(id, r, jt)'
      BY <2>2
    <3>1. r = n /\ jt = item
      BY <1>2, <1>9, OneRecord
    <3> QED
      BY <2>5, <3>1
  <2>7. NotYetKept(id)'
    BY <1>15, <2>2 DEF NotYetKept
  <2>8. PhaseOK(id)'
    BY <2>4, <2>6, <2>7 DEF PhaseOK
  <2>9. \A j \in Id : j # id => Calm(j)
    <3>1. /\ OnlyAt(n, tx_qubits, tx_qubits') /\ OnlyAt(n, rx_qubits, rx_qubits')
          /\ OnlyAt(n, rx_queue, rx_queue') /\ OnlyAt(n, storage, storage')
      BY <2>1 DEF OnlyAt
    <3> SUFFICES ASSUME NEW j \in Id, j # id PROVE Calm(j)
      OBVIOUS
    <3>2. /\ Tx(j)' = Tx(j) /\ Evs(j)' = Evs(j) /\ Msgs(j)' = Msgs(j) /\ j[1] \in Node
          /\ \A r \in Node : /\ Rx(r, j)' = Rx(r, j) /\ Queued(r, j)' = Queued(r, j)
                             /\ Kept(r, j)' = Kept(r, j)
      <4>1. Evs(j)' = Evs(j)
        BY <1>20, ViewsNext DEF Evs
      <4> QED
        BY <2>1, <4>1, ViewsNext DEF Tx, Rx, Queued, Kept, Msgs, Id
    <3>3. Asked(j)' <=> Asked(j)
      BY <3>2 DEF Asked, Asks
    <3> QED
      BY <3>2, <3>3 DEF Calm, Unmeasured
  <2>10. Fixed(id)
    BY <1>2, <1>10, <1>14, <2>2, ItemsFixed, TurnKept DEF SameItems
  <2> QED
    BY <1>2, <1>10, <2>8, <2>9, <2>10, Stays
<1>22. ASSUME item.operating = TRUE
       PROVE  /\ OnlyAt(n, storage, storage')
              /\ \A j : j # id => At(storage'[n], j) = At(storage[n], j)
              /\ \A r \in Node : Kept(r, id)' = IF r = n THEN {result} ELSE {}
  <2>1. OnlyAt(n, storage, storage') /\ storage'[n] = Append(storage[n], result)
    BY <1>6, <1>13, <1>22, OnlyAtExcept
  <2>2. \A j : At(Append(storage[n], result), j)
                 = IF result.id = j THEN At(storage[n], j) \cup {result} ELSE At(storage[n], j)
    BY <1>6, <1>12, AtAppend
  <2>3. Kept(n, id)' = {result}
    BY <1>12, <1>15, <2>1, <2>2, ViewsNext DEF Kept
  <2>4. \A r \in Node : r # n => Kept(r, id)' = {}
    BY <1>15, <2>1, ViewsNext DEF Kept, OnlyAt
  <2>5. \A j : j # id => At(storage'[n], j) = At(storage[n], j)
    BY <1>12, <2>1, <2>2
  <2> QED
    BY <2>1, <2>3, <2>4, <2>5
<1>23. Holding(id) /\ Kept(id[1], id)' = Kept(id[1], id)
  <2>1. Holding(id) /\ Kept(id[1], id) = {}
    BY <1>1, <1>3, <1>15 DEF EventOK
  <2>2. CASE item.operating = TRUE
    BY <1>3, <1>4, <1>22, <2>1, <2>2
  <2>3. CASE item.operating = FALSE
    BY <1>13, <2>1, <2>3, ViewsNext DEF held, Kept
  <2> QED
    BY <1>9, <2>1, <2>2, <2>3 DEF Item
<1>24. /\ SenderPhase(id) = "holding" /\ SenderPhase(id)' = "holding"
       /\ id[2] < msg_count[id[1]] /\ Waiting(id) = {} /\ Tx(id) # {}
  <2>1. Tx(id) # {}
    BY <1>23 DEF Holding, Open
  <2> QED
    BY <1>2, <1>3, <1>14, <1>23, <2>1, HoldsQubit, StillHolds
<1>25. PICK t \in Tx(id) : t.protocol = item.protocol
  BY <1>3, <1>9, <1>24 DEF PlacesOK, RecordOK
<1>26. Looks(id) /\ Looks(id)'
  BY <1>2, EveryoneLooks DEF AllLook
<1>27. /\ Job(id) = <<item.protocol, Peers[id[1]][t.peer]>> /\ Job(id)' = Job(id)
  <2>1. Job(id) = <<t.protocol, Peers[id[1]][t.peer]>> /\ t \in Tx(id)'
    BY <1>14, <1>25, <1>26 DEF Looks, JobLooks
  <2>2. Job(id)' = <<t.protocol, Peers[id[1]][t.peer]>>
    BY <1>26, <2>1 DEF Looks, JobLooks
  <2> QED
    BY <1>25, <2>1, <2>2
<1>28. ASSUME item.operating = TRUE
       PROVE  ReceiverPhase(id) = "measuring"
  BY <1>9, <1>26, <1>28 DEF Looks, ReceiverLooks, RecordLooks
<1>29. ASSUME id \in Op, NEW r,
              r = IF DoneAtOnce(item.protocol) THEN "done" ELSE "measured",
              Tele!Becomes(id, "holding", r)
       PROVE  Tele!Step(id, "holding", "measuring")
  <2>1. item.protocol \in {"teledata", "telegate"}
    BY <1>9, ParametersAssumption DEF Item
  <2>2. Tele!Telegate(id) <=> item.protocol = "telegate"
    BY <1>27, <1>29 DEF Tele!Telegate, Tele!NoJob
  <2>3. r = IF Tele!Telegate(id) THEN "measured" ELSE "done"
    BY <1>29, <2>1, <2>2 DEF DoneAtOnce
  <2>4. Tele!Measure(id, "holding", "measuring")
    BY <1>29, <2>3 DEF Tele!Measure
  <2> QED
    BY <2>4 DEF Tele!Step
<1>30. ASSUME Msgs(id)' \subseteq {packet}, \A r \in Node : Queued(r, id)' = {}
       PROVE  SenderEnds(id)' /\ NotYetKept(id)'
  <2>1. SenderEnds(id)'
    BY <1>3, <1>12, <1>14, <1>17, <1>23, <1>30 DEF PhaseOK, SenderEnds, Ended
  <2>2. ~Asked(id)'
    BY <1>12, <1>30 DEF Asked, Asks
  <2>3. ~Unmeasured(id)'
    BY <1>14, <1>30, <2>2 DEF Unmeasured, IsDriver
  <2> QED
    BY <2>1, <2>3 DEF NotYetKept
<1>31. CASE item.operating = TRUE /\ DoneAtOnce(item.protocol)
  <2>1. CanReleaseRx(n, id) /\ ReleaseAtReceiver(n, id, {packet})
    BY <1>13, <1>31
  <2>2. \A p \in {packet} : p.id = id
    BY <1>12
  <2>3. /\ Msgs(id)' \subseteq Msgs(id) \cup {packet}
        /\ \A r \in Node : Queued(r, id)' \subseteq Queued(r, id)
        /\ NoRx(id)'
    BY <1>2, <1>5, <2>1, <2>2, ReleasedViews
  <2>4. SenderEnds(id)' /\ NotYetKept(id)'
    BY <1>5, <1>30, <2>3
  <2>5. PhaseOK(id)'
    BY <2>3, <2>4 DEF PhaseOK, NoRx
  <2>6. \A j \in Id : j # id => Calm(j)
    <3>1. /\ OnlyAt(n, storage, storage') /\ \A j : j # id => At(storage'[n], j) = At(storage[n], j)
          /\ UNCHANGED tx_qubits
      BY <1>10, <1>22, <1>31
    <3> QED
      BY <1>2, <1>20, <2>1, <2>2, <3>1, ReleaseOthersCalm
  <2>7. ReceiverPhase(id)' = "done"
    <3>1. Kept(n, id)' # {}
      BY <1>22, <1>31
    <3> QED
      BY <1>26, <2>3, <3>1 DEF Looks, ReceiverLooks
  <2>8. id \in Op /\ Tele!Becomes(id, "holding", "done") => Tele!Step(id, "holding", "measuring")
    BY <1>29, <1>31
  <2> QED
    BY <1>2, <1>10, <1>24, <1>27, <1>28, <1>31, <2>5, <2>6, <2>7, <2>8, Moves
<1>32. CASE item.operating = TRUE /\ ~DoneAtOnce(item.protocol)
  <2>1. PICK up : up = [item EXCEPT !.operating = FALSE]
    OBVIOUS
  <2>2. /\ rx_qubits' = [rx_qubits EXCEPT ![n] = [rx_qubits[n] EXCEPT ![k] = up]] /\ up.id = id
        /\ up.operating = FALSE /\ up.has_qubit = TRUE /\ up.x = FALSE /\ up.z = FALSE
    BY <1>9, <1>13, <1>18, <1>19, <1>32, <2>1 DEF Item
  <2>3. OnlyAt(n, rx_qubits, rx_qubits') /\ rx_qubits'[n] = [rx_qubits[n] EXCEPT ![k] = up]
    BY <1>6, <2>2, OnlyAtExcept
  <2>4. \A j : j # id => At(rx_qubits'[n], j) = At(rx_qubits[n], j)
    <3> SUFFICES ASSUME NEW j, j # id PROVE At(rx_qubits'[n], j) = At(rx_qubits[n], j)
      OBVIOUS
    <3>1. rx_qubits[n][k].id # j /\ up.id # j
      BY <1>8, <2>2
    <3> QED
      BY <1>6, <1>8, <2>3, <3>1, ExceptOther
  <2>5. up \in Rx(n, id)'
    <3>1. up \in At(rx_qubits'[n], id)
      BY <1>6, <1>8, <2>2, <2>3, ExceptOwn
    <3> QED
      BY <3>1, ViewsNext
  <2>6. /\ \A p \in net : p \in net' \/ p.id = id
        /\ \A p \in net' : p \in net \/ p = packet
        /\ OnlyAt(n, tx_qubits, tx_qubits') /\ OnlyAt(n, rx_queue, rx_queue')
        /\ tx_qubits'[n] = tx_qubits[n] /\ rx_queue' = rx_queue
    BY <1>10, <1>13, <1>32 DEF OnlyAt, Out
  <2>7. \A j \in Id : j # id => Calm(j)
    <3> SUFFICES ASSUME NEW j \in Id, j # id PROVE Calm(j)
      OBVIOUS
    <3>1. Evs(j)' = Evs(j)
      BY <1>20, ViewsNext DEF Evs
    <3>2. Msgs(j)' = Msgs(j)
      <4>1. Msgs(j)' = {p \in net' : p.id = j}
        BY ViewsNext
      <4>2. packet.id # j
        BY <1>12
      <4> QED
        BY <2>6, <4>1, <4>2 DEF Msgs
    <3>3. \A r \in Node : r # n => /\ Rx(r, j)' = Rx(r, j) /\ Kept(r, j)' = Kept(r, j)
      BY <1>22, <1>32, <2>3, ViewsNext DEF Rx, Kept, OnlyAt
    <3>4. Rx(n, j)' = Rx(n, j) /\ Kept(n, j)' = Kept(n, j)
      BY <1>22, <1>32, <2>4, ViewsNext DEF Rx, Kept
    <3>5. Tx(j)' = Tx(j) /\ \A r \in Node : Queued(r, j)' = Queued(r, j)
      BY <1>10, <2>6, ViewsNext DEF Tx, Queued
    <3>6. j[1] \in Node /\ \A r \in Node : Rx(r, j)' = Rx(r, j) /\ Kept(r, j)' = Kept(r, j)
      BY <3>3, <3>4 DEF Id
    <3>7. Asked(j)' <=> Asked(j)
      BY <3>2, <3>6 DEF Asked, Asks
    <3> QED
      BY <3>1, <3>2, <3>5, <3>6, <3>7 DEF Calm, Unmeasured
  <2>8. SenderEnds(id)' /\ NotYetKept(id)'
    <3>1. Msgs(id)' \subseteq {packet}
      <4>1. Msgs(id)' = {p \in net' : p.id = id}
        BY ViewsNext
      <4> QED
        BY <1>5, <2>6, <4>1 DEF Msgs
    <3>2. \A r \in Node : Queued(r, id)' = {}
      BY <1>5, <2>6, ViewsNext DEF Queued
    <3> QED
      BY <1>30, <3>1, <3>2
  <2>9. RecordPhase(id, n, up)'
    BY <1>14, <1>17, <1>18, <2>2 DEF RecordPhase
  <2>10. \A r \in Node : \A jt \in Rx(r, id)' : r = n /\ jt = up
    <3>1. \A r \in Node : \A jt \in Rx(r, id)' : r = n /\ jt = up
      BY <1>2, <2>5, OneRecordNext
    <3> QED
      BY <3>1
  <2>11. PhaseOK(id)'
    BY <2>8, <2>9, <2>10 DEF PhaseOK
  <2>12. ReceiverPhase(id)' = "measured"
    BY <1>26, <2>2, <2>5 DEF Looks, ReceiverLooks, RecordLooks
  <2>13. id \in Op /\ Tele!Becomes(id, "holding", "measured") => Tele!Step(id, "holding", "measuring")
    BY <1>29, <1>32
  <2> QED
    BY <1>2, <1>10, <1>24, <1>27, <1>28, <1>32, <2>7, <2>11, <2>12, <2>13, Moves
<1> QED
  BY <1>9, <1>21, <1>31, <1>32 DEF Item

\* A record that no event is scheduled for is that of a measured qubit.
LEMMA MeasuredPhase ==
  ASSUME OneQubit, OInv, NEW id \in Id, PhaseOK(id), NEW r \in Node, NEW it \in Rx(r, id),
         \A e \in Evs(id) : e.fn \notin {"SendClassical", "ReleaseQubit"} \/ ~IsDriver(e)
  PROVE  /\ it.operating = FALSE /\ it.has_qubit = TRUE /\ it.x = FALSE /\ it.z = FALSE
         /\ \A t \in Tx(id) : Peers[id[1]][t.peer] = r
         /\ ReceiverPhase(id) = "measured"
<1>1. RecordPhase(id, r, it) /\ it \in Item(r)
  BY OpFacts DEF PhaseOK
<1>2. ~LastEvent(id) /\ ~\E e \in Evs(id) : e.fn = "SendClassical"
  BY DEF LastEvent, IsDriver
<1>3. it.operating = FALSE /\ it.has_qubit = TRUE /\ it.x = FALSE /\ it.z = FALSE
  BY <1>1, <1>2 DEF RecordPhase, Item
<1>4. ReceiverPhase(id) = "measured"
  BY <1>3, EveryoneLooks DEF AllLook, Looks, ReceiverLooks, RecordLooks
<1> QED
  BY <1>1, <1>3, <1>4 DEF RecordPhase

\* The sender has the result of the receiver: it gates, or corrects.
LEMMA SenderHasResult ==
  ASSUME OneQubit, OInv, OInv', \A j \in Id : PhaseOK(j), \A r \in Node : QueueOK(r),
         NEW n \in Node, NEW id \in Id, NEW m \in net, NEW k, NEW it, NEW ev, NEW awk,
         AtSenderStep(n, id, m, k, it, ev, awk)
  PROVE  PhaseStep
<1>1. /\ m.type = "Classical" /\ m.dst = n /\ m.id = id /\ id[1] = n
      /\ it.id = id /\ it.peer = tx_qubits[n][k].peer /\ it.protocol = tx_qubits[n][k].protocol
      /\ it.x = m.x /\ it.z = m.z
      /\ it.operating = (m.protocol = "telegate" \/ tx_qubits[n][k].operating)
      /\ TxUpdate(n, k, it) /\ SameLists(rx_qubits, rx_qubits')
      /\ UNCHANGED <<msg_count, tx_queue, rx_queue, data>>
  BY DEF AtSenderStep
<1>2. /\ OnlyAt(n, storage, storage') /\ At(storage'[n], id) \subseteq At(storage[n], id)
      /\ \A j : j # id => At(storage'[n], j) = At(storage[n], j)
      /\ net' = (net \ {m}) \cup IF m.protocol = "telegate" THEN {} ELSE {awk}
      /\ events' = events \cup {ev}
  BY DEF AtSenderStep
<1>3. /\ ev.id = id /\ ev.sender = TRUE /\ awk.id = id /\ awk.type = "AWK"
      /\ ev.fn = IF m.protocol = "telegate" THEN "LocalGate" ELSE "ReleaseQubit"
  BY DEF AtSenderStep
<1>4. /\ Msgs(id) = {m} /\ \A e \in Evs(id) : ~IsDriver(e)
      /\ \A r \in Node : Queued(r, id) = {}
  BY <1>1, AlonePacket
<1>5. MeasuredOK(id, m.src, m.protocol) /\ m.x = TRUE /\ PhaseOK(id) /\ m.src \in Node
  <2>1. MessageOK(id, m)
    BY <1>4, OpFacts DEF DrivenOK
  <2>2. m.src \in Node
    BY ArrivedId, MessageFields DEF OInv, DInv
  <2> QED
    BY <1>1, <2>1, <2>2 DEF MessageOK
<1>6. Holding(id) /\ Evs(id) = {} /\ Kept(n, id) = {}
  BY <1>1, <1>4, <1>5 DEF MeasuredOK, Holding, Open
<1>7. /\ OnlyAt(n, tx_qubits, tx_qubits') /\ Tx(id)' = {it}
      /\ \A j : j # id => At(tx_qubits'[n], j) = At(tx_qubits[n], j)
  BY <1>1, TxChanged
<1>8. PICK old \in Tx(id) : old = tx_qubits[n][k]
  <2>1. k \in 1..Len(tx_qubits[n]) /\ tx_qubits[n][k].id = id /\ tx_qubits[n] \in Seq(Item(n))
    BY <1>1, NodeLists DEF TxUpdate, OInv, DInv
  <2> QED
    BY <1>1, <2>1, AtIs, DomainOfSeq DEF Tx
<1>9. /\ old.operating = FALSE /\ old.protocol = m.protocol /\ Tx(id) = {old}
      /\ Peers[id[1]][old.peer] = m.src
  BY <1>5, <1>6, <1>8, OpFacts DEF Holding, Idle, MeasuredOK, Agreed
<1>10. Msgs(id)' \subseteq {awk} /\ Evs(id)' = {ev}
  <2>1. Evs(id)' = {e \in events' : e.id = id} /\ Msgs(id)' = {p \in net' : p.id = id}
    BY ViewsNext
  <2>2. Msgs(id)' \subseteq {awk}
    BY <1>2, <1>4, <2>1 DEF Msgs
  <2> QED
    BY <1>2, <1>3, <1>6, <2>1, <2>2 DEF Evs
<1>11. /\ Kept(n, id)' = {} /\ \A r \in Node : r # n => Kept(r, id)' = Kept(r, id)
       /\ \A r \in Node : Rx(r, id)' = Rx(r, id) /\ Queued(r, id)' = {}
  <2>1. Kept(n, id)' = {}
    BY <1>2, <1>6, ViewsNext DEF Kept
  <2>2. \A r \in Node : r # n => Kept(r, id)' = Kept(r, id)
    BY <1>2, ViewsNext DEF Kept, OnlyAt
  <2>3. \A r \in Node : Rx(r, id)' = Rx(r, id) /\ Queued(r, id)' = {}
    BY <1>1, <1>4, ViewsNext DEF Rx, SameLists, Queued
  <2> QED
    BY <2>1, <2>2, <2>3
<1>12. ~Unmeasured(id)'
  <2>1. ~Asked(id)'
    BY <1>3, <1>10 DEF Asked, Asks
  <2> QED
    BY <1>3, <1>10, <1>11, <2>1 DEF Unmeasured
<1>13. \A j \in Id : j # id => Calm(j)
  <2>1. OnlyAt(n, rx_qubits, rx_qubits') /\ OnlyAt(n, rx_queue, rx_queue')
    BY <1>1 DEF OnlyAt, SameLists
  <2>2. \A j : j # id => /\ At(tx_qubits'[n], j) = At(tx_qubits[n], j)
                         /\ At(rx_qubits'[n], j) = At(rx_qubits[n], j)
                         /\ At(rx_queue'[n], j) = At(rx_queue[n], j)
                         /\ At(storage'[n], j) = At(storage[n], j)
    BY <1>1, <1>2, <1>7 DEF SameLists
  <2>3. /\ \A p \in net : p \in net' \/ p.id = id
        /\ \A p \in net' : p \in net \/ p.id = id
        /\ \A e : e.id # id => (e \in events' <=> e \in events)
        /\ \A r \in Node : \A j \in data'[r] : j \in data[r] \/ j = id
    BY <1>1, <1>2, <1>3
  <2>4. UNCHANGED tx_queue
    BY <1>1
  <2> QED
    BY <1>2, <1>7, <2>1, <2>2, <2>3, <2>4, OthersSame, SameCalm
<1>14. /\ SenderPhase(id) = "holding" /\ id[2] < msg_count[id[1]] /\ Waiting(id) = {}
  BY <1>5, <1>6, HoldsQubit
<1>15. Looks(id) /\ Looks(id)'
  BY EveryoneLooks DEF AllLook
<1>16. Job(id) = <<m.protocol, m.src>> /\ Job(id)' = Job(id)
  <2>1. Job(id) = <<old.protocol, Peers[id[1]][old.peer]>>
    BY <1>8, <1>15 DEF Looks, JobLooks
  <2>2. Job(id)' = <<it.protocol, Peers[id[1]][it.peer]>>
    BY <1>7, <1>15 DEF Looks, JobLooks
  <2> QED
    BY <1>1, <1>8, <1>9, <2>1, <2>2
<1>17. CASE m.protocol = "telegate"
  <2>1. PICK rec \in Rx(m.src, id) : TRUE
    BY <1>5, <1>17 DEF MeasuredOK
  <2>2. /\ rec.operating = FALSE /\ rec.has_qubit = TRUE /\ rec.x = FALSE /\ rec.z = FALSE
        /\ ReceiverPhase(id) = "measured"
    BY <1>5, <1>6, MeasuredPhase
  <2>3. /\ it.operating = TRUE /\ ev.fn = "LocalGate" /\ IsDriver(ev)
    BY <1>1, <1>3, <1>17 DEF IsDriver
  <2>4. Msgs(id)' = {}
    <3>1. Msgs(id)' = {p \in net' : p.id = id}
      BY ViewsNext
    <3> QED
      BY <1>2, <1>4, <1>17, <3>1 DEF Msgs
  <2>5. ~Releasing(id)' /\ ~LastEvent(id)'
    BY <1>10, <2>3 DEF Releasing, LastEvent
  <2>6. SenderEnds(id)'
    BY <1>1, <1>7, <1>11, <2>3, <2>4, <2>5 DEF SenderEnds, Ended
  <2>7. RecordPhase(id, m.src, rec)'
    BY <1>1, <1>7, <1>8, <1>9, <2>2, <2>5 DEF RecordPhase
  <2>8. \A r \in Node : \A jt \in Rx(r, id)' : RecordPhase(id, r, jt)'
    <3> SUFFICES ASSUME NEW r \in Node, NEW jt \in Rx(r, id) PROVE RecordPhase(id, r, jt)'
      BY <1>11
    <3>1. r = m.src /\ jt = rec
      BY <1>5, OneRecord
    <3> QED
      BY <2>7, <3>1
  <2>9. PhaseOK(id)'
    BY <1>12, <2>6, <2>8 DEF PhaseOK, NotYetKept
  <2>10. SenderPhase(id)' = "gating"
    BY <1>7, <1>15, <2>3 DEF Looks, SenderLooks, ItemPhase
  <2>11. ReceiverPhase(id)' = "measured"
    BY <1>5, <1>11, <1>15, <2>1, <2>2 DEF Looks, ReceiverLooks, RecordLooks
  <2>12. ASSUME id \in Op, Tele!Becomes(id, "gating", "measured")
         PROVE  Tele!Step(id, "holding", "measured")
    BY <2>12 DEF Tele!Step, Tele!BeginGate
  <2> QED
    BY <1>1, <1>13, <1>14, <1>16, <2>2, <2>9, <2>10, <2>11, <2>12, Moves
<1>18. CASE m.protocol # "telegate"
  <2>1. NoRx(id) /\ Kept(m.src, id) # {}
    BY <1>5, <1>18 DEF MeasuredOK
  <2>2. ReceiverPhase(id) = "done"
    BY <1>5, <1>15, <2>1 DEF Looks, ReceiverLooks
  <2>3. /\ Ended(it) /\ ~IsDriver(ev)
    BY <1>1, <1>3, <1>5, <1>8, <1>9, <1>18 DEF Ended, IsDriver
  <2>4. Releasing(id)' /\ Corrected(id)'
    BY <1>7, <1>10, <2>3 DEF Releasing, Corrected, Ended
  <2>5. PhaseOK(id)'
    <3>1. SenderEnds(id)'
      BY <2>4 DEF SenderEnds
    <3>2. NoRx(id)'
      BY <1>11, <2>1 DEF NoRx
    <3> QED
      BY <1>12, <3>1, <3>2 DEF PhaseOK, NotYetKept, NoRx
  <2>6. SenderPhase(id)' = "spent"
    BY <1>7, <1>15, <2>3 DEF Looks, SenderLooks, ItemPhase, Ended
  <2>7. ReceiverPhase(id)' = "done"
    <3>1. NoRx(id)'
      BY <1>11, <2>1 DEF NoRx
    <3> QED
      BY <1>15, <2>6, <3>1 DEF Looks, ReceiverLooks
  <2>8. ASSUME id \in Op, Tele!Becomes(id, "spent", "done")
        PROVE  Tele!Step(id, "holding", "done")
    <3>1. ~Tele!Telegate(id)
      BY <1>16, <1>18, <2>8 DEF Tele!Telegate
    <3> QED
      BY <2>8, <3>1 DEF Tele!Step, Tele!CorrectTeledata
  <2> QED
    BY <1>1, <1>13, <1>14, <1>16, <2>2, <2>5, <2>6, <2>7, <2>8, Moves
<1> QED
  BY <1>17, <1>18

\* The receiver of a telegate has the result of the sender.
LEMMA ReceiverHasResult ==
  ASSUME OneQubit, OInv, OInv', \A j \in Id : PhaseOK(j), \A r \in Node : QueueOK(r),
         NEW n \in Node, NEW id \in Id, NEW m \in net, NEW k, NEW it, NEW ev, NEW awk,
         AtReceiverStep(n, id, m, k, it, ev, awk)
  PROVE  PhaseStep
<1>1. /\ m.type = "Classical" /\ m.dst = n /\ m.id = id /\ id[1] # n
      /\ it.id = id /\ RxUpdate(n, k, it) /\ it.x = m.x /\ it.z = m.z
      /\ it.operating = rx_qubits[n][k].operating /\ it.has_qubit = rx_qubits[n][k].has_qubit
      /\ SameLists(tx_qubits, tx_qubits')
      /\ UNCHANGED <<msg_count, tx_queue, rx_queue, data>>
  BY DEF AtReceiverStep
<1>2. /\ OnlyAt(n, storage, storage') /\ At(storage'[n], id) \subseteq At(storage[n], id)
      /\ \A j : j # id => At(storage'[n], j) = At(storage[n], j)
      /\ net' = (net \ {m}) \cup {awk} /\ events' = events \cup {ev}
  BY DEF AtReceiverStep
<1>3. /\ ev.id = id /\ ev.sender = FALSE /\ ev.fn = "ReleaseQubit" /\ IsDriver(ev)
      /\ awk.id = id /\ awk.type = "AWK"
  BY DEF AtReceiverStep, IsDriver
<1>4. /\ Msgs(id) = {m} /\ \A e \in Evs(id) : ~IsDriver(e)
      /\ \A r \in Node : Queued(r, id) = {}
  BY <1>1, AlonePacket
<1>5. ResultOK(id, m) /\ PhaseOK(id) /\ id[1] \in Node
  <2>1. MessageOK(id, m)
    BY <1>4, OpFacts DEF DrivenOK
  <2> QED
    BY <1>1, <2>1, OpFacts DEF MessageOK
<1>6. Corrected(id) /\ ~Untouched(id) /\ m.z = TRUE
  BY <1>5 DEF ResultOK, PhaseOK, SenderEnds, Untouched
<1>7. /\ OnlyAt(n, rx_qubits, rx_qubits') /\ rx_qubits[n][k] \in Rx(n, id)
      /\ \A j : j # id => At(rx_qubits'[n], j) = At(rx_qubits[n], j)
  BY <1>1, RxChanged
<1>8. PICK old \in Rx(n, id) : old = rx_qubits[n][k]
  BY <1>7
<1>9. /\ old.operating = FALSE /\ old.has_qubit = TRUE
      /\ \A t \in Tx(id) : Peers[id[1]][t.peer] = n
      /\ ReceiverPhase(id) = "measured"
  BY <1>4, <1>5, MeasuredPhase
<1>10. it \in Rx(n, id)'
  <2>1. PICK seq \in Seq(Item(n)) : seq = rx_qubits[n] /\ n \in DOMAIN rx_qubits
    BY NodeLists DEF OInv, DInv
  <2>2. /\ k \in 1..Len(seq) /\ seq[k].id = id
        /\ rx_qubits' = [rx_qubits EXCEPT ![n] = [seq EXCEPT ![k] = it]]
    BY <1>1, <2>1 DEF RxUpdate
  <2>3. rx_qubits'[n] = [seq EXCEPT ![k] = it]
    BY <2>1, <2>2
  <2>4. it.id = id
    BY <1>1
  <2>5. it \in At([seq EXCEPT ![k] = it], id)
    BY <2>2, <2>4, ExceptOwn
  <2> QED
    BY <2>3, <2>5, ViewsNext
<1>11. \A r \in Node : \A jt \in Rx(r, id)' : r = n /\ jt = it
  BY <1>10, OneRecordNext
<1>12. Msgs(id)' \subseteq {awk} /\ Evs(id)' = Evs(id) \cup {ev}
  <2>1. Evs(id)' = {e \in events' : e.id = id} /\ Msgs(id)' = {p \in net' : p.id = id}
    BY ViewsNext
  <2>2. Msgs(id)' \subseteq {awk}
    BY <1>2, <1>4, <2>1 DEF Msgs
  <2> QED
    BY <1>2, <1>3, <2>1, <2>2 DEF Evs
<1>13. Tx(id)' = Tx(id) /\ \A r \in Node : Queued(r, id)' = {}
  BY <1>1, <1>4, <1>5, ViewsNext DEF Tx, SameLists, Queued
<1>14. ~Unmeasured(id)'
  <2>1. ~Asked(id)'
    BY <1>3, <1>12 DEF Asked, Asks
  <2> QED
    BY <1>3, <1>4, <1>12, <1>13, <2>1 DEF Unmeasured, IsDriver
<1>15. (Releasing(id)' <=> Releasing(id)) /\ LastEvent(id)' /\ Corrected(id)'
  BY <1>3, <1>6, <1>12, <1>13 DEF Releasing, LastEvent, Corrected, Ended
<1>16. PhaseOK(id)'
  <2>1. SenderEnds(id)'
    BY <1>5, <1>13, <1>15 DEF PhaseOK, SenderEnds, Ended
  <2>2. RecordPhase(id, n, it)'
    BY <1>1, <1>6, <1>8, <1>9, <1>13, <1>15 DEF RecordPhase
  <2> QED
    BY <1>11, <1>14, <2>1, <2>2 DEF PhaseOK, NotYetKept
<1>17. \A j \in Id : j # id => Calm(j)
  <2>1. OnlyAt(n, tx_qubits, tx_qubits') /\ OnlyAt(n, rx_queue, rx_queue')
    BY <1>1 DEF OnlyAt, SameLists
  <2>2. \A j : j # id => /\ At(tx_qubits'[n], j) = At(tx_qubits[n], j)
                         /\ At(rx_qubits'[n], j) = At(rx_qubits[n], j)
                         /\ At(rx_queue'[n], j) = At(rx_queue[n], j)
                         /\ At(storage'[n], j) = At(storage[n], j)
    BY <1>1, <1>2, <1>7 DEF SameLists
  <2>3. /\ \A p \in net : p \in net' \/ p.id = id
        /\ \A p \in net' : p \in net \/ p.id = id
        /\ \A e : e.id # id => (e \in events' <=> e \in events)
        /\ \A r \in Node : \A j \in data'[r] : j \in data[r] \/ j = id
    BY <1>1, <1>2, <1>3
  <2>4. UNCHANGED tx_queue
    BY <1>1
  <2> QED
    BY <1>2, <1>7, <2>1, <2>2, <2>3, <2>4, OthersSame, SameCalm
<1>18. /\ SenderPhase(id)' = SenderPhase(id) /\ SenderPhase(id) \in {"spent", "done"}
       /\ Waiting(id) = {} /\ Waiting(id)' = {} /\ id[2] < msg_count[id[1]]
  <2>1. UNCHANGED <<msg_count, tx_queue>>
    BY <1>1
  <2> QED
    BY <1>6, <1>13, <2>1, CorrectedPhase
<1>19. Looks(id) /\ Looks(id)'
  BY EveryoneLooks DEF AllLook
<1>20. ReceiverPhase(id)' = "spent"
  BY <1>1, <1>6, <1>8, <1>9, <1>10, <1>19 DEF Looks, ReceiverLooks, RecordLooks
<1>21. Job(id)' = Job(id)
  <2>1. CASE Tx(id) = {}
    <3>1. Job(id) = <<old.protocol, n>> /\ Job(id)' = <<it.protocol, n>>
      BY <1>8, <1>10, <1>13, <1>18, <1>19, <2>1 DEF Looks, JobLooks
    <3> QED
      BY <1>1, <1>8, <3>1 DEF RxUpdate
  <2>2. CASE Tx(id) # {}
    BY <1>13, <1>18, <1>19, <2>2 DEF Looks, JobLooks
  <2> QED
    BY <2>1, <2>2
<1>22. ASSUME id \in Op, Tele!Becomes(id, SenderPhase(id), "spent")
       PROVE  Tele!Step(id, SenderPhase(id), "measured")
  BY <1>18, <1>22 DEF Tele!Step, Tele!CorrectTelegate
<1> QED
  BY <1>1, <1>9, <1>16, <1>17, <1>18, <1>20, <1>21, <1>22, Moves

LEMMA ReceiveClassicalPhase ==
  ASSUME OneQubit, OInv, OInv', \A j \in Id : PhaseOK(j), \A r \in Node : QueueOK(r),
         NEW n \in Node, NEW id, ReceiveClassical(n, id), failed' = "none"
  PROVE  PhaseStep
<1>1. PICK m \in net : \E k, it, ev, awk : \/ AtSenderStep(n, id, m, k, it, ev, awk)
                                           \/ AtReceiverStep(n, id, m, k, it, ev, awk)
  BY ClassicalSteps DEF Abort, Functions
<1>2. PICK k, it, ev, awk : \/ AtSenderStep(n, id, m, k, it, ev, awk)
                            \/ AtReceiverStep(n, id, m, k, it, ev, awk)
  BY <1>1
<1>3. id \in Id
  BY ClassicalSteps DEF Abort
<1> QED
  BY <1>2, <1>3, SenderHasResult, ReceiverHasResult

\* The sender of a telegate gates and measures its qubit.
LEMMA LocalGatePhase ==
  ASSUME OneQubit, OInv, OInv', \A j \in Id : PhaseOK(j), \A r \in Node : QueueOK(r),
         NEW n \in Node, NEW id, LocalGate(n, id), failed' = "none"
  PROVE  PhaseStep
<1> DEFINE s == Slot(tx_qubits[n], id)
           item == tx_qubits[n][s]
           result0 == [item EXCEPT !.operating = FALSE, !.x = FALSE, !.z = TRUE]
           release0 == [fn |-> "ReleaseQubit", node |-> n, id |-> id, sender |-> TRUE]
           packet0 == Packet("Classical", n, item.peer, id, item.protocol, FALSE, TRUE)
<1>1. PICK e \in events :
        /\ e.fn = "LocalGate" /\ e.node = n /\ e.id = id
        /\ Has(tx_qubits[n], id)
        /\ events' = (events \ {e}) \cup {release0}
        /\ item.operating =>
             /\ tx_qubits' = [tx_qubits EXCEPT ![n][s].operating = FALSE]
             /\ storage' = [storage EXCEPT ![n] = Append(storage[n], result0)]
             /\ net' = net \cup Out(n, {packet0})
        /\ UNCHANGED <<tx_queue, rx_queue, rx_qubits, data, msg_count>>
  BY DEF LocalGate, Abort
<1>2. IsDriver(e) /\ id \in Id /\ e \in Evs(id)
  BY <1>1 DEF IsDriver, Evs, OInv, DInv, IInv, RestOK, Event
<1>3. EventOK(id, e) /\ PhaseOK(id) /\ id[1] \in Node
  BY <1>2, OpFacts DEF DrivenOK
<1>4. /\ id[1] = n /\ Open(id)
      /\ \A t \in Tx(id) : /\ t.protocol = "telegate" /\ t.x = TRUE /\ t.operating = TRUE
                           /\ Rx(Peers[id[1]][t.peer], id) # {}
  BY <1>1, <1>3 DEF EventOK
<1>5. PICK seq \in Seq(Item(n)) : /\ seq = tx_qubits[n] /\ storage[n] \in Seq(Item(n))
                                  /\ n \in DOMAIN storage /\ n \in DOMAIN tx_qubits
  BY NodeLists DEF OInv, DInv
<1>6. PICK k : k = s
  OBVIOUS
<1>7. k \in 1..Len(seq) /\ seq[k].id = id /\ seq[k] \in Item(n) /\ seq[k] \in At(seq, id)
  BY <1>1, <1>5, <1>6, SlotAt
<1>8. PICK old \in Item(n) : old = seq[k] /\ old \in Tx(id) /\ old.id = id
  BY <1>4, <1>5, <1>7 DEF Tx
<1>9. /\ Tx(id) = {old} /\ old.operating = TRUE /\ old.x = TRUE /\ old.protocol = "telegate"
  BY <1>2, <1>4, <1>8, OpFacts
<1>10. PICK it, result, release, packet :
        /\ it = [old EXCEPT !.operating = FALSE]
        /\ result = [old EXCEPT !.operating = FALSE, !.x = FALSE, !.z = TRUE]
        /\ release = release0
        /\ packet = Packet("Classical", n, old.peer, id, old.protocol, FALSE, TRUE)
  OBVIOUS
<1>11. /\ it.id = id /\ it.protocol = old.protocol /\ it.peer = old.peer /\ Ended(it)
       /\ result \in Item(n) /\ result.id = id
       /\ packet.id = id /\ packet.type = "Classical"
       /\ release.id = id /\ ~IsDriver(release)
  BY <1>8, <1>9, <1>10 DEF Item, Packet, IsDriver, Ended
<1>12. /\ tx_qubits' = [tx_qubits EXCEPT ![n] = [tx_qubits[n] EXCEPT ![k] = it]]
       /\ storage' = [storage EXCEPT ![n] = Append(storage[n], result)]
       /\ net' = net \cup Out(n, {packet}) /\ events' = (events \ {e}) \cup {release}
       /\ UNCHANGED <<tx_queue, rx_queue, rx_qubits, data, msg_count>>
  <2>1. item = old
    BY <1>5, <1>6, <1>8
  <2>2. tx_qubits' = [tx_qubits EXCEPT ![n][k].operating = FALSE]
    BY <1>1, <1>6, <1>9, <2>1
  <2>3. tx_qubits' = [tx_qubits EXCEPT ![n] = [tx_qubits[n] EXCEPT ![k] = it]]
    BY <1>5, <1>8, <1>10, <2>2
  <2> QED
    BY <1>1, <1>9, <1>10, <2>1, <2>3
<1> HIDE DEF s, item, result0, release0, packet0
<1>13. /\ OnlyAt(n, tx_qubits, tx_qubits') /\ Tx(id)' = {it}
       /\ \A j : j # id => At(tx_qubits'[n], j) = At(tx_qubits[n], j)
  <2>1. TxUpdate(n, k, it)
    BY <1>5, <1>7, <1>11, <1>12 DEF TxUpdate
  <2>2. /\ OnlyAt(n, tx_qubits, tx_qubits') /\ (it.id[1] = n => Tx(it.id)' = {it})
        /\ \A j : j # it.id => At(tx_qubits'[n], j) = At(tx_qubits[n], j)
    BY <2>1, TxChanged
  <2> QED
    BY <1>4, <1>11, <2>2
<1>14. /\ OnlyAt(n, storage, storage')
       /\ \A j : j # id => At(storage'[n], j) = At(storage[n], j)
  <2>1. OnlyAt(n, storage, storage') /\ storage'[n] = Append(storage[n], result)
    BY <1>5, <1>12, OnlyAtExcept
  <2>2. \A j : At(Append(storage[n], result), j)
                 = IF result.id = j THEN At(storage[n], j) \cup {result} ELSE At(storage[n], j)
    BY <1>5, <1>11, AtAppend
  <2> QED
    BY <1>11, <2>1, <2>2
<1>15. /\ \A f \in Evs(id) : IsDriver(f) => f = e
       /\ Msgs(id) = {} /\ \A r \in Node : Queued(r, id) = {}
  BY <1>1, <1>2, AloneEvent
<1>16. /\ Msgs(id)' \subseteq {packet} /\ Evs(id)' = (Evs(id) \ {e}) \cup {release}
       /\ \A r \in Node : /\ Rx(r, id)' = Rx(r, id) /\ Queued(r, id)' = {}
                          /\ r # n => Kept(r, id)' = Kept(r, id)
  <2>1. Evs(id)' = {f \in events' : f.id = id} /\ Msgs(id)' = {m \in net' : m.id = id}
    BY ViewsNext
  <2>2. Msgs(id)' \subseteq {packet}
    BY <1>12, <1>15, <2>1 DEF Msgs, Out
  <2>3. Evs(id)' = (Evs(id) \ {e}) \cup {release}
    BY <1>11, <1>12, <2>1 DEF Evs
  <2>4. \A r \in Node : r # n => Kept(r, id)' = Kept(r, id)
    BY <1>14, ViewsNext DEF Kept, OnlyAt
  <2> QED
    BY <1>12, <1>15, <2>2, <2>3, <2>4, ViewsNext DEF Rx, Queued
<1>17. \A f \in Evs(id)' : ~IsDriver(f)
  BY <1>11, <1>15, <1>16 DEF IsDriver
<1>18. ~Unmeasured(id)'
  <2>1. ~Asked(id)'
    BY <1>11, <1>16 DEF Asked, Asks
  <2> QED
    BY <1>16, <1>17, <2>1 DEF Unmeasured, IsDriver
<1>19. \A j \in Id : j # id => Calm(j)
  <2>1. /\ \A p \in net : p \in net' \/ p.id = id
        /\ \A p \in net' : p \in net \/ p.id = id
    BY <1>11, <1>12 DEF Out
  <2>2. \A f : f.id # id => (f \in events' <=> f \in events)
    BY <1>1, <1>11, <1>12
  <2>3. OnlyAt(n, rx_qubits, rx_qubits') /\ OnlyAt(n, rx_queue, rx_queue')
    BY <1>12 DEF OnlyAt
  <2>4. \A j : j # id => /\ At(tx_qubits'[n], j) = At(tx_qubits[n], j)
                         /\ At(rx_qubits'[n], j) = At(rx_qubits[n], j)
                         /\ At(rx_queue'[n], j) = At(rx_queue[n], j)
                         /\ At(storage'[n], j) = At(storage[n], j)
    BY <1>12, <1>13, <1>14
  <2>5. \A r \in Node : \A j \in data'[r] : j \in data[r] \/ j = id
    BY <1>12
  <2> QED
    BY <1>12, <1>13, <1>14, <2>1, <2>2, <2>3, <2>4, <2>5, OthersSame, SameCalm
<1>20. PICK q : q = Peers[id[1]][old.peer] /\ q \in Node
  <2>1. old.peer \in DOMAIN Peers[n]
    BY <1>8 DEF Item
  <2>2. Peers[n][old.peer] \in Node
    BY <2>1, PeersFacts
  <2> QED
    BY <1>4, <2>2
<1>21. PICK rec \in Rx(q, id) : TRUE
  BY <1>4, <1>8, <1>20
<1>22. /\ rec.operating = FALSE /\ rec.has_qubit = TRUE /\ rec.x = FALSE /\ rec.z = FALSE
       /\ ReceiverPhase(id) = "measured"
  <2>1. \A f \in Evs(id) : f.fn \notin {"SendClassical", "ReleaseQubit"} \/ ~IsDriver(f)
    BY <1>1, <1>15
  <2> QED
    BY <1>2, <1>3, <1>20, <1>21, <2>1, MeasuredPhase
<1>23. Releasing(id)' /\ Corrected(id)' /\ ~LastEvent(id)'
  BY <1>11, <1>13, <1>16, <1>17 DEF Releasing, Corrected, LastEvent
<1>24. PhaseOK(id)'
  <2>1. SenderEnds(id)'
    BY <1>23 DEF SenderEnds
  <2>2. RecordPhase(id, q, rec)'
    BY <1>11, <1>13, <1>20, <1>22, <1>23 DEF RecordPhase
  <2>3. \A r \in Node : \A jt \in Rx(r, id)' : RecordPhase(id, r, jt)'
    <3> SUFFICES ASSUME NEW r \in Node, NEW jt \in Rx(r, id) PROVE RecordPhase(id, r, jt)'
      BY <1>16
    <3>1. r = q /\ jt = rec
      BY <1>2, <1>20, <1>21, OneRecord
    <3> QED
      BY <2>2, <3>1
  <2> QED
    BY <1>18, <2>1, <2>3 DEF PhaseOK, NotYetKept
<1>25. Looks(id) /\ Looks(id)'
  BY <1>2, EveryoneLooks DEF AllLook
<1>26. SenderPhase(id) = "gating" /\ SenderPhase(id)' = "spent"
  <2>1. SenderPhase(id) = ItemPhase(old)
    BY <1>8, <1>25 DEF Looks, SenderLooks
  <2>2. SenderPhase(id)' = ItemPhase(it)
    BY <1>13, <1>25 DEF Looks, SenderLooks, ItemPhase
  <2> QED
    BY <1>9, <1>11, <2>1, <2>2 DEF ItemPhase, Ended
<1>27. ReceiverPhase(id)' = "measured"
  BY <1>16, <1>20, <1>21, <1>22, <1>25 DEF Looks, ReceiverLooks, RecordLooks
<1>28. Job(id)' = Job(id)
  <2>1. Job(id) = <<old.protocol, Peers[id[1]][old.peer]>>
    BY <1>8, <1>25 DEF Looks, JobLooks
  <2>2. Job(id)' = <<it.protocol, Peers[id[1]][it.peer]>>
    BY <1>13, <1>25 DEF Looks, JobLooks
  <2> QED
    BY <1>11, <2>1, <2>2
<1>29. id[2] < msg_count[id[1]]
  <2>1. ~Unsent(id)
    BY <1>2, <1>9, OpFacts DEF KeysOK, Untouched
  <2> QED
    BY <1>2, <2>1, WaitingFacts DEF Unsent
<1>30. ASSUME id \in Op, Tele!Becomes(id, "spent", "measured")
       PROVE  Tele!Step(id, "gating", "measured")
  BY <1>30 DEF Tele!Step, Tele!EndGate
<1>31. UNCHANGED <<msg_count, tx_queue>>
  BY <1>12
<1> QED
  BY <1>2, <1>19, <1>22, <1>24, <1>26, <1>27, <1>28, <1>29, <1>30, <1>31, Moves

-----------------------------------------------------------------------------
(***************************************************************************)
(* Send as a step of Teleportation: what waits for a qubit of its sender   *)
(* is served in the order of Run.                                          *)
(***************************************************************************)
\* What Send leaves in the queue.
LEMMA RestElements ==
  ASSUME NEW S, NEW queue \in Seq(S), NEW k \in 0..Len(queue)
  PROVE  /\ DOMAIN AfterFirst(queue, k) = 1..(Len(queue) - k)
         /\ \A i \in 1..(Len(queue) - k) : AfterFirst(queue, k)[i] = queue[k + i]
<1>1. Len(queue) \in Nat /\ DOMAIN queue = 1..Len(queue)
  BY DomainOfSeq
<1>2. \A i \in (k + 1)..Len(queue) : queue[i] \in S
  BY <1>1, ElementOfSeq
<1>3. \A i \in 1..(Len(queue) - (k + 1) + 1) :
         SubSeq(queue, k + 1, Len(queue))[i] = queue[k + 1 + i - 1]
  BY <1>1, <1>2, SubSeqProperties
<1>4. AfterFirst(queue, k) \in Seq(S) /\ Len(AfterFirst(queue, k)) = Len(queue) - k
  BY SplitAt
<1>5. Len(queue) - (k + 1) + 1 = Len(queue) - k
  BY <1>1
<1>6. \A i \in 1..(Len(queue) - k) : k + 1 + i - 1 = k + i
  BY <1>1
<1> QED
  BY <1>3, <1>4, <1>5, <1>6, DomainOfSeq DEF AfterFirst

LEMMA AtRest ==
  ASSUME NEW S, NEW queue \in Seq(S), NEW k \in 0..Len(queue), Distinct(queue), NEW j
  PROVE  At(AfterFirst(queue, k), j) =
           IF \E i \in 1..k : queue[i].id = j THEN {} ELSE At(queue, j)
<1>1. PICK rest : /\ rest = AfterFirst(queue, k) /\ DOMAIN rest = 1..(Len(queue) - k)
                  /\ \A i \in 1..(Len(queue) - k) : rest[i] = queue[k + i]
  BY RestElements
<1>2. Len(queue) \in Nat /\ DOMAIN queue = 1..Len(queue)
  BY DomainOfSeq
<1>3. ASSUME NEW it \in At(rest, j)
      PROVE  it \in At(queue, j) /\ \A i \in 1..k : queue[i].id # j
  <2>1. PICK l \in DOMAIN rest : rest[l].id = j /\ rest[l] = it
    BY AtIs
  <2>2. PICK m : m = k + l
    OBVIOUS
  <2>3. m \in DOMAIN queue /\ queue[m] = it /\ queue[m].id = j /\ m > k
    BY <1>1, <1>2, <2>1, <2>2
  <2>4. \A i \in 1..k : queue[i].id # j
    BY <1>2, <2>3 DEF Distinct
  <2> QED
    BY <2>3, <2>4, AtIs
<1>4. ASSUME NEW it \in At(queue, j), \A i \in 1..k : queue[i].id # j
      PROVE  it \in At(rest, j)
  <2>1. PICK m \in DOMAIN queue : queue[m].id = j /\ queue[m] = it
    BY AtIs
  <2>2. PICK l : l = m - k
    OBVIOUS
  <2>3. l \in DOMAIN rest /\ rest[l] = queue[m]
    <3>1. ~(m \in 1..k) /\ m \in 1..Len(queue)
      BY <1>2, <1>4, <2>1
    <3>2. l \in 1..(Len(queue) - k) /\ k + l = m
      BY <1>2, <2>2, <3>1
    <3> QED
      BY <1>1, <3>2
  <2> QED
    BY <2>1, <2>3, AtIs
<1> QED
  BY <1>1, <1>3, <1>4

\* Send hands the qubit out to an operation.
Sent(queue, k, j) == \E i \in 1..k : queue[i].id = j

LEMMA SendViews ==
  ASSUME OInv, NEW n \in Node, NEW base, NEW queue, NEW k, NEW gone,
         SendStep(n, base, queue, k, gone), NEW j \in Id
  PROVE  /\ Evs(j)' \subseteq Evs(j)
         /\ \A r \in Node : /\ Rx(r, j)' = Rx(r, j) /\ Queued(r, j)' = Queued(r, j)
                            /\ Kept(r, j)' = Kept(r, j)
         /\ \A i \in 1..k : queue[i].id = j =>
              /\ queue[i] \in Item(n) /\ i \in DOMAIN queue /\ j[1] = n /\ Untouched(j)
              /\ Tx(j)' = {queue[i]} /\ \A m \in Msgs(j)' : m.type = "Qubit"
         /\ ~Sent(queue, k, j) => /\ Msgs(j)' \subseteq Msgs(j)
                                  /\ (j \notin gone => Tx(j)' = Tx(j))
                                  /\ (j[1] = n => Tx(j)' = At(base, j))
         /\ Waiting(j)' = IF j[1] # n THEN Waiting(j)
                          ELSE IF Sent(queue, k, j) THEN {} ELSE At(queue, j)
         /\ At(queue, j) # {} => j[1] = n /\ j[2] < msg_count'[n] /\ Unsent(j) /\ Untouched(j)
<1>a. /\ base \in Seq(Item(n)) /\ Distinct(base)
      /\ \A l : /\ At(base, l) \subseteq At(tx_qubits[n], l)
                /\ l \notin gone => At(base, l) = At(tx_qubits[n], l)
  BY DEF SendStep
<1>b. queue \in Seq(Item(n)) /\ Distinct(queue) /\ k \in 0..Len(queue)
  BY DEF SendStep
<1>c. \A i \in DOMAIN queue :
        queue[i].id[1] = n /\ queue[i].id[2] < msg_count'[n] /\ Unsent(queue[i].id)
  BY DEF SendStep
<1>d. /\ tx_qubits' = [tx_qubits EXCEPT ![n] = base \o FirstOf(queue, k)]
      /\ tx_queue' = [tx_queue EXCEPT ![n] = AfterFirst(queue, k)]
  BY DEF SendStep
<1>e. /\ net' \subseteq net \cup {QubitOf(n, queue[i]) : i \in 1..k}
      /\ events' \subseteq events /\ UNCHANGED <<rx_queue, rx_qubits, storage>>
  BY DEF SendStep
<1>1. /\ \A i \in 1..k : i \in DOMAIN queue /\ queue[i] \in Item(n)
      /\ \A i \in DOMAIN queue : Untouched(queue[i].id)
  <2>1. DOMAIN queue = 1..Len(queue) /\ \A i \in 1..Len(queue) : queue[i] \in Item(n)
    BY <1>b, DomainOfSeq, ElementOfSeq
  <2>2. \A i \in 1..k : i \in 1..Len(queue)
    BY <1>b, DomainOfSeq
  <2>3. \A i \in DOMAIN queue : queue[i].id \in Id
    BY <2>1, ItemFields
  <2>4. \A i \in DOMAIN queue : Untouched(queue[i].id)
    BY <1>c, <2>3, OpFacts DEF KeysOK
  <2> QED
    BY <2>1, <2>2, <2>4
<1>2. \A i \in 1..k : At(base, queue[i].id) = {}
  <2>1. \A i \in 1..k : At(tx_qubits[n], queue[i].id) = {}
    BY <1>1, <1>c DEF Untouched, Tx
  <2> QED
    BY <1>a, <2>1
<1>3. PICK list : Moved(list, base, queue, k)
  BY DEF Moved
<1>4. /\ \A l : (\A i \in 1..k : queue[i].id # l) => At(list, l) = At(base, l)
      /\ \A i \in 1..k : At(list, queue[i].id) = {queue[i]}
  <2>1. base \in Seq(Item(n)) /\ queue \in Seq(Item(n)) /\ k \in 0..Len(queue)
    BY <1>a, <1>b
  <2>2. Distinct(base) /\ Distinct(queue)
    BY <1>a, <1>b
  <2>3. MovedOK(list, base, queue, k)
    BY <1>2, <1>3, <2>1, <2>2, AtMoved
  <2> QED
    BY <2>3 DEF MovedOK
<1>5. PICK rest : rest = AfterFirst(queue, k)
  OBVIOUS
<1>6. /\ OnlyAt(n, tx_qubits, tx_qubits') /\ tx_qubits'[n] = list
      /\ OnlyAt(n, tx_queue, tx_queue') /\ tx_queue'[n] = rest
  <2>1. n \in DOMAIN tx_qubits /\ n \in DOMAIN tx_queue
    BY NodeLists DEF OInv, DInv
  <2> QED
    BY <1>3, <1>5, <1>d, <2>1, OnlyAtExcept DEF Moved
<1>7. \A i \in 1..k : QubitOf(n, queue[i]).id = queue[i].id /\ QubitOf(n, queue[i]).type = "Qubit"
  BY DEF QubitOf, Packet
<1>8. j[1] \in Node /\ Tx(j)' = At(tx_qubits'[j[1]], j) /\ Msgs(j)' = {p \in net' : p.id = j}
      /\ Waiting(j)' = At(tx_queue'[j[1]], j)
  <2>1. Waiting(j)' = At(tx_queue'[j[1]], j)
    BY DEF Waiting, At, Matches
  <2> QED
    BY <2>1, ViewsNext DEF Id
<1>9. /\ Evs(j)' \subseteq Evs(j)
      /\ \A r \in Node : /\ Rx(r, j)' = Rx(r, j) /\ Queued(r, j)' = Queued(r, j)
                         /\ Kept(r, j)' = Kept(r, j)
  <2>1. Evs(j)' = {f \in events' : f.id = j}
    BY ViewsNext
  <2>2. Evs(j)' \subseteq Evs(j)
    BY <1>e, <2>1 DEF Evs
  <2> QED
    BY <1>e, <2>2, ViewsNext DEF Rx, Queued, Kept
<1>10. ASSUME NEW i \in 1..k, queue[i].id = j
       PROVE  /\ queue[i] \in Item(n) /\ i \in DOMAIN queue /\ j[1] = n /\ Untouched(j)
              /\ Tx(j)' = {queue[i]} /\ \A m \in Msgs(j)' : m.type = "Qubit"
  <2>1. queue[i] \in Item(n) /\ i \in DOMAIN queue /\ j[1] = n /\ Untouched(j)
    BY <1>1, <1>c, <1>10
  <2>2. Tx(j)' = {queue[i]}
    BY <1>4, <1>6, <1>8, <1>10, <2>1
  <2>3. \A m \in Msgs(j)' : m.type = "Qubit"
    BY <1>7, <1>8, <1>e, <2>1 DEF Untouched, Msgs
  <2> QED
    BY <2>1, <2>2, <2>3
<1>11. ASSUME ~Sent(queue, k, j)
       PROVE  /\ Msgs(j)' \subseteq Msgs(j)
              /\ (j \notin gone => Tx(j)' = Tx(j))
              /\ (j[1] = n => Tx(j)' = At(base, j))
  <2>1. Msgs(j)' \subseteq Msgs(j)
    BY <1>7, <1>8, <1>11, <1>e DEF Msgs, Sent
  <2>2. j[1] = n => Tx(j)' = At(base, j)
    BY <1>4, <1>6, <1>8, <1>11 DEF Sent
  <2>3. j[1] # n => Tx(j)' = Tx(j)
    BY <1>6, <1>8 DEF Tx, OnlyAt
  <2> QED
    BY <1>a, <2>1, <2>2, <2>3 DEF Tx
<1>12. Waiting(j)' = IF j[1] # n THEN Waiting(j)
                     ELSE IF Sent(queue, k, j) THEN {} ELSE At(queue, j)
  <2>1. At(rest, j) = IF Sent(queue, k, j) THEN {} ELSE At(queue, j)
    BY <1>5, <1>b, AtRest DEF Sent
  <2>2. j[1] # n => Waiting(j)' = Waiting(j)
    BY <1>6, <1>8 DEF Waiting, OnlyAt
  <2> QED
    BY <1>6, <1>8, <2>1, <2>2
<1>13. At(queue, j) # {} => j[1] = n /\ j[2] < msg_count'[n] /\ Unsent(j) /\ Untouched(j)
  <2> SUFFICES ASSUME NEW it \in At(queue, j)
               PROVE  j[1] = n /\ j[2] < msg_count'[n] /\ Unsent(j) /\ Untouched(j)
    OBVIOUS
  <2>1. PICK i \in DOMAIN queue : queue[i].id = j
    BY AtIs
  <2> QED
    BY <1>1, <1>c, <2>1
<1> QED
  BY <1>9, <1>10, <1>11, <1>12, <1>13

\* What waits is in the order of Run, and has no result.
Ordered(queue) == \A i, j \in DOMAIN queue : i < j => queue[i].id[2] < queue[j].id[2]

Blank(queue) == \A i \in DOMAIN queue : queue[i].x = FALSE /\ queue[i].z = FALSE

\* An operation gets its qubit.
LEMMA SentPhase ==
  ASSUME OneQubit, OInv, OInv', NEW n \in Node, NEW base, NEW queue, NEW k, NEW gone,
         SendStep(n, base, queue, k, gone), Blank(queue),
         NEW i \in 1..k, NEW j \in Id, queue[i].id = j
  PROVE  /\ PhaseOK(j)' /\ SenderPhase(j)' = "holding" /\ ReceiverPhase(j)' = "idle"
         /\ Job(j)' = <<queue[i].protocol, Peers[n][queue[i].peer]>>
<1>1. PICK it : it = queue[i]
  OBVIOUS
<1>2. /\ it \in Item(n) /\ i \in DOMAIN queue /\ j[1] = n /\ Untouched(j)
      /\ Tx(j)' = {it} /\ \A m \in Msgs(j)' : m.type = "Qubit"
      /\ Evs(j)' \subseteq Evs(j)
      /\ \A r \in Node : Rx(r, j)' = Rx(r, j) /\ Kept(r, j)' = Kept(r, j)
  BY <1>1, SendViews
<1>3. it.operating = FALSE /\ it.x = FALSE /\ it.z = FALSE
  BY <1>1, <1>2 DEF SendStep, Blank
<1>4. Evs(j)' = {} /\ \A r \in Node : Rx(r, j)' = {} /\ Kept(r, j)' = {}
  BY <1>2 DEF Untouched
<1>5. SenderEnds(j)'
  BY <1>2, <1>3, <1>4 DEF SenderEnds, Ended, Releasing, LastEvent
<1>6. PhaseOK(j)'
  BY <1>4, <1>5 DEF PhaseOK, NotYetKept
<1>7. SenderLooks(j)' /\ ReceiverLooks(j)' /\ JobLooks(j)'
  BY EveryoneLooks DEF AllLook, Looks
<1>8. SenderPhase(j)' = "holding"
  BY <1>2, <1>3, <1>7 DEF SenderLooks, ItemPhase
<1>9. ReceiverPhase(j)' = "idle"
  <2>1. NoRx(j)'
    BY <1>4 DEF NoRx
  <2> QED
    BY <1>4, <1>7, <1>8, <2>1 DEF ReceiverLooks
<1>10. Job(j)' = <<it.protocol, Peers[n][it.peer]>>
  <2>1. it \in Tx(j)'
    BY <1>2
  <2> QED
    BY <1>2, <1>7, <2>1 DEF JobLooks
<1> QED
  BY <1>1, <1>6, <1>8, <1>9, <1>10

\* Whose qubit is not sent has no receiver.
LEMMA UnsentIdle ==
  ASSUME OneQubit, OInv, NEW j \in Id, Unsent(j)
  PROVE  SenderPhase(j) \in {"new", "waiting"} /\ ReceiverPhase(j) = "idle"
<1>1. Untouched(j) /\ Looks(j)
  BY OpFacts, EveryoneLooks DEF KeysOK, AllLook
<1>2. SenderPhase(j) \in {"new", "waiting"}
  <2>1. Waiting(j) # {} <=> Has(tx_queue[j[1]], j)
    BY WaitingFacts
  <2> QED
    BY <1>1, <2>1 DEF Unsent, Looks, SenderLooks
<1>3. NoRx(j) /\ \A r \in Node : Kept(r, j) = {}
  BY <1>1 DEF Untouched, NoRx
<1> QED
  BY <1>1, <1>2, <1>3 DEF Looks, ReceiverLooks

\* An operation that gets no qubit.
LEMMA UnsentCalm ==
  ASSUME OInv, NEW n \in Node, NEW base, NEW queue, NEW k, NEW gone,
         SendStep(n, base, queue, k, gone), NEW j \in Id, ~Sent(queue, k, j), j \notin gone,
         Evs(j)' = Evs(j)
  PROVE  Calm(j)
<1>1. /\ \A r \in Node : /\ Rx(r, j)' = Rx(r, j) /\ Queued(r, j)' = Queued(r, j)
                         /\ Kept(r, j)' = Kept(r, j)
      /\ Msgs(j)' \subseteq Msgs(j) /\ Tx(j)' = Tx(j) /\ j[1] \in Node
  BY SendViews DEF Id
<1>2. Asked(j)' => Asked(j)
  <2> SUFFICES ASSUME NEW m \in Msgs(j)', Asks(j, m)' PROVE Asked(j)
    BY DEF Asked
  <2>1. m \in Msgs(j) /\ Asks(j, m)
    BY <1>1 DEF Asks
  <2> QED
    BY <2>1 DEF Asked
<1>3. Unmeasured(j)' => Unmeasured(j)
  BY <1>1, <1>2 DEF Unmeasured
<1> QED
  BY <1>1, <1>3 DEF Calm

\* What Send leaves in the queue is still in order.
LEMMA SendQueues ==
  ASSUME \A r \in Node : QueueOK(r), NEW n \in Node, NEW base, NEW queue, NEW k, NEW gone,
         SendStep(n, base, queue, k, gone), OInv, Ordered(queue), Blank(queue),
         msg_count'[n] <= MaxMsg[n], \A r \in Node : r # n => msg_count'[r] = msg_count[r]
  PROVE  \A r \in Node : QueueOK(r)'
<1>1. queue \in Seq(Item(n)) /\ k \in 0..Len(queue)
      /\ tx_queue' = [tx_queue EXCEPT ![n] = AfterFirst(queue, k)]
  BY DEF SendStep
<1>2. PICK rest : /\ rest = AfterFirst(queue, k) /\ DOMAIN rest = 1..(Len(queue) - k)
                  /\ \A i \in 1..(Len(queue) - k) : rest[i] = queue[k + i]
  BY <1>1, RestElements
<1>3. Len(queue) \in Nat /\ DOMAIN queue = 1..Len(queue)
  BY <1>1, DomainOfSeq
<1>4. OnlyAt(n, tx_queue, tx_queue') /\ tx_queue'[n] = rest
  <2>1. n \in DOMAIN tx_queue
    BY NodeLists DEF OInv, DInv
  <2> QED
    BY <1>1, <1>2, <2>1, OnlyAtExcept
<1>5. ASSUME NEW i \in DOMAIN rest
      PROVE  \E m \in DOMAIN queue : m = k + i /\ rest[i] = queue[m]
  BY <1>1, <1>2, <1>3
<1>6. Ordered(rest)
  <2> SUFFICES ASSUME NEW i \in DOMAIN rest, NEW j \in DOMAIN rest, i < j
               PROVE  rest[i].id[2] < rest[j].id[2]
    BY DEF Ordered
  <2>1. PICK l \in DOMAIN queue : l = k + i /\ rest[i] = queue[l]
    BY <1>5
  <2>2. PICK m \in DOMAIN queue : m = k + j /\ rest[j] = queue[m]
    BY <1>5
  <2>3. l < m
    BY <1>1, <1>2, <2>1, <2>2
  <2> QED
    BY <2>1, <2>2, <2>3 DEF Ordered
<1>7. Blank(rest)
  BY <1>5 DEF Blank
<1>8. QueueOK(n)'
  BY <1>4, <1>6, <1>7 DEF QueueOK, Ordered, Blank
<1>9. ASSUME NEW r \in Node, r # n
      PROVE  QueueOK(r)'
  <2>1. tx_queue'[r] = tx_queue[r]
    BY <1>4, <1>9 DEF OnlyAt
  <2> QED
    BY <1>9, <2>1 DEF QueueOK
<1> QED
  BY <1>8, <1>9

\* The phases of the operations of node n, told from its lists before Send.
Told(phase, n, base, queue) ==
  \A o \in Op : o[1] = n =>
    /\ phase[o] = "waiting" <=> At(queue, o) # {}
    /\ phase[o] \in {"holding", "gating", "spent"} <=> At(base, o) # {}

\* Send serves the oldest, when no other operation holds the qubit.
LEMMA ServesNext ==
  ASSUME OneQubit, OInv, \A r \in Node : QueueOK(r), NEW n \in Node,
         NEW base, NEW queue, NEW k, NEW gone, SendStep(n, base, queue, k, gone),
         k = Movable(queue, base), Len(base) <= NumQubits, Ordered(queue),
         \A i \in DOMAIN queue : queue[i].id \in Op, NEW phase, Told(phase, n, base, queue),
         NEW o \in Op
  PROVE  Next1(phase, n, o) <=> Sent(queue, k, o)
<1>1. /\ queue \in Seq(Item(n)) /\ k \in 0..Len(queue) /\ base \in Seq(Item(n))
      /\ \A i \in DOMAIN queue : queue[i].id[1] = n
      /\ \A i \in DOMAIN base : base[i].id[1] = n
      /\ \A j : At(base, j) \subseteq At(tx_qubits[n], j)
  BY DEF SendStep
<1>2. /\ Len(queue) \in Nat /\ DOMAIN queue = 1..Len(queue)
      /\ Len(base) \in Nat /\ DOMAIN base = 1..Len(base)
  BY <1>1, DomainOfSeq
<1>3. NumQubits \in {0, 1}
  BY ParametersAssumption DEF OneQubit
<1>0. \A p \in Op : p[1] = n =>
        /\ phase[p] = "waiting" <=> At(queue, p) # {}
        /\ phase[p] \in {"holding", "gating", "spent"} <=> At(base, p) # {}
  BY DEF Told
<1>4. ASSUME Sent(queue, k, o)
      PROVE  Next1(phase, n, o)
  <2>1. k # 0
    BY <1>4 DEF Sent
  <2>2. NumQubits = 1 /\ Len(base) = 0 /\ k = 1
    <3>1. PICK l, b, q : l = Len(queue) /\ b = Len(base) /\ q = NumQubits
      OBVIOUS
    <3>2. l \in Nat /\ b \in Nat /\ q \in {0, 1} /\ b <= q /\ k = IF l <= q - b THEN l ELSE q - b
      BY <1>2, <1>3, <3>1 DEF Movable
    <3>3. k \in Nat
      BY <1>1, <1>2
    <3>4. q = 1 /\ b = 0 /\ k = 1
      BY <2>1, <3>2, <3>3
    <3> QED
      BY <3>1, <3>4
  <2>3. queue[1].id = o /\ 1 \in DOMAIN queue
    BY <1>1, <1>2, <1>4, <2>2 DEF Sent
  <2>4. o[1] = n /\ phase[o] = "waiting"
    <3>1. At(queue, o) # {}
      BY <2>3, AtIs
    <3> QED
      BY <1>0, <1>1, <2>3, <3>1
  <2>5. ASSUME NEW p \in Op, p[1] = n
        PROVE  /\ phase[p] \notin {"holding", "gating", "spent"}
               /\ phase[p] = "waiting" => ~(p[2] < o[2])
    <3>1. At(base, p) = {}
      BY <1>2, <2>2, AtIs
    <3>2. ASSUME phase[p] = "waiting"
          PROVE  ~(p[2] < o[2])
      <4>1. PICK i \in DOMAIN queue : queue[i].id = p
        BY <1>0, <2>5, <3>2, AtIs
      <4>2. p[2] \in Int /\ o[2] \in Int
        BY OpIsId DEF Id
      <4>3. CASE i = 1
        BY <2>3, <4>1, <4>2, <4>3
      <4>4. CASE i # 1
        <5>1. 1 < i
          BY <1>2, <4>1, <4>4
        <5>2. o[2] < p[2]
          BY <2>3, <4>1, <5>1 DEF Ordered
        <5> QED
          BY <4>2, <5>2
      <4> QED
        BY <4>3, <4>4
    <3> QED
      BY <1>0, <2>5, <3>1, <3>2
  <2> QED
    BY <2>2, <2>4, <2>5 DEF Next1
<1>5. ASSUME Next1(phase, n, o)
      PROVE  Sent(queue, k, o)
  <2>1. /\ o[1] = n /\ phase[o] = "waiting" /\ NumQubits = 1
        /\ \A p \in Op : p[1] = n => /\ phase[p] \notin {"holding", "gating", "spent"}
                                     /\ phase[p] = "waiting" => ~(p[2] < o[2])
    BY <1>5 DEF Next1
  <2>2. PICK i \in DOMAIN queue : queue[i].id = o
    BY <1>0, <2>1, AtIs
  <2>3. Len(base) = 0
    <3> SUFFICES ASSUME Len(base) # 0 PROVE FALSE
      OBVIOUS
    <3>1. 1 \in DOMAIN base /\ base[1] \in Item(n)
      BY <1>1, <1>2, ElementOfSeq
    <3>2. PICK id \in Id : id = base[1].id /\ id[1] = n
      BY <1>1, <3>1, ItemFields
    <3>3. base[1] \in At(base, id)
      BY <3>1, <3>2, AtIs
    <3>4. Tx(id) # {}
      BY <1>1, <3>2, <3>3 DEF Tx
    <3>5. id \in Op
      <4>1. ~Unsent(id) /\ msg_count[n] \in Nat /\ id[2] \in Nat
        BY <3>2, <3>4, OpFacts, WaitingFacts DEF KeysOK, Untouched
      <4> QED
        BY <3>2, <4>1, ActiveOp DEF Unsent
    <3> QED
      BY <1>0, <2>1, <3>2, <3>3, <3>5
  <2>4. k = 1
    BY <1>2, <2>1, <2>2, <2>3 DEF Movable
  <2>5. i = 1
    <3> SUFFICES ASSUME i # 1 PROVE FALSE
      OBVIOUS
    <3>1. 1 < i /\ 1 \in DOMAIN queue
      BY <1>2, <2>2
    <3>2. PICK p \in Op : p = queue[1].id /\ p[1] = n
      BY <1>1, <3>1
    <3>3. p[2] < o[2]
      BY <2>2, <3>1, <3>2 DEF Ordered
    <3>4. At(queue, p) # {}
      BY <3>1, <3>2, AtIs
    <3> QED
      BY <1>0, <2>1, <3>2, <3>3, <3>4
  <2> QED
    BY <2>2, <2>4, <2>5 DEF Sent
<1> QED
  BY <1>4, <1>5

\* What the senders do after Send is what Teleportation hands out.
LEMMA HandedOut ==
  ASSUME OneQubit, OInv, OInv', \A r \in Node : QueueOK(r), NEW n \in Node,
         NEW base, NEW queue, NEW k, NEW gone, SendStep(n, base, queue, k, gone),
         k = Movable(queue, base), Len(base) <= NumQubits, Ordered(queue), Blank(queue),
         \A i \in DOMAIN queue : queue[i].id \in Op, NEW phase, Told(phase, n, base, queue),
         \A o \in Op : ~Sent(queue, k, o) => SenderPhase(o)' = phase[o]
  PROVE  [o \in Op |-> SenderPhase(o)'] = Tele!HandOut(phase, n)
<1>1. \A o \in Op : Next1(phase, n, o) <=> Sent(queue, k, o)
  BY ServesNext
<1>2. ASSUME NEW o \in Op, Sent(queue, k, o)
      PROVE  SenderPhase(o)' = "holding"
  BY <1>2, OpIsId, SentPhase DEF Sent
<1>3. \A o \in Op : SenderPhase(o)' = IF Next1(phase, n, o) THEN "holding" ELSE phase[o]
  BY <1>1, <1>2
<1> QED
  BY <1>3, HandsOut

-----------------------------------------------------------------------------
(***************************************************************************)
(* ReleaseQubit at the sender, and Run.                                    *)
(***************************************************************************)
\* The phase of a sender, and the list its operation is in.
LEMMA PhaseTells ==
  ASSUME OInv, NEW id \in Id
  PROVE  /\ SenderPhase(id) = "new" <=> id[2] >= msg_count[id[1]]
         /\ SenderPhase(id) = "waiting" <=> Waiting(id) # {}
         /\ SenderPhase(id) \in {"holding", "gating", "spent"} <=> Tx(id) # {}
<1>1. SenderLooks(id)
  BY SenderLooksSo
<1>2. msg_count[id[1]] \in Nat /\ id[2] \in Nat
      /\ (Waiting(id) # {} => id[2] < msg_count[id[1]] /\ Untouched(id))
  BY WaitingFacts
<1>3. CASE id[2] >= msg_count[id[1]]
  <2>1. Untouched(id) /\ Waiting(id) = {}
    BY <1>2, <1>3, OpFacts DEF KeysOK, Unsent
  <2> QED
    BY <1>1, <1>3, <2>1 DEF SenderLooks, Untouched
<1>4. CASE Waiting(id) # {}
  BY <1>1, <1>2, <1>4 DEF SenderLooks, Untouched
<1>5. CASE ~Unsent(id) /\ Waiting(id) = {} /\ Tx(id) = {}
  BY <1>1, <1>5 DEF SenderLooks, Unsent
<1>6. CASE ~Unsent(id) /\ Waiting(id) = {} /\ \E t \in Tx(id) : t \in Item(id[1]) /\ Tx(id) = {t}
  BY <1>1, <1>6 DEF SenderLooks, ItemPhase, Unsent
<1> QED
  BY <1>3, <1>4, <1>5, <1>6, OperationCases

\* An operation that Send does not take from the queue.
LEMMA UnsentFixed ==
  ASSUME OneQubit, OInv, OInv', NEW n \in Node, NEW base, NEW queue, NEW k, NEW gone,
         SendStep(n, base, queue, k, gone), NEW j \in Id, ~Sent(queue, k, j), j \notin gone,
         Evs(j)' = Evs(j), PhaseOK(j), j[1] = n => At(queue, j) = Waiting(j),
         j[2] >= msg_count'[j[1]] <=> j[2] >= msg_count[j[1]]
  PROVE  PhaseOK(j)' /\ Fixed(j)
<1>1. Calm(j)
  BY UnsentCalm
<1>2. SameTurn(j)
  BY SendViews DEF SameTurn
<1> QED
  BY <1>1, <1>2, CalmPhase, CalmFixed

\* An operation that waited and gets its qubit.
LEMMA SentFixed ==
  ASSUME OneQubit, OInv, OInv', NEW n \in Node, NEW base, NEW queue, NEW k, NEW gone,
         SendStep(n, base, queue, k, gone), Blank(queue),
         NEW i \in 1..k, NEW j \in Id, queue[i].id = j, queue[i] \in Waiting(j)
  PROVE  PhaseOK(j)' /\ ReceiverPhase(j)' = ReceiverPhase(j) /\ Job(j)' = Job(j)
<1>1. /\ PhaseOK(j)' /\ ReceiverPhase(j)' = "idle"
      /\ Job(j)' = <<queue[i].protocol, Peers[n][queue[i].peer]>>
  BY SentPhase
<1>2. j[1] = n
  BY SendViews
<1>3. Unsent(j)
  BY WaitingFacts DEF Unsent
<1>4. ReceiverPhase(j) = "idle"
  BY <1>3, UnsentIdle
<1>5. Job(j) = <<queue[i].protocol, Peers[n][queue[i].peer]>>
  <2>1. JobLooks(j)
    BY JobLooksSo
  <2> QED
    BY <1>2, <2>1 DEF JobLooks
<1> QED
  BY <1>1, <1>4, <1>5

\* ReleaseQubit at the sender, as far as its own operation goes.
LEMMA ReleasedSender ==
  ASSUME OneQubit, OInv, OInv', NEW id \in Id, PhaseOK(id), NEW e \in Evs(id), ~IsDriver(e),
         Evs(id)' = Evs(id) \ {e}, Tx(id)' = {}, Waiting(id)' = {}, Msgs(id)' \subseteq Msgs(id),
         \A r \in Node : /\ Rx(r, id)' = Rx(r, id) /\ Queued(r, id)' = Queued(r, id)
                         /\ Kept(r, id)' = Kept(r, id),
         msg_count' = msg_count, ~Unsent(id), Tx(id) # {}
  PROVE  /\ PhaseOK(id)' /\ SenderPhase(id) = "spent" /\ SenderPhase(id)' = "done"
         /\ ReceiverPhase(id)' = ReceiverPhase(id)
         /\ Job(id)' = IF ReceiverPhase(id) = "done" THEN <<>> ELSE Job(id)
<1>1. Corrected(id) /\ id[1] \in Node
  BY DEF PhaseOK, SenderEnds, Releasing, Id
<1>2. e.fn = "ReleaseQubit" /\ (LastEvent(id)' <=> LastEvent(id))
  BY DEF IsDriver, LastEvent
<1>3. ~Unmeasured(id)' \/ Unmeasured(id)
  <2>1. ASSUME NEW m \in Msgs(id)', Asks(id, m)' PROVE m \in Msgs(id) /\ Asks(id, m)
    BY <1>1, <2>1 DEF Asks
  <2> QED
    BY <2>1 DEF Unmeasured, Asked
<1>4. PhaseOK(id)'
  <2>1. SenderEnds(id)'
    BY DEF SenderEnds, Corrected
  <2>2. \A r \in Node : \A it \in Rx(r, id)' : RecordPhase(id, r, it)'
    BY <1>2 DEF PhaseOK, RecordPhase
  <2>3. NotYetKept(id)'
    BY <1>3 DEF PhaseOK, NotYetKept
  <2> QED
    BY <2>1, <2>2, <2>3 DEF PhaseOK
<1>5. SenderLooks(id) /\ ReceiverLooks(id) /\ JobLooks(id)
      /\ SenderLooks(id)' /\ ReceiverLooks(id)' /\ JobLooks(id)'
  BY EveryoneLooks DEF AllLook, Looks
<1>6. PICK t \in Tx(id) : Ended(t)
  BY <1>1 DEF Corrected
<1>7. SenderPhase(id) = "spent"
  BY <1>5, <1>6 DEF SenderLooks, ItemPhase, Ended
<1>8. SenderPhase(id)' = "done"
  <2>1. Waiting(id)' = At(tx_queue'[id[1]], id)
    BY DEF Waiting, At, Matches
  <2>2. ~Has(tx_queue'[id[1]], id)
    BY <2>1, AtIs
  <2>3. ~Unsent(id)'
    BY <2>2 DEF Unsent, Has
  <2> QED
    BY <1>5, <2>3 DEF SenderLooks
<1>9. NoRx(id)' <=> NoRx(id)
  BY DEF NoRx
<1>10. NoRx(id) => ReceiverPhase(id) = "done" /\ ReceiverPhase(id)' = "done" /\ Job(id)' = <<>>
  BY <1>5, <1>7, <1>8, <1>9 DEF ReceiverLooks, JobLooks
<1>11. ASSUME NEW r \in Node, NEW it \in Rx(r, id)
       PROVE  ReceiverPhase(id) # "done" /\ ReceiverPhase(id)' = ReceiverPhase(id)
              /\ Job(id)' = Job(id)
  <2>1. it \in Rx(r, id)'
    BY <1>11
  <2>2. ReceiverPhase(id) = RecordLooks(it) /\ ReceiverPhase(id)' = RecordLooks(it)
    BY <1>5, <1>11, <2>1 DEF ReceiverLooks, RecordLooks
  <2>3. RecordLooks(it) # "done"
    BY DEF RecordLooks
  <2>4. Job(id) = <<t.protocol, Peers[id[1]][t.peer]>>
    BY <1>5, <1>6 DEF JobLooks
  <2>5. Job(id)' = <<it.protocol, r>>
    BY <1>5, <1>11, <2>1 DEF JobLooks
  <2>6. Peers[id[1]][t.peer] = r
    BY <1>6, <1>11 DEF PhaseOK, RecordPhase
  <2>7. t.protocol = it.protocol
    BY <1>6, <1>11, OpFacts DEF PlacesOK, RecordOK
  <2> QED
    BY <2>2, <2>3, <2>4, <2>5, <2>6, <2>7
<1>12. CASE NoRx(id)
  BY <1>4, <1>7, <1>8, <1>10, <1>12
<1>13. CASE ~NoRx(id)
  <2>1. PICK r \in Node : Rx(r, id) # {}
    BY <1>13 DEF NoRx
  <2>2. PICK it \in Rx(r, id) : TRUE
    BY <2>1
  <2> QED
    BY <1>4, <1>7, <1>8, <1>11, <2>1, <2>2
<1> QED
  BY <1>12, <1>13

\* ReleaseQubit at the sender: the qubit is the next operation's.
LEMMA ReleaseSenderPhase ==
  ASSUME OneQubit, OInv, OInv', \A j \in Id : PhaseOK(j), \A r \in Node : QueueOK(r),
         NEW n \in Node, NEW id, NEW e \in events,
         e.fn = "ReleaseQubit", e.node = n, e.id = id, e.sender, events' = events \ {e},
         ReleaseAtSender(n, id)
  PROVE  PhaseStep /\ \A r \in Node : QueueOK(r)'
<1>1. /\ ~IsDriver(e) /\ id \in Id /\ e \in Evs(id) /\ n = id[1] /\ ~Unsent(id)
      /\ msg_count' = msg_count
  BY ReleaseAtSenderSends
<1>2. PICK base, queue, k :
        /\ SendStep(n, base, queue, k, {id}) /\ At(base, id) = {}
        /\ queue = tx_queue[n] /\ k = Movable(queue, base) /\ Len(base) < NumQubits
  BY ReleaseAtSenderSends
<1>3. Ordered(queue) /\ Blank(queue) /\ msg_count'[n] <= MaxMsg[n]
  BY <1>1, <1>2 DEF QueueOK, Ordered, Blank
<1>4. \A j : j[1] = n => At(queue, j) = Waiting(j)
  BY <1>2 DEF Waiting
<1>5. \A j : j # id => At(base, j) = At(tx_qubits[n], j)
  BY <1>2 DEF SendStep
<1>6. At(queue, id) = {} /\ ~Sent(queue, k, id)
  <2>1. ~Has(queue, id)
    BY <1>1, <1>2 DEF Unsent
  <2>2. \A i \in 1..k : i \in DOMAIN queue
    <3>1. queue \in Seq(Item(n)) /\ k \in 0..Len(queue)
      BY <1>2 DEF SendStep
    <3> QED
      BY <3>1, DomainOfSeq
  <2> QED
    BY <2>1, <2>2, AtIs DEF Has, Sent
<1>7. \A i \in DOMAIN queue : queue[i].id \in Op
  <2> SUFFICES ASSUME NEW i \in DOMAIN queue PROVE queue[i].id \in Op
    OBVIOUS
  <2>1. queue[i].id[1] = n /\ queue[i] \in Item(n)
    BY <1>2, DomainOfSeq, ElementOfSeq DEF SendStep
  <2>2. PICK j \in Id : j = queue[i].id /\ j[1] = n
    BY <2>1, ItemFields
  <2>3. At(queue, j) # {}
    BY <2>2, AtIs
  <2>4. j[2] < msg_count[j[1]]
    BY <1>4, <2>2, <2>3, WaitingFacts
  <2> QED
    BY <2>2, <2>4, ActiveOp
<1>8. Evs(id)' = Evs(id) \ {e} /\ \A j \in Id : j # id => Evs(j)' = Evs(j)
  <2>1. \A j : Evs(j)' = {f \in events' : f.id = j}
    BY ViewsNext
  <2> QED
    BY <2>1 DEF Evs
<1>9. /\ PhaseOK(id)' /\ SenderPhase(id) = "spent" /\ SenderPhase(id)' = "done"
      /\ ReceiverPhase(id)' = ReceiverPhase(id)
      /\ Job(id)' = IF ReceiverPhase(id) = "done" THEN <<>> ELSE Job(id)
  <2>1. /\ \A r \in Node : /\ Rx(r, id)' = Rx(r, id) /\ Queued(r, id)' = Queued(r, id)
                           /\ Kept(r, id)' = Kept(r, id)
        /\ Msgs(id)' \subseteq Msgs(id) /\ Tx(id)' = At(base, id) /\ Waiting(id)' = At(queue, id)
    BY <1>1, <1>2, <1>6, SendViews
  <2>2. Tx(id) # {}
    <3>1. ~Untouched(id)
      BY <1>1 DEF Untouched
    <3> QED
      BY <1>1, <3>1, OpFacts DEF DrivenOK, EventOK, KeysOK
  <2> QED
    BY <1>1, <1>2, <1>6, <1>8, <2>1, <2>2, ReleasedSender
<1>10. ASSUME NEW j \in Id, j # id, ~Sent(queue, k, j)
       PROVE  PhaseOK(j)' /\ Fixed(j)
  <2>1. j \notin {id}
    BY <1>10
  <2> QED
    BY <1>1, <1>2, <1>4, <1>8, <1>10, <2>1, UnsentFixed
<1>11. ASSUME NEW j \in Id, Sent(queue, k, j)
       PROVE  PhaseOK(j)' /\ ReceiverPhase(j)' = ReceiverPhase(j) /\ Job(j)' = Job(j)
  <2>1. PICK i \in 1..k : queue[i].id = j
    BY <1>11 DEF Sent
  <2>2. i \in DOMAIN queue /\ j[1] = n
    BY <1>2, <2>1, SendViews
  <2>3. queue[i] \in Waiting(j)
    BY <1>4, <2>1, <2>2, AtIs
  <2> QED
    BY <1>2, <1>3, <2>1, <2>3, SentFixed
<1>12. \A j \in Id : PhaseOK(j)'
  BY <1>9, <1>10, <1>11
<1>13. \A r \in Node : QueueOK(r)'
  <2>1. \A r \in Node : r # n => msg_count'[r] = msg_count[r]
    BY <1>1
  <2> QED
    BY <1>2, <1>3, <2>1, SendQueues
<1>14. PICK op \in Op : op = id
  <2>1. id[2] < msg_count[id[1]]
    BY <1>1, WaitingFacts DEF Unsent
  <2> QED
    BY <1>1, <2>1, ActiveOp
<1>15. PICK phase : phase = [[o \in Op |-> SenderPhase(o)] EXCEPT ![op] = "done"]
  OBVIOUS
<1>16. Told(phase, n, base, queue)
  <2> SUFFICES ASSUME NEW o \in Op, o[1] = n
               PROVE  /\ phase[o] = "waiting" <=> At(queue, o) # {}
                      /\ phase[o] \in {"holding", "gating", "spent"} <=> At(base, o) # {}
    BY DEF Told
  <2>1. CASE o = op
    BY <1>2, <1>6, <1>14, <1>15, <2>1
  <2>2. CASE o # op
    <3>1. phase[o] = SenderPhase(o)
      BY <1>15, <2>2
    <3>2. At(queue, o) = Waiting(o) /\ At(base, o) = Tx(o)
      BY <1>4, <1>5, <1>14, <2>2 DEF Tx
    <3> QED
      BY <3>1, <3>2, OpIsId, PhaseTells
  <2> QED
    BY <2>1, <2>2
<1>17. [o \in Op |-> SenderPhase(o)'] = Tele!HandOut(phase, n)
  <2>1. \A o \in Op : ~Sent(queue, k, o) => SenderPhase(o)' = phase[o]
    BY <1>9, <1>10, <1>14, <1>15, OpIsId DEF Fixed
  <2>2. Len(base) <= NumQubits
    <3>1. Len(base) \in Nat
      BY <1>2, DomainOfSeq DEF SendStep
    <3> QED
      BY <1>2, <3>1, ParametersAssumption
  <2> QED
    BY <1>2, <1>3, <1>7, <1>16, <2>1, <2>2, HandedOut
<1>18. Tele!Becomes(op, "done", ReceiverPhase(op))
  <2>1. \A o \in Op : ReceiverPhase(o)' = ReceiverPhase(o)
    BY <1>9, <1>10, <1>11, OpIsId DEF Fixed
  <2>2. \A o \in Op : o # op => Job(o)' = Job(o)
    BY <1>10, <1>11, <1>14, OpIsId DEF Fixed
  <2>3. op[1] = n
    BY <1>1, <1>14
  <2>4. [o \in Op |-> ReceiverPhase(o)'] = [[o \in Op |-> ReceiverPhase(o)] EXCEPT ![op] = ReceiverPhase(op)]
    BY <2>1
  <2>5. [o \in Op |-> Job(o)'] = IF ReceiverPhase(op) = "done"
                                 THEN [[o \in Op |-> Job(o)] EXCEPT ![op] = <<>>]
                                 ELSE [o \in Op |-> Job(o)]
    BY <1>9, <1>14, <2>2
  <2> QED
    BY <1>15, <1>17, <2>3, <2>4, <2>5 DEF Tele!Becomes, Tele!NoJob
<1>19. TeleStep
  BY <1>9, <1>14, <1>18, Proceeds DEF Tele!Step, Tele!ReleaseSender
<1> QED
  BY <1>12, <1>13, <1>19 DEF PhaseStep

\* A new operation behind the others is the youngest, and has no result.
LEMMA AppendOrdered ==
  ASSUME NEW S, NEW seq \in Seq(S), NEW it \in S, Ordered(seq), Blank(seq),
         \A i \in DOMAIN seq : seq[i].id[2] < it.id[2], it.x = FALSE, it.z = FALSE
  PROVE  Ordered(Append(seq, it)) /\ Blank(Append(seq, it))
<1>1. PICK queue : queue = Append(seq, it)
  OBVIOUS
<1>2. /\ DOMAIN queue = 1..(Len(seq) + 1) /\ DOMAIN seq = 1..Len(seq) /\ Len(seq) \in Nat
      /\ \A i \in 1..Len(seq) : queue[i] = seq[i]
      /\ queue[Len(seq) + 1] = it
  <2>1. queue \in Seq(S) /\ Len(queue) = Len(seq) + 1
    BY <1>1, AppendProperties
  <2> QED
    BY <1>1, <2>1, AppendProperties, DomainOfSeq
<1>3. ASSUME NEW i \in DOMAIN queue
      PROVE  \/ i = Len(seq) + 1 /\ queue[i] = it
             \/ i # Len(seq) + 1 /\ i \in DOMAIN seq /\ queue[i] = seq[i]
  <2>1. i \in 1..(Len(seq) + 1)
    BY <1>2
  <2>2. i = Len(seq) + 1 \/ i \in 1..Len(seq)
    BY <1>2, <2>1
  <2> QED
    BY <1>2, <2>2
<1>4. Blank(queue)
  BY <1>3 DEF Blank
<1>5. Ordered(queue)
  <2> SUFFICES ASSUME NEW i \in DOMAIN queue, NEW j \in DOMAIN queue, i < j
               PROVE  queue[i].id[2] < queue[j].id[2]
    BY DEF Ordered
  <2>1. i \in DOMAIN seq /\ queue[i] = seq[i]
    BY <1>2, <1>3
  <2> QED
    BY <1>3, <2>1 DEF Ordered
<1> QED
  BY <1>1, <1>4, <1>5

\* The operation that Run starts.
LEMMA StartedPhase ==
  ASSUME OneQubit, OInv, OInv', NEW n \in Node, NEW base, NEW queue, NEW k,
         SendStep(n, base, queue, k, {}), Blank(queue),
         NEW item \in Item(n), NEW op \in Id, op[1] = n, op[2] = msg_count[n],
         At(queue, op) = {item}, PhaseOK(op), Evs(op)' = Evs(op)
  PROVE  /\ PhaseOK(op)' /\ SenderPhase(op) = "new"
         /\ ReceiverPhase(op) = "idle" /\ ReceiverPhase(op)' = "idle"
         /\ SenderPhase(op)' = IF Sent(queue, k, op) THEN "holding" ELSE "waiting"
         /\ Job(op)' = <<item.protocol, Peers[n][item.peer]>>
<1>1. op[2] >= msg_count[op[1]] /\ Unsent(op) /\ Untouched(op)
  <2>1. msg_count[n] \in Nat
    BY WaitingFacts
  <2> QED
    BY <2>1, OpFacts DEF Unsent, KeysOK
<1>2. SenderPhase(op) = "new" /\ ReceiverPhase(op) = "idle"
  BY <1>1, PhaseTells, UnsentIdle
<1>3. CASE Sent(queue, k, op)
  <2>1. PICK i \in 1..k : queue[i].id = op
    BY <1>3 DEF Sent
  <2>2. i \in DOMAIN queue
    BY <2>1, SendViews
  <2>3. queue[i] = item
    <3>1. queue[i] \in At(queue, op)
      BY <2>1, <2>2, AtIs
    <3> QED
      BY <3>1
  <2>4. /\ PhaseOK(op)' /\ SenderPhase(op)' = "holding" /\ ReceiverPhase(op)' = "idle"
        /\ Job(op)' = <<queue[i].protocol, Peers[n][queue[i].peer]>>
    BY <2>1, SentPhase
  <2> QED
    BY <1>2, <1>3, <2>3, <2>4
<1>4. CASE ~Sent(queue, k, op)
  <2>1. Calm(op)
    <3>1. op \notin {}
      OBVIOUS
    <3> QED
      BY <1>4, <3>1, UnsentCalm
  <2>2. PhaseOK(op)'
    BY <2>1, CalmPhase
  <2>3. Waiting(op)' = {item}
    BY <1>4, SendViews
  <2>4. SenderLooks(op)' /\ ReceiverLooks(op)' /\ JobLooks(op)'
    BY EveryoneLooks DEF AllLook, Looks
  <2>5. SenderPhase(op)' = "waiting"
    BY <2>3, <2>4 DEF SenderLooks
  <2>6. NoRx(op)' /\ \A r \in Node : Kept(r, op)' = {}
    BY <1>1, <2>1 DEF Calm, Untouched, NoRx
  <2>7. ReceiverPhase(op)' = "idle"
    BY <2>4, <2>5, <2>6 DEF ReceiverLooks
  <2>8. Job(op)' = <<item.protocol, Peers[n][item.peer]>>
    BY <2>3, <2>4 DEF JobLooks
  <2> QED
    BY <1>2, <1>4, <2>2, <2>5, <2>7, <2>8
<1> QED
  BY <1>3, <1>4

\* StartApplication and Run: an operation more, behind the others of its node.
LEMMA RunPhase ==
  ASSUME NoOwnPeer, OneQubit, OInv, OInv', \A j \in Id : PhaseOK(j), \A r \in Node : QueueOK(r),
         NEW n \in Node, RunBody(n), msg_count[n] < MaxMsg[n]
  PROVE  PhaseStep /\ \A r \in Node : QueueOK(r)'
<1>1. PICK base, queue, k :
        /\ base = tx_qubits[n] /\ SendStep(n, base, queue, k, {}) /\ events' = events
        /\ NewOperation(n, queue) /\ k = Movable(queue, base)
  BY RunBodySends
<1>2. PICK item \in Item(n) :
        /\ item.id = <<n, msg_count[n]>> /\ item.x = FALSE /\ item.z = FALSE
        /\ queue = Append(tx_queue[n], item)
  BY <1>1 DEF NewOperation
<1>3. msg_count \in [Node -> Nat] /\ MaxMsg[n] \in Nat
  BY ParametersAssumption DEF OInv, DInv, IInv, RestOK
<1>4. PICK op \in Op : op = item.id /\ op \in Id /\ op[1] = n /\ op[2] = msg_count[n]
  <2>1. msg_count[n] \in 0..(MaxMsg[n] - 1)
    BY <1>3
  <2>2. <<n, msg_count[n]>> \in {n} \X (0..(MaxMsg[n] - 1))
    BY <2>1
  <2> QED
    BY <1>2, <2>2, OpIsId DEF Op
<1>5. /\ msg_count'[n] = msg_count[n] + 1
      /\ \A r \in Node : r # n => msg_count'[r] = msg_count[r]
  BY <1>1, <1>3 DEF NewOperation
<1>6. ASSUME NEW j \in Id, j # op
      PROVE  j[2] >= msg_count'[j[1]] <=> j[2] >= msg_count[j[1]]
  <2>1. j[1] \in Node /\ j[2] \in Nat /\ j = <<j[1], j[2]>> /\ op = <<n, msg_count[n]>>
    BY <1>2, <1>4 DEF Id
  <2>2. CASE j[1] = n
    <3>1. j[2] # msg_count[n]
      BY <1>6, <2>1, <2>2
    <3> QED
      BY <1>3, <1>5, <2>1, <2>2, <3>1
  <2>3. CASE j[1] # n
    BY <1>5, <2>1, <2>3
  <2> QED
    BY <2>2, <2>3
<1>7. PICK seq \in Seq(Item(n)) : /\ seq = tx_queue[n] /\ queue = Append(seq, item)
                                  /\ \A i \in DOMAIN seq : seq[i].id[2] < msg_count[n]
  BY <1>2, NodeLists DEF OInv, DInv, WaitingUnheard
<1>8. \A j : At(queue, j) = IF op = j THEN At(seq, j) \cup {item} ELSE At(seq, j)
  <2> SUFFICES ASSUME NEW j
               PROVE  At(queue, j) = IF item.id = j THEN At(seq, j) \cup {item} ELSE At(seq, j)
    BY <1>4
  <2>1. At(Append(seq, item), j) = IF item.id = j THEN At(seq, j) \cup {item} ELSE At(seq, j)
    BY AtAppend
  <2> QED
    BY <1>7, <2>1
<1>9. \A j : j[1] = n => At(seq, j) = Waiting(j)
  BY <1>7 DEF Waiting
<1>10. Untouched(op) /\ Waiting(op) = {} /\ At(queue, op) = {item}
  <2>1. Untouched(op)
    BY <1>3, <1>4, OpFacts DEF KeysOK, Unsent
  <2>2. Waiting(op) = {}
    BY <1>3, <1>4, WaitingFacts
  <2> QED
    BY <1>4, <1>8, <1>9, <2>1, <2>2
<1>11. Ordered(queue) /\ Blank(queue)
  <2>1. Ordered(seq) /\ Blank(seq)
    BY <1>7 DEF QueueOK, Ordered, Blank
  <2> QED
    BY <1>2, <1>4, <1>7, <2>1, AppendOrdered
<1>12. \A r \in Node : QueueOK(r)'
  <2>1. msg_count'[n] <= MaxMsg[n]
    BY <1>3, <1>5
  <2> QED
    BY <1>1, <1>5, <1>11, <2>1, SendQueues
<1>13. \A i \in DOMAIN queue : queue[i].id \in Op
  <2> SUFFICES ASSUME NEW i \in DOMAIN queue, queue[i].id # op PROVE queue[i].id \in Op
    OBVIOUS
  <2>1. queue[i].id[1] = n /\ queue[i] \in Item(n)
    BY <1>1, DomainOfSeq, ElementOfSeq DEF SendStep
  <2>2. PICK j \in Id : j = queue[i].id /\ j[1] = n
    BY <2>1, ItemFields
  <2>3. At(queue, j) # {}
    BY <2>2, AtIs
  <2>4. j[2] < msg_count[j[1]]
    BY <1>8, <1>9, <2>2, <2>3, WaitingFacts
  <2> QED
    BY <2>2, <2>4, ActiveOp
<1>14. \A j : Evs(j)' = Evs(j)
  BY <1>1, ViewsNext DEF Evs
<1>15. ASSUME NEW j \in Id, j # op, ~Sent(queue, k, j)
       PROVE  PhaseOK(j)' /\ Fixed(j)
  <2>1. j \notin {} /\ (j[1] = n => At(queue, j) = Waiting(j))
    BY <1>8, <1>9, <1>15
  <2>2. Evs(j)' = Evs(j)
    BY <1>14
  <2> QED
    BY <1>1, <1>6, <1>15, <2>1, <2>2, UnsentFixed
<1>16. ASSUME NEW j \in Id, j # op, Sent(queue, k, j)
       PROVE  PhaseOK(j)' /\ ReceiverPhase(j)' = ReceiverPhase(j) /\ Job(j)' = Job(j)
  <2>1. PICK i \in 1..k : queue[i].id = j
    BY <1>16 DEF Sent
  <2>2. i \in DOMAIN queue /\ j[1] = n
    BY <1>1, <2>1, SendViews
  <2>3. queue[i] \in Waiting(j)
    <3>1. queue[i] \in At(queue, j)
      BY <2>1, <2>2, AtIs
    <3> QED
      BY <1>8, <1>9, <1>16, <2>2, <3>1
  <2> QED
    BY <1>1, <1>11, <2>1, <2>3, SentFixed
<1>17. /\ PhaseOK(op)' /\ SenderPhase(op) = "new"
       /\ ReceiverPhase(op) = "idle" /\ ReceiverPhase(op)' = "idle"
       /\ SenderPhase(op)' = IF Sent(queue, k, op) THEN "holding" ELSE "waiting"
       /\ Job(op)' = <<item.protocol, Peers[n][item.peer]>>
  <2>1. Evs(op)' = Evs(op) /\ PhaseOK(op)
    BY <1>4, <1>14
  <2> QED
    BY <1>1, <1>4, <1>10, <1>11, <2>1, StartedPhase
<1>18. \A j \in Id : PhaseOK(j)'
  BY <1>15, <1>16, <1>17
<1>19. PICK phase : phase = [[o \in Op |-> SenderPhase(o)] EXCEPT ![op] = "waiting"]
  OBVIOUS
<1>20. Told(phase, n, base, queue)
  <2> SUFFICES ASSUME NEW o \in Op, o[1] = n
               PROVE  /\ phase[o] = "waiting" <=> At(queue, o) # {}
                      /\ phase[o] \in {"holding", "gating", "spent"} <=> At(base, o) # {}
    BY DEF Told
  <2>0. At(base, o) = Tx(o)
    BY <1>1 DEF Tx
  <2>1. CASE o = op
    BY <1>10, <1>19, <2>0, <2>1 DEF Untouched
  <2>2. CASE o # op
    <3>1. phase[o] = SenderPhase(o)
      BY <1>19, <2>2
    <3>2. At(queue, o) = Waiting(o)
      BY <1>8, <1>9, <2>2
    <3> QED
      BY <2>0, <3>1, <3>2, OpIsId, PhaseTells
  <2> QED
    BY <2>1, <2>2
<1>21. [o \in Op |-> SenderPhase(o)'] = Tele!HandOut(phase, n)
  <2>1. \A o \in Op : ~Sent(queue, k, o) => SenderPhase(o)' = phase[o]
    BY <1>15, <1>17, <1>19, OpIsId DEF Fixed
  <2>2. Len(base) <= NumQubits
    BY <1>1 DEF OInv, DInv, IInv, HeldOK, NodeOK
  <2> QED
    BY <1>1, <1>11, <1>13, <1>20, <2>1, <2>2, HandedOut
<1>22. Tele!Start(op, "new")
  <2>1. \A o \in Op : o[1] = op[1] /\ o[2] < op[2] => SenderPhase(o) # "new"
    <3> SUFFICES ASSUME NEW o \in Op, o[1] = n, o[2] < msg_count[n]
                 PROVE  SenderPhase(o) # "new"
      BY <1>4
    <3>1. o \in Id /\ o[2] \in Nat
      BY OpIsId DEF Id
    <3>2. ~(o[2] >= msg_count[o[1]])
      BY <1>3, <3>1
    <3> QED
      BY <3>1, <3>2, PhaseTells
  <2>2. [o \in Op |-> ReceiverPhase(o)'] = [o \in Op |-> ReceiverPhase(o)]
    BY <1>15, <1>16, <1>17, OpIsId DEF Fixed
  <2>3. \A o \in Op : o # op => Job(o)' = Job(o)
    BY <1>15, <1>16, OpIsId DEF Fixed
  <2>4. PICK protocol \in Protocols : protocol = item.protocol
    BY ItemFields
  <2>5. PICK peer \in Node \ {op[1]} : peer = Peers[n][item.peer]
    BY <1>4, ItemFields, PeersFacts DEF NoOwnPeer
  <2>6. [o \in Op |-> Job(o)'] = [[o \in Op |-> Job(o)] EXCEPT ![op] = <<protocol, peer>>]
    BY <1>17, <2>3, <2>4, <2>5
  <2>7. [o \in Op |-> SenderPhase(o)'] = Tele!HandOut([[o \in Op |-> SenderPhase(o)] EXCEPT ![op] = "waiting"], op[1])
    BY <1>4, <1>19, <1>21
  <2> QED
    BY <2>1, <2>2, <2>6, <2>7 DEF Tele!Start
<1>23. TeleStep
  BY <1>17, <1>22, Proceeds DEF Tele!Step
<1> QED
  BY <1>12, <1>18, <1>23 DEF PhaseStep

-----------------------------------------------------------------------------
(***************************************************************************)
(* Every step of the application is one of Teleportation, or none.         *)
(***************************************************************************)
\* A step that starts no operation.
LEMMA NothingStarted ==
  ASSUME PhaseInv, PhaseStep, \A n \in Node : QueueOK(n)', UNCHANGED msg_count,
         \A n \in Node : sock'[n] = "unbound" => sock[n] = "unbound"
  PROVE  TeleStep /\ PhaseInv'
BY DEF PhaseInv, PhaseStep

LEMMA HandlerPhase ==
  ASSUME OneQubit, OInv, OInv', PhaseInv, NEW n \in Node, NEW id,
         \/ QubitSpoiled(n, id) \/ ClassicalSpoiled(n, id) \/ ReceiveQubit(n, id)
         \/ ReceiveClassical(n, id) \/ ReceiveNACK(n, id) \/ ReceiveAWK(n, id)
         \/ SendClassical(n, id) \/ LocalGate(n, id)
  PROVE  TeleStep /\ PhaseInv'
<1>0. failed' = "none" /\ (\A j \in Id : PhaseOK(j)) /\ (\A r \in Node : QueueOK(r))
  BY DEF OInv, PhaseInv
<1>1. CASE QubitSpoiled(n, id) \/ ClassicalSpoiled(n, id)
  <2>1. PICK m \in net : m.type \in {"Qubit", "Classical"} /\ m.dst = n /\ SendNACK(n, m)
    BY <1>1 DEF QubitSpoiled, ClassicalSpoiled, Arrives
  <2>2. UNCHANGED <<sock, msg_count, tx_queue>>
    BY <2>1 DEF SendNACK, held
  <2> QED
    BY <1>0, <2>1, <2>2, SpoiledPhase, SameQueues, NothingStarted
<1>2. CASE ReceiveQubit(n, id)
  <2>1. UNCHANGED <<sock, msg_count, tx_queue>>
    BY <1>2 DEF ReceiveQubit, Abort, held
  <2> QED
    BY <1>0, <1>2, <2>1, ReceiveQubitPhase, SameQueues, NothingStarted
<1>3. CASE ReceiveClassical(n, id)
  <2>1. UNCHANGED <<sock, msg_count, tx_queue>>
    BY <1>3 DEF ReceiveClassical, Abort, held
  <2> QED
    BY <1>0, <1>3, <2>1, ReceiveClassicalPhase, SameQueues, NothingStarted
<1>4. CASE ReceiveNACK(n, id)
  <2>1. UNCHANGED <<sock, msg_count, tx_queue>>
    BY <1>4 DEF ReceiveNACK, Abort, held
  <2> QED
    BY <1>0, <1>4, <2>1, ReceiveNACKPhase, SameQueues, NothingStarted
<1>5. CASE ReceiveAWK(n, id)
  <2>1. UNCHANGED <<sock, msg_count, tx_queue>>
    BY <1>5 DEF ReceiveAWK
  <2> QED
    BY <1>0, <1>5, <2>1, ReceiveAWKPhase, SameQueues, NothingStarted
<1>6. CASE SendClassical(n, id)
  <2>1. UNCHANGED <<sock, msg_count, tx_queue>>
    BY <1>6 DEF SendClassical, held
  <2> QED
    BY <1>0, <1>6, <2>1, SendClassicalPhase, SameQueues, NothingStarted
<1>7. CASE LocalGate(n, id)
  <2>1. UNCHANGED <<sock, msg_count, tx_queue>>
    BY <1>7 DEF LocalGate, Abort, held
  <2> QED
    BY <1>0, <1>7, <2>1, LocalGatePhase, SameQueues, NothingStarted
<1> QED
  BY <1>1, <1>2, <1>3, <1>4, <1>5, <1>6, <1>7

LEMMA ReleaseQubitPhase ==
  ASSUME OneQubit, OInv, OInv', PhaseInv, NEW n \in Node, NEW id, ReleaseQubit(n, id)
  PROVE  TeleStep /\ PhaseInv'
<1>0. failed' = "none" /\ (\A j \in Id : PhaseOK(j)) /\ (\A r \in Node : QueueOK(r))
  BY DEF OInv, PhaseInv
<1>1. PICK e \in events :
        /\ e.fn = "ReleaseQubit" /\ e.node = n /\ e.id = id
        /\ events' = events \ {e}
        /\ \/ e.sender /\ ReleaseAtSender(n, id)
           \/ /\ ~e.sender /\ CanReleaseRx(n, id) /\ ReleaseAtReceiver(n, id, {})
              /\ UNCHANGED <<sock, msg_count, tx_queue, tx_qubits, storage>>
  BY <1>0 DEF ReleaseQubit
<1>2. CASE e.sender
  <2>1. UNCHANGED <<sock, msg_count>>
    BY <1>1, <1>2, ReleaseAtSenderSends
  <2>2. PhaseStep /\ \A r \in Node : QueueOK(r)'
    BY <1>0, <1>1, <1>2, ReleaseSenderPhase
  <2> QED
    BY <2>1, <2>2, NothingStarted
<1>3. CASE ~e.sender
  <2>1. UNCHANGED <<sock, msg_count, tx_queue, tx_qubits, storage>>
    BY <1>1, <1>3
  <2>2. PhaseStep
    BY <1>0, <1>1, <1>3, <2>1, ReleaseReceiverPhase
  <2> QED
    BY <1>0, <2>1, <2>2, SameQueues, NothingStarted
<1> QED
  BY <1>2, <1>3

LEMMA StepPhase ==
  ASSUME NoOwnPeer, OneQubit, \A n \in Node : MaxMsg[n] >= 1,
         OInv, OInv', PhaseInv, [Next]_vars
  PROVE  TeleStep /\ PhaseInv'
<1>0. /\ failed' = "none" /\ (\A j \in Id : PhaseOK(j)) /\ (\A r \in Node : QueueOK(r))
      /\ \A r \in Node : sock[r] = "unbound" => msg_count[r] = 0
  BY DEF OInv, PhaseInv
<1>1. ASSUME NEW n \in Node, StartApplication(n) \/ Run(n)
      PROVE  TeleStep /\ PhaseInv'
  <2>1. RunBody(n)
    BY <1>1 DEF StartApplication, Run
  <2>2. msg_count[n] < MaxMsg[n]
    <3>1. CASE Run(n)
      BY <3>1 DEF Run
    <3>2. CASE StartApplication(n)
      <4>1. msg_count[n] = 0 /\ MaxMsg[n] \in Nat /\ MaxMsg[n] >= 1
        BY <1>0, <3>2, ParametersAssumption DEF StartApplication
      <4> QED
        BY <4>1
    <3> QED
      BY <1>1, <3>1, <3>2
  <2>3. PhaseStep /\ \A r \in Node : QueueOK(r)'
    BY <1>0, <2>1, <2>2, RunPhase
  <2>4. sock'[n] # "unbound" /\ \A r \in Node : r # n => sock'[r] = sock[r]
    <3>1. sock \in [Node -> {"unbound", "bound", "closed"}]
      BY DEF OInv, DInv, IInv, RestOK
    <3> QED
      BY <1>0, <2>1, <3>1 DEF RunBody, Abort
  <2>5. \A r \in Node : r # n => msg_count'[r] = msg_count[r]
    <3>1. msg_count \in [Node -> Nat]
      BY DEF OInv, DInv, IInv, RestOK
    <3> QED
      BY <2>1, <3>1, RunBodySends DEF NewOperation
  <2>6. \A r \in Node : sock'[r] = "unbound" => msg_count'[r] = 0
    BY <1>0, <2>4, <2>5
  <2> QED
    BY <2>3, <2>6 DEF PhaseInv, PhaseStep
<1>2. CASE Lose \/ (\E n \in Node : StopApplication(n)) \/ UNCHANGED vars
  <2>1. net' \subseteq net /\ UNCHANGED <<held, events, msg_count, tx_queue>>
    BY <1>2 DEF Lose, StopApplication, vars, held
  <2>2. \A n \in Node : sock'[n] = "unbound" => sock[n] = "unbound"
    <3>1. sock \in [Node -> {"unbound", "bound", "closed"}]
      BY DEF OInv, DInv, IInv, RestOK
    <3> QED
      BY <1>2, <3>1 DEF Lose, StopApplication, vars
  <2> QED
    BY <1>0, <2>1, <2>2, QuietPhase, SameQueues, NothingStarted
<1>3. ASSUME NEW n \in Node, NEW id,
             \/ QubitSpoiled(n, id) \/ ClassicalSpoiled(n, id) \/ ReceiveQubit(n, id)
             \/ ReceiveClassical(n, id) \/ ReceiveNACK(n, id) \/ ReceiveAWK(n, id)
             \/ SendClassical(n, id) \/ LocalGate(n, id)
      PROVE  TeleStep /\ PhaseInv'
  BY <1>3, HandlerPhase
<1>4. ASSUME NEW n \in Node, NEW id, ReleaseQubit(n, id)
      PROVE  TeleStep /\ PhaseInv'
  BY <1>4, ReleaseQubitPhase
<1> QED
  BY <1>1, <1>2, <1>3, <1>4 DEF Next

LEMMA InitPhase ==
  ASSUME OneQubit, Init
  PROVE  PhaseInv /\ Tele!Init
<1>0. OInv
  BY InitOInv
<1>1. ASSUME NEW id \in Id
      PROVE  /\ Untouched(id) /\ PhaseOK(id)
             /\ SenderPhase(id) = "new" /\ ReceiverPhase(id) = "idle" /\ Job(id) = <<>>
  <2>1. id[1] \in Node /\ id[2] \in Nat /\ msg_count[id[1]] = 0
    BY DEF Init, Id
  <2>2. id[2] >= msg_count[id[1]] /\ Unsent(id)
    BY <2>1 DEF Unsent
  <2>3. Untouched(id)
    BY <1>0, <2>2, OpFacts DEF KeysOK
  <2>4. Waiting(id) = {}
    BY <1>0, <2>1, WaitingFacts
  <2>5. PhaseOK(id)
    BY <2>1, <2>3 DEF Untouched, PhaseOK, SenderEnds, Corrected, Releasing, LastEvent, NotYetKept
  <2>6. Job(id) = <<>>
    BY <1>0, <2>3, <2>4, JobLooksSo DEF JobLooks, Untouched, NoRx
  <2> QED
    BY <1>0, <2>2, <2>3, <2>5, <2>6, PhaseTells, UnsentIdle
<1>2. \A n \in Node : QueueOK(n) /\ msg_count[n] = 0
  BY ParametersAssumption DEF Init, QueueOK
<1>3. Tele!Init
  BY <1>1, OpIsId DEF Tele!Init, Tele!NoJob
<1> QED
  BY <1>1, <1>2, <1>3 DEF PhaseInv

\* With one qubit for each direction the application implements Teleportation,
\* whatever is spoiled, lost or stopped: every handler moves one operation on as
\* that asks for, or changes nothing that can be seen there.
THEOREM TeleSpecHolds ==
  ASSUME NoOwnPeer, OneQubit, \A n \in Node : MaxMsg[n] >= 1
  PROVE  Spec => TeleSpec
<1>1. Init => PhaseInv /\ Tele!Init
  BY InitPhase
<1>2. OInv /\ OInv' /\ PhaseInv /\ [Next]_vars => PhaseInv' /\ [Tele!Next]_(Tele!vars)
  BY StepPhase DEF TeleStep
<1> QED
  BY <1>1, <1>2, OperationsInvariant, PTL DEF Spec, TeleSpec, Tele!Spec
=============================================================================
