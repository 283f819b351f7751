# TLA+ verification of the AQN simulator

The repository is a module for the ns-3 simulator: an all-optical network whose
switches schedule bursts ahead of time, carrying a quantum application that
teleports qubits (teledata) or gates (telegate). This directory holds TLA+
models of its stateful parts, the TLC configurations that check them, and TLAPS
proofs. Paths below are relative to the repository.

## 1. Inventory

Every part runs in one thread, event by event, inside the ns-3 simulator. The
hard behaviour comes from the order of events: each handler schedules others
after delays drawn from attributes and random numbers, and packets between
nodes are delayed, spoiled and lost.

### Quantum application (`model/quantum-application.cc`)

- State: two queues of operations waiting for a qubit (`m_tx_queue`,
  `m_rx_queue`), two vectors of operations that hold one (`m_tx_qubits`,
  `m_rx_qubits`), the measured results kept until acknowledged
  (`m_classic_storage`), a record per operation (`m_data`), the peers, the socket.
- Operations: `StartApplication`, `Run` (start an operation), `StopApplication`,
  `DataReceiveCallback` (qubit, classical result, NACK, AWK), `SendClassical`,
  `ApplyConditional`, `ReleaseQubit`, `Send`.
- Interaction: packets to peers; events to itself for the time local operations
  take. A NACK both answers a spoiled packet and calls an operation that waited.
- Correct when: no qubit is used twice or beyond the limit, both halves of an
  entangled pair are held while either is operated on, each operation is driven
  by one thing at a time, ends at both ends, and leaves nothing behind.

### Optical device at an endpoint (`model/optical-device.cc`)

- State: messages sent and not acknowledged with their pending events
  (`m_sent_table`), ids announced (`m_expected`) and received (`m_received`), the
  control queue, the next free instant for a burst (`m_next_transmit`).
- Operations: `Send`/`InternalSend`, `CheckSent`, `Receive`, `UpdateReceived`,
  `FinalCallback`, `SendCTRL`, `ControlTransmit*`, `DataTransmit*`.
- Interaction: a control message travels ahead of every burst and may be refused
  by any switch with a NACK; the receiver answers with an AWK.
- Correct when: a message is handed up at most once, is acknowledged only if it
  was received, and stays in exactly one attempt until then.

### Optical device at a switch (`model/optical-device.cc`)

- State: per device the slot table (`m_schedule_table`), the reservations
  (`m_tx_list`), the bursts passing (`m_packet_map`, `m_channels`),
  `m_is_reconfiguring`.
- Operations: `Send` of a control message with `ScheduleMessage`, `PassThrough`,
  `PassThroughFinish`, `BeginReconfigure`, `CompleteReconfigure`.
- Interaction: the devices of one node read and write each other's tables.
- Correct when: accepted bursts are kept apart, reservations do not reach into a reconfiguration, and
  a burst leaves by the device it was accepted for.

### Optical channel (`model/optical-channel.cc`)

- State: bursts counted per end and channel, packets in the fibre per channel.
- Operations: `PassThrough`, `PassThroughFinished`, `TransmitStart` (stateless).
- Correct when: a packet is marked as dropped exactly if it met a burst of the
  opposite direction, and the mark is final when an endpoint reads it.

### The sending device's timing (`model/optical-device.cc`)

- State: the slot instants, `m_next_transmit`, the control queue,
  `m_is_transmitting_control`, `m_is_transmitting_data`, events of `Simulator`.
- Operations: `GetPacketTransmitTime` with the splitting of a message into control
  message and burst, `ControlSend`, `ControlTransmitStart`/`Complete`,
  `DataTransmitStart`/`Complete`, `BeginReconfigure`.
- Interaction: plans are made in the clock of the node (`TimeNode`), events
  in that of the simulator.
- Correct when: a burst follows its control message by the packet delay, none is
  passed over because another one is being sent, and none is cut by a
  reconfiguration.

### Clock of a node (`model/time-node.cc`)

- State: the last reading, in both clocks. Operations: `GetLocalTime`, `SetLocalTime`.
- Correct when: it never goes back, and its error is bounded by its roundings.

### The way through the network (`model/optical-device.cc`, `examples/sim.cc`)

- A control message stops at every switch and waits in its queues; the burst passes
  and catches up. The packet delay has to be long enough; `sim.cc` builds clusters of
  two layers of switches under a third one, `scripts/instance.sh` works the delay out.
- Correct when: a burst is only late, or sent again, for a reason: a refusal, or a
  wait in queues that exceeds what the packet delay leaves.

### Installation (`helper/optical-helper.cc`, `UpdateRoutes`)

- State: devices and their indices at a node, channels, route tables, the events of
  the simulator. Operations: `Install`, the internet stack (which adds a loopback
  device), `SetEndpoints`, `Initialize`, then `BeginReconfigure` and
  `CompleteReconfigure` of every device for ever.
- Correct when: routes lead to the neighbours, and the devices of a node
  reconfigure in step, since `ScheduleMessage` looks the slots of one up in the
  tables of another.

### The rest

Headers and tags (serialisation), the quantum helper (construction), example, tests and
scripts: see "Not modelled".

## 2. Modules

| module | models |
| --- | --- |
| `QuantumApplication` | the application on every node and the packets between them |
| `Teleportation` | what it promises for an operation |
| `QuantumApplicationRefinement` | the mapping under which the application implements it |
| `OpticalEndpoint` | the retransmission protocol between two endpoints |
| `ReliableLink` | what that protocol promises; `OpticalEndpoint` implements it |
| `TimeNode` | the clock of a node |
| `BurstTiming` | when an endpoint sends; extends `TimeNode` |
| `OpticalSwitch` | the schedule of all devices of one switch, with time |
| `OpticalChannel` | collisions in one fibre |
| `OpticalPath` | endpoints, fibres and a switch composed; extends `OpticalSwitch` |
| `ControlPath` | control messages, bursts and answers over several switches |
| `FatTree` | the network and the routes of `examples/sim.cc` |
| `Installation` | how a network is built, and the reconfigurations of its devices |
| `QuantumApplicationProofs`, `QuantumRefinementProofs`, `OpticalEndpointProofs`, `OpticalChannelProofs`, `OpticalPathProofs`, `ControlPathProofs`, `BurstTimingProofs`, `InstallationProofs` | theorems |
| `MC*` | the instances TLC checks |

How they hang together: `Installation` shows what `OpticalSwitch` assumes, that the
devices of a node reconfigure in one step. `BurstTiming` shows what `OpticalPath` and
`OpticalChannel` assume of a sender: bursts follow each other with a gap, their control
message is ahead, two copies of a message are never in a fibre at once. `ControlPath`
shows what is left of that lead at each switch. `OpticalEndpoint` and
`QuantumApplication` abstract all of this to a network that delays, refuses and loses.

A mutant, an operator whose comment says *Mutant of*, stands just before the
definition it would replace: a plausible bug of that code. No specification uses it.

### QuantumApplication

One action per handler. Variables carry the names of the members without `m_`;
`data` is the set of keys of `m_data`, `net` the packets in flight and `events`
the scheduled events, which run in any order. An assertion that fails stops the
program: `failed` then names the function. A measured bit is only "known" or
"still 255", since its value merely changes a delay. Details that matter and are
kept:

- `ReleaseQubit` at the receiver assigns through a reference to the erased record
  (line 685). If it was the last record nothing visible is written (the place lies
  behind the vector's end, inside its capacity), and no place is kept for the
  promoted operation; otherwise it overwrites another active operation.
- `ApplyConditional` at a teledata sender acknowledges to `m_peers[1]` (line 505).
- `SendNACK` makes a record in `m_data` when there is none (line 637).
- `SendClassical` and `ApplyConditional` at a telegate sender are scheduled by one
  handler for one instant and run one right after the other: one action `LocalGate`.

`net` is a set, so equal packets in flight would be one. `SingleDriver` is what
makes this exact: a handler takes the one thing that drives an operation before
it sends the next, so no packet that matters is sent while its equal is in
flight; two equal AWKs would only be ignored the second time.

### Teleportation and its refinement

For each operation the abstract specification keeps what its sender and its receiver do
(`waiting`, `holding`, `gating`, ... , `done`) and the job they are at; packets and
spoiling are out of sight. The mapping reads the phases off the places of an operation in
the queues and the qubit vectors, and off the kept results. A blind alley (a lost result, a
NACK, a promotion) must be a stutter. It is checked and proved for `NumQubits = 1`: with more
qubits finding 1 stops the program.

### OpticalEndpoint and ReliableLink

`Send`, `CheckSent`, the NACK handler share `InternalSend`. An attempt has two
events, kept as one timer with a stage; `linked` says whether `m_sent_table` still
holds its event ids, so that a resend can cancel them. The receiver's processing
delays are merged with the delivery before them, since nothing else reads its
state in between. The network is everything between the two: it refuses a CTRL
(`Refuse`), spoils or loses a burst, loses a control message. `ReliableLink`
is implemented with its own three variables kept as histories: what `Send` accepted,
how often `FinalCallback` handed each message up, what a full queue gave up.

### OpticalSwitch

Slots and reservations are instants of a discrete clock. `entry` and `tx_list` are the two tables of all devices. The devices of a node start
their reconfigurations in one instant with nothing in between, so these are one
action. A control message may announce any arrival from 0 to `MaxTime`, also one
that is past, and its burst comes at that instant or not at all (cancelled or
lost). A refused burst may still come, when the NACK was late. `forgotten` is a history: which
reservations of other bursts a copy of `PassThroughFinish` has lost, and for which device.

### OpticalChannel

`channels` counts, `packet_map` keeps, `drop` is the set of packets whose tag
carries the mark. A packet stands for its id: no two packets in the fibre at
once have the same id (assumption). Receiving at an endpoint is scheduled by the
call that schedules `PassThroughFinished`, for the same instant, and belongs to it.

### TimeNode and BurstTiming

A reading adds the span since the last one and its rounded share of skew, as
`GetLocalTime` does; `setGlobal`, `setLocal` and `reads` are histories. `BurstTiming`
extends the clock: every handler that plans reads it (`GetLocalTime` is a conjunct of
`InternalSend`, `SendCTRL`, `BeginReconfigure`), and an event is scheduled after a span
of local time taken as a span of the simulator's, as in the code. An attempt is known by
the instant its control message announces. Whether an answer of the network comes, and
when, is open (`ReceiveNACK`, `ReceiveAWK`), and so is what the device answers as a
receiver (`SendCTRL`).

### OpticalPath

`Announce` is `InternalSend` of an endpoint together with the handling of its control
message at the switch, `Lead` or more before the burst. `Length` gives every message the transmission
time of its packet: the application sends packets of 250, 8 and 6 bytes. A burst that was refused may
be launched all the same, its NACK being late, or never come. `Launch`, `Arrive`, `Forward`, `Leave`,
`PassedThrough` are the burst's way up the fibre, through the switch, down the fibre. The
switch's part is that of `OpticalSwitch`, called as an operator. `fibres` is
`m_packet_map` of all channels; `marked` joins the marks of fibres and switch, which are one
tag of the packet. A burst leaves its fibre down only after the device it left the switch by has
finished it: both are due at the earliest in the same instant, and the device's event was scheduled first.

### ControlPath and FatTree

Times are the nanoseconds of the code. An event carries the hop its message is at; the
queue of each device and `m_next_transmit` are kept as they are. A control message that
never waits is handled at the k-th switch
`PacketDelay - k * Tx - (k - 1) * (Processing - Propagation)` before its burst, so the lead
shrinks with every switch; `Margin` is what is left at the end of the way. What a message
has waited in the queues of others is kept in `wait` when it leaves a queue (`Counts` leaves out the
sender's own queue, which `Backlog` has planned for), and `WaitedMoreThan` adds the wait in the queue it
is still in. The delays along a way are added up in `Reach` and `Return`, constants that
`PathAssumption` pins down (`SumsOf`): a fold would say nothing to the provers. A message is one
attempt, timeslots are left out (they only delay a burst), and whether a switch finds a
place is open (`Refusing`). `FatTree` computes links, delays and shortest ways; of the ways
that differ in the column only one is taken.

### Installation

The script's calls come in any order the helpers allow: links and stacks in any order,
then endpoints, then nodes. The simulator's queue is a sequence in the order events
run (by time, then by the order of `Schedule`): new events come behind those due by their
instant. `BeginReconfigure` of all devices of a node is one step; what it schedules lies at
two instants, since a timeslot has a length (`SlotDuration` above zero; with none nothing
could be sent). One event `Other` stands for every event
of something else and schedules itself again after any delay, so that an event of the
very instant of a reconfiguration is among the cases. Clocks may gain at any instant.

## 3. Runs

| run | question | instance | states |
| --- | --- | --- | --- |
| `QA_Ops` | are operations safe and clean under any spoiling, and do they implement `Teleportation`? | 3 mutual peers, both protocols, 1 operation each, 1 qubit per direction | 218 000 |
| `QA_Queues` | does what queues at either end go on, once, and end? | teledata, 1 qubit, one sender with 2 operations, spoiled qubits, fairness | 47 000 |
| `QA_Faults` | does a stop or loss reach an assertion? | one node may stop, any packet may be lost | 709 000 |
| `QA_ItemFound` | *violated*: finding 1 | 2 qubits | until found |
| `EP_Protocol` | does the protocol implement the link? | 2 messages, every fault | 52 000 |
| `CH_Collisions` | are collision marks exact and final? | 4 packets, 2 channels, one packet marked beforehand | 1 800 |
| `BT_Timing` | are leads and gaps kept at the sender? | 2 messages of lengths 1 and 2, 2 attempts each, 1 answer, queue of 1, 2 slots of 4 known, time to 11, a clock of -2/5 read 7 times | 1 432 000 |
| `PA_Path` | is the schedule sound, and what meets in the fibres? | 3 endpoints, packets of lengths 1 and 3, 2 slots of 5, leads of 1 to 3, late NACKs, 3 announcements, time to 9 | 1 534 000 |
| `PA_Unequal` | *violated*: finding 3 | one fibre longer by 2 | until found |
| `SW_Finish` | *violated*: finding 2 | one slot of 6, length 2 | until found |
| `CP_Network` | is a burst late, or sent again, without a reason? | 2 clusters of `sim.cc`, 3 messages over 5 switches, queues of 1, refusals, margin 30 ns | 548 000 |
| `IN_Startup` | do routes lead, do devices stay in step? | 2 endpoints, 1 switch, 3 slots, clocks that gain | 663 000 |

All runs say `CHECK_DEADLOCK FALSE`: each instance has a bounded number of
operations, messages, packets or instants, and the system really has nothing
left to do after them.

**Bounds.** Three mutual peers are the fewest with a wrong `m_peers[1]`, with a
queue at a receiver (two senders, one qubit) and with a node that is sender and
receiver at once. With one qubit per direction an erased record is always the
last; two qubits reach the overwriting (`QA_ItemFound`). `MaxMsg` counts the operations a
node starts, `MaxMessages` the messages handed to `Send`, `MaxUnacked` those not yet
acknowledged, `MaxCopies` the copies of one packet told apart, `MaxTries` the attempts of
a message, `MaxAnswers` what a device sends as a receiver, `MaxReads` the readings of a
clock, `MaxDrift` what a clock gains, `MaxDelay` the delay of an unrelated event, `MaxTime`
and `MaxAnnounced` the instants and control messages at a switch, `SendTimes` the instants
at which messages are handed over. `IdSpace` stands for the 2^16 ids of the code and is
at least `MaxMessages`: they do not wrap.
The readings of `BT_Timing` are those of two reconfigurations and of any five handlers: both
messages sent, sent again, an answer in between, each before and after the others. In `PA_Path`
two messages of one endpoint and one of another are the fewest that queue on a device, cross and
follow each other. Its slots (`D = 5`) are longer than the lead of a control message (1 to 3,
`MaxAhead`), as they are with every configuration of the repository (10000 ns against 738 in the test suite, 1486 in the
example, 1000 in `sim.cc`; `scripts/instance.sh` makes the slot longer than the packet delay): bookings
are made for the slot that is running, while its lists are copied and erased from. A packet of
length 3 and two of length 1 are the fewest with a place inside another. Within these bounds TLC
finds each of the cases the properties excuse and each they are about: a place inside another, two accepted
bursts that overlap only because a copy has lost a place, bursts sent without a place that overlap others on their way down,
meetings in a fibre and marks of the switch that nothing excuses, and accepted bursts in the second slot. In
`CP_Network` the margin is 30 ns, less than the 369 ns one message occupies a queue:
with messages sent at 0, 100 and 700 ns a burst does come late, and is sent again, without
a refusal. With the 365 ns of `instance.sh` that takes more messages than the instance has.

**What the properties say.** `NoOrphan`, `SingleDriver` and `NoZombie` relate an
operation's packets, events and queue places: exactly one of them moves it on, as
long as it holds a qubit, and none does after its end. `TeleSpec` relates
the two ends: neither half of a pair is given away while the other is operated on.
`CleanAtRest` looks at the state when nothing is pending; it allows for the teledata results that line 505 leaks. `AckReachesHolder` is stated for
telegates for the same reason. `LinkSpec` includes that a
message is handed up at most once; `StillTried` relates `m_sent_table`, the pending
events and what the receiver has. `RouteHonoured` relates the acceptance of a
burst to the slot table when its head comes; it leaves out the instant at which a
slot starts, where the order of the head and of `CompleteReconfigure` is not
fixed. `CollisionExact` compares the marks with the history of who met whom.
`LeadKept` relates the order of the control queue to the plans made before it moved.
`NoneCutOff` holds up to the span a slow clock was behind when the burst was planned.
`BookedApart` says what the schedule is worth: two accepted bursts that share a device and a channel
have places apart, with three exceptions (`Excused`), which are what the code does: one place lies inside the other
(line 1366), a copy has lost the place of one of them on every device they share (finding 2), or one was sent without
a place. Nothing else in the moving, copying and erasing of lists loses a place too early.
`SameDirectionApart` carries that on to the fibres; there the way up has no exceptions. `OnlyTailsMeet` and
`SwitchMarksTails` say, of bursts not excused, how much of a collision the places still admit:
bursts of opposite directions are kept apart at the switch only, so one that comes within
`Propagation` and twice the fibre's delay after the other has left its place still meets it. That the switch
then marks every packet on the channel number, also on other devices (line 1229), is modelled; the
property is about the meeting behind the marks.
`LateOnlyIfWaited` and `RetryOnlyIfWaited` give the exact span of waiting a control message
and an AWK can afford. The wait that is not over counts: a control message still in a queue when
its burst passes has waited too, though nothing says so before it leaves. A statement about waits that
are over held of the instance all the same; the proof of it failed, and four senders to one node
on one switch (a queue of 3, a packet delay of 728) refute it.

**Fairness.** The simulator runs every event that is scheduled: weak fairness for
events, deliveries and the start of the applications. A packet sent again and
again is spoiled each time with a probability below one, independently: strong
fairness for its good delivery. At the endpoints a CTRL is refused, a burst
spoiled and a queue full because of random channels and of traffic that passes,
none of them for ever: strong fairness for `UpdateReceived`, `TakeBurst` and
`DataTransmitStart`. Weak fairness for `DropBurst` makes every burst end.

## 4. Findings

1. `model/quantum-application.cc:685`: a reference used after `erase`. With two or
   more qubits a promoted operation overwrites another active one, whose next event
   fails the assertion "Item not found.".
2. `model/optical-device.cc:1299`: `tx_list = src->...` assigns through a reference,
   so that the source's list replaces the leaving device's and bursts are accepted
   over forgotten reservations. `PA_Path` meets the same under the endpoints' own announcements;
   its properties excuse the places lost that way, and only those.
3. `model/optical-device.cc:335`: the arrival is worked out from the fibre a burst leaves
   by, not the one it comes by: with unequal fibres accepted bursts overlap.

Seen while modelling, without a run of their own; where a constant is named, TLC finds
it when that one is changed:

- `model/optical-device.cc:1366`: the overlap test misses a new reservation inside an
  old one, so that a short packet is accepted on top of a long one (`PA_Path` without the `Inside`
  of `Excused`: `BookedApart`). `OverlapsNested` is proved: the test misses nothing else.
- `model/optical-device.cc:871`: `m_received` is never pruned; when the 16-bit ids wrap, a
  message is acknowledged before its burst comes, which is then dropped (`OpticalEndpoint`
  with `IdSpace = 1`: `AckedIsDelivered`).
- `model/optical-device.cc:1189`: when a clock gains an instant between two plans, the second
  burst is due while the first is transmitted and is passed over (`BurstTiming` with a
  positive `Skew`: `BurstsApart`).
- `model/optical-device.cc:637`: a burst planned to start in a reconfiguration, and to end
  after it, is not moved; it reaches the switch while it reconfigures.
- `model/time-node.cc:53`: the skew of each interval is rounded, so a clock read often enough
  shows none of it: `ErrorBounded` is all that can be said.
- `examples/sim.cc:99`: the default packet delay of 1000 ns is used up by the third of five
  switches: `Margin` is negative. `examples/sim.cc:196`: the total propagation delay of 36 ns is
  less than the longest way takes.
- `model/optical-data-header.cc:43` counts 13 bytes where `Serialize` writes 14; nothing adds
  this header.

## 5. Proofs

For every value of the constants that satisfies the assumptions of the module:

- `QuantumApplicationProofs`: `TypeOK`, `QubitLimit`, `WorkConserving`, for any peers,
  number of qubits and faults. The properties of the lists are one predicate per node
  (`NodeOK`), since a handler changes the lists of its own node only
  (`HeldPreserved`). The strengthening is `PeerMessage`: a packet in flight comes from a
  peer of the node it goes to, without which the index that `DataReceiveCallback` looks
  up for a new record might not exist; it rests on peering being mutual
  (`PeersAssumption`).
- In the same module `SingleDriver`, for any peers, number of qubits and faults. Its
  invariant `DInv` is about the set of what drives an operation, every driver tagged with its kind:
  at most one; none for an operation not yet started; an operation in `tx_queue` is its
  node's own, is there once, and nothing else knows of it. Every handler takes its driver
  from the set before it adds another (`OneForOne`), and a promotion turns the head of
  `m_rx_queue` into a NACK; without the last part of the invariant `Run` could start an
  operation twice. It rests on `IInv`, the invariant of the first three.
- In its second part, on the two ends of an operation: `AssertionsHold` for one qubit per direction (`OneQubit`), the default of
  `NumQubits`; `NoZombie` and `AckReachesHolder` for any number; whatever is spoiled, lost or stopped.
  All three take `NoOwnPeer`: both programs that call `AddPeer` leave the node itself out
  (`examples/sim.cc:330`, `examples/quantum-network-example.cc:223`). The invariant `OInv` adds to `DInv`
  what an operation's driver says about its two ends (`MessageOK`, `EventOK`, `QueuedOK`): while a qubit or
  a request for it is under way its sender still holds the qubit and has no result (`Holding`); a
  result of the receiver finds the sender so, and the receiver keeps a copy; a result of the sender finds
  the receiver's item; an AWK is the last packet of its operation. `Untouched` adds that nobody else knows
  of an operation that was not sent. Without `SingleDriver` none of it would be inductive: two drivers
  would want different things of the same ends. The parts about the receiver's items are stated under
  `OneQubit` only, since with two qubits finding 1 destroys them.
- `NoOrphan`, for one qubit, `Lossy = FALSE` and while no socket is closed: a packet
  lost for good, or sent to or by a stopped application, does leave its operation
  waiting. `LiveInv` is the converse of `OInv`: an item of a receiver, or of a sender, has something
  under way (`Alive`), or the sender has its own release pending (`Releasing`). That alone is not
  inductive: in a telegate the AWK of the sender ends the operation at the receiver and drives
  nothing more, so `LiveInv` adds that once the sender's result exists (`Resolved`) its release is
  already pending, and that a result still to be measured has its item operating, without which
  `SendClassical` would be used up for nothing.
- `CleanAtRest`, for `NumQubits = 1` and the other assumptions of `NoOrphan` (without any qubit an
  operation waits for ever, at rest). `LiveInv` empties the lists of qubits; `CleanInv` is about the rest. A
  key of `m_data` is that of a place in a list, or of an operation on its way to one (`SenderKey`,
  `ReceiverKey`, `Coming`): the key that `SendNACK` makes before there is a record is one of these. Whoever
  waits in `m_rx_queue` waits for a held qubit, or for one that is `Coming` (`QueueServed`); this is where
  one qubit matters, since a NACK can promote an operation without giving it a place. The receiver of a
  telegate keeps its result no longer than its qubit (`KeptWaits`, `Dropped`), the sender until its
  acknowledgement (`Owed`), and nothing is kept twice (`KeptOnce`, `NotYetKept`), so that one
  removal is enough.
- `QuantumRefinementProofs`: `TeleSpec`, for one qubit per direction (`OneQubit`), whatever is spoiled, lost
  or stopped, and `MaxMsg[n] >= 1`: the first `Run` of a node is `StartApplication`'s and asks for no bound.
  `SenderLooks`, `ReceiverLooks` and `JobLooks` say what the lists of the two nodes tell of an operation;
  by `OInv` each has one item of it at most, so that a step that leaves an operation's items and results
  alone (`Calm`) leaves its phases. `PhaseInv` adds to `OInv` what the order of the phases needs. An item of a
  sender has its result exactly while its own release is scheduled, and whoever is told that the sender
  is through (an AWK, the result it keeps, the last event at the receiver) is told so
  after that (`SenderEnds`); an item of a receiver is operating as long as its `SendClassical` is scheduled, and
  has its own result only when it is about to go (`RecordPhase`); no result is kept before it was measured (`NotYetKept`);
  and `m_tx_queue` is in the order of `Run` and has no results in it (`QueueOK`). Without the last part `Send`, which
  serves the head of the queue, would not be the abstract `HandOut`, which serves the oldest. With one
  qubit that is one operation or none (`Next1`), and a release and what it starts are one step of `Teleportation`.
- `OpticalEndpointProofs`: `TypeOK`, `LinkSpec`, `AckedIsDelivered`, `StillTried`. `LinkSpec`, that every
  step of the endpoints is a step of the reliable link or a stutter, needs nothing of the ids:
  a message handed up, or on its way up, has its id in `m_received`, where no id is taken twice, and
  every entry of `m_sent_table` is of an accepted message that was not given up, with exactly one
  attempt that it can cancel. The two others assume that ids do not wrap (`NoWrap`); the
  invariant then adds that an id received is that of its message, and that a message not yet
  there has its own entry.
- `OpticalChannelProofs`: `TypeOK`, `FinishFindsPacket`, `CollisionExact`,
  `VerdictFinal`. The inductive invariant says that the count of an end is the
  number of bursts it has in the fibre, that `packet_map` keeps exactly the packets
  crossing on the channel, one crossing each, and that whoever meets an opposite
  burst was marked by the later of the two. Without the first part the test of the
  count would say nothing about who is in the fibre.
- `OpticalPathProofs`, of the switch alone, whose control messages may announce anything, with bursts
  of any lengths: `TypeOK`; `WithinSlot`; and `OverlapsNested`, that two reservations of a list overlap only if the
  later lies strictly inside the earlier. The invariant is a property of every
  single list (`GoodList`): its reservations last as long as a burst does, lie in
  the slot, and are nested in the order of the list if they are not disjoint. It is kept by appending what the
  test lets through (`ClearIsNested`), by the copies `PassThroughFinish` makes, since any good list
  less one element is good, and by the shift of the tables.
- The same module, of the path: `PathTypeOK` and `WithinSlot` for any announcements and fibres,
  and `RouteHonoured` for fibres of one length (`AlikeFibres`). `PathInv` relates
  the clock to the slot the tables begin with; says that the bursts an endpoint has
  planned are apart, since each starts after `m_next_transmit` (`KnownInv`), and that whatever is in a fibre or the switch
  is of a burst under way (`UnderWay`); and that a burst given a place in a slot to come
  is still in the lists of both its devices and has its entry, and in the current slot its entry
  (`PlaceInv`). `RouteHonoured` is that last part when the head comes; an entry is never taken
  back while its slot is open.
- `BookedApart`, `SameDirectionApart`, `OnlyTailsMeet` and `SwitchMarksTails`, for packets of any lengths, slots and
  leads of any length and late NACKs, under `Orderly`: fibres of one length (`AlikeFibres`; otherwise finding 3:
  `PA_Unequal`), and a lead or a propagation delay above zero (`SomeDelay`: with neither, the place
  of a burst that has just passed could be gone in the very instant another is announced for; every configuration of
  the repository has a switch propagation delay of 2 ns). `OrderlyInv` adds
  where the head and tail of whatever is in a fibre or the switch are (`WayInv`), and what a list of
  the running slot still holds (`KeptInv`): the place of every burst that one announced now
  could overlap, unless a copy has lost it. The place of a burst is erased when its tail has left the
  switch, which is before a new burst could come in its place by `SomeDelay` (`FinishKept`), and when
  a slot begins it has all its places by `PlaceInv` (`BeginKept`). So the lists a booking is tested against show each
  place that matters, or `forgotten` names it (`AcceptedApart`). From `BookedApart` the three others
  follow by arithmetic: bursts apart at the switch are apart in a fibre one way, and the other way their
  tails and heads meet only by the time in the fibre and the switch that no list counts.
- `ControlPathProofs`: `LateOnlyIfWaited` and `RetryOnlyIfWaited`, for any ways of two devices or
  more, any delays, processing times and lengths of the queues. The invariant compares every message
  with clocks that never wait: `CtrlDue` for its control message, `HeadDue` for its burst, `AnswerDue` for
  its AWK. `HeraldOK` says that the control message is one hop behind its last booking and behind
  its clock by no more than `wait`; `BurstOK` that the burst keeps to its own exactly; so a burst that
  finds nothing booked shows how long the control message has waited (`LateReason`). That it is under
  way at all, and not refused or lost, is `Heralded`. `Answered` and `CheckOK` do the same for the
  AWK and `CheckSent` (`RetryReason`). Neither would be inductive without `LaneInv`, which counts the places
  ahead of a control message in its sender's queue against the lead of its burst, and `PlaceInv`: a
  control message is in one place, so that what it has waited is counted once.
- `BurstTimingProofs`, of the clock alone: `ClockTypeOK`; `ErrorBounded`, that a reading is off by at
  most half a nanosecond per reading since the clock was set; `NeverBack`. The facts about integer
  division (how far `Rounded` is from the quotient) are lemmas; the invariant adds that right after a
  setting nothing was read.
- The same module, of the sending device: `TypeOK`, `ErrorBounded` and `OneCopyInFibre` with no condition beyond the
  module's; `LeadKept` for a packet delay above zero (`PositiveDelay`; at zero the control message
  and the burst are events of one instant); `BurstsApart` for a clock that is not fast (`NotFast`,
  see the finding about line 1189); `NoneCutOff` for one that, besides, moves whenever the
  simulator's does (`Running`: the skew is above minus one half). `TInv` adds to the types that no event and
  no timer is ever past, since the clock moves only when nothing is due, and that the slot table holds
  `ScheduleSize` slots that differ. `LeadInv` counts what is ahead of a control message in the
  queue: its turn comes in time for the burst planned when it was queued, and nothing is put
  in before it. `ApartInv` relates every planned burst to `m_next_transmit` in the
  simulator's clock. `CopyInv` says that a message has at most one burst to come, after a resend has cancelled
  the other. `SlotInv` names for each slot of the table the instant the network really begins
  it, and bounds the difference by what the clock is behind; without it nothing would relate a
  plan, which is made from the table, to the reconfigurations.
- `InstallationProofs`: `TypeOK`, `RoutesLead`, `InStep`, for any nodes, finitely many links, any
  delays, drifts and order of the calls. `IInv` says what the helpers leave behind: every optical
  device is in one place of one node's list, its channel has two installed ends, and a node not
  yet initialized has no slots and nothing in the queue. `RoutesLead` follows, since a route is an
  index into that very list. For `InStep` the invariant `SInv` is about the simulator's queue: the
  events of one kind, node and instant stand side by side, each device of the node once
  (`OrderInv`), so that the handlers of a node's devices run one after another with nothing
  between. It is kept because what a `BeginReconfigure` schedules comes behind everything due by
  its instant, and the devices of a node schedule it in the order they run. Within a turn the
  devices that have run are one reconfiguration ahead of those that have not (`TurnInv`, `PaceInv`);
  devices that have begun equally often have the same slots, which are `ScheduleSize` of them
  (`SlotsInv`) because each turn takes one away and adds one above all others. Without
  the order of the queue `InStep` would not be inductive: an event of the same instant could come
  between two devices and find their tables unlike.

The two lemmas of sequences and least indices that several of these need stand in each of them.

Every safety property of the runs that pass is proved. Only model-checked: liveness
(`EveryOperationCompletes`, `Served`), which is out of the prover's reach. `NoOrphan`, `CleanAtRest`
and `TeleSpec` with more than one qubit per direction are not proved; finding 1 is about that case.

## 6. Plan

Done: all stateful parts of the inventory. Left:

1. `BurstTiming` with the timeslots of `ControlPath`, and several attempts of a message there.

## Not modelled

- Headers and tags: fixed layouts without state. The models carry their fields as records.
  The four places that write or read the 26 bytes of a control message by offset agree.
- `RemovePeer`: called by no code of the repository. `SetQueue`, attribute setters, `EnablePcap`,
  the quantum helper: they only pass values on. Traces, logs and statistics.
- Random waiting times: any order of events stands for them. The random choice of a channel is
  any choice where several channels are modelled.
- What `sim.cc` and the example build beyond the network: applications are those of
  `QuantumApplication`; output is left out.
- The wrap of the 16-bit device addresses: it would need 65536 devices.
