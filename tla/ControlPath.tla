----------------------------- MODULE ControlPath -----------------------------
(***************************************************************************)
(* Control messages on their way through the network, and the bursts that  *)
(* follow them (model/optical-device.cc).  A control message (CTRL) stops  *)
(* at every switch: it is read, a place is booked for its burst, and it    *)
(* goes through the control queue of the device it leaves by, which takes  *)
(* m_packet_processing and the transmission time, and the same again for   *)
(* each message ahead of it.  The burst passes the switches without a stop *)
(* and catches up: m_packet_delay is the lead the CTRL starts with.  The   *)
(* receiver acknowledges (AWK), a refused or unexpected burst is answered  *)
(* with a NACK, both by the same queues, while CheckSent of the sender     *)
(* runs.                                                                   *)
(*                                                                         *)
(* Whether ScheduleMessage finds a place (OpticalSwitch) is left open, and *)
(* the timeslots, which only put a burst off, are left out.  A message is  *)
(* one attempt here: what the attempts of one message do to each other is  *)
(* in OpticalEndpoint.  The clock jumps to the next scheduled event.       *)
(***************************************************************************)
EXTENDS Integers, SequencesExt

CONSTANTS
  Message,
  Device,
  Path,             \* message |-> the devices it leaves by, the sender's first
  Back,             \* message |-> those of the way back, the receiver's first
  Delay,            \* device |-> GetDelay of its fibre
  Reach,            \* message |-> hop |-> the delays of its way up to that hop
  Return,           \* the same for the way back
  Tx,               \* transmission time of a control message
  Length,           \* transmission time of a burst
  Processing,       \* m_packet_processing
  OpticalProcessing,\* m_optical_processing
  Gap,              \* m_control_frame_gap
  DataGap,          \* m_data_frame_gap
  Propagation,      \* m_switch_propagation_delay
  TotalPropagation, \* m_total_propagation_delay
  PacketDelay,      \* m_packet_delay
  QueueSize,        \* GetMaxSize of a control queue
  Refusing,         \* whether ScheduleMessage may find no place
  SendTimes         \* bound: the instants Send may be called at

\* The propagation delays along a route, added up.
SumsOf(route, sum) ==
  /\ sum \in [0..Len(route) -> Nat] /\ sum[0] = 0
  /\ \A hop \in 1..Len(route) : sum[hop] = sum[hop - 1] + Delay[route[hop]]

ASSUME PathAssumption ==
  /\ Path \in [Message -> Seq(Device)] /\ Back \in [Message -> Seq(Device)]
  /\ \A m \in Message : Len(Path[m]) >= 2 /\ Len(Back[m]) = Len(Path[m])
  /\ Delay \in [Device -> Nat]
  /\ \A m \in Message : SumsOf(Path[m], Reach[m]) /\ SumsOf(Back[m], Return[m])
  /\ {Tx, Length} \subseteq Nat \ {0}
  /\ {Processing, OpticalProcessing, Gap, DataGap} \subseteq Nat
  /\ {Propagation, TotalPropagation, PacketDelay} \subseteq Nat
  /\ QueueSize \in Nat \ {0} /\ Refusing \in BOOLEAN
  /\ SendTimes \subseteq Nat

Type == {"CTRL", "AWK", "NACK"}
Idle == -1
Unsent == -1

VARIABLES
  now,           \* Simulator::Now()
  events,        \* events scheduled, see Event
  queue,         \* device |-> m_control_queue, with the instants of Enqueue
  done,          \* device |-> when ControlTransmitComplete is due, or Idle
  next_transmit, \* device |-> m_next_transmit
  plan,          \* message |-> when its burst leaves, or Unsent
  booked,        \* message |-> switches that have booked its burst
  expected,      \* messages in m_expected of their receiver
  acked, nacked, \* messages whose entry an AWK or a NACK erased
  retried,       \* messages CheckSent sends again
  refused,       \* history: a switch or a full queue refused a control message of it
  late,          \* history: messages whose burst came before its control message
  wait           \* history: message, type |-> time spent in the queues of others

vars == <<now, events, queue, done, next_transmit, plan, booked, expected,
          acked, nacked, retried, refused, late, wait>>

-----------------------------------------------------------------------------
\* hop: the control message, or the burst, is on its way from the hop-th device;
\* a burst at hop 0 has not left.
Event == [fn : {"Receive", "UpdateReceived", "Burst", "SendCTRL", "CheckSent"},
          msg : Message, type : Type, hop : Nat, at : Nat]

On(fn, m, type, hop, at) == [fn |-> fn, msg |-> m, type |-> type, hop |-> hop, at |-> at]

Route(type, m) == IF type = "CTRL" THEN Path[m] ELSE Back[m]

Busy == Tx + Processing + Gap

\* ControlTransmitStart: the message is at the next place a fibre away.
Received(m, type, hop) ==
  On("Receive", m, type, hop, now + Processing + Tx + Delay[Route(type, m)[hop]])

Full(d) == Len(queue[d]) >= QueueSize

\* ControlSend by the hop-th device, given the events that are left and the
\* messages refused so far.
ControlSend(m, type, hop, left, no) ==
  LET d == Route(type, m)[hop]
  IN \/ /\ Full(d)
        /\ refused' = no \cup {m}
        /\ events' = left
        /\ UNCHANGED <<queue, done>>
     \/ /\ ~Full(d) /\ done[d] = Idle
        /\ done' = [done EXCEPT ![d] = now + Busy]
        /\ events' = left \cup {Received(m, type, hop)}
        /\ refused' = no
        /\ UNCHANGED queue
     \/ /\ ~Full(d) /\ done[d] # Idle
        /\ queue' = [queue EXCEPT ![d] =
             Append(@, [msg |-> m, type |-> type, hop |-> hop, since |-> now])]
        /\ events' = left
        /\ refused' = no
        /\ UNCHANGED done

\* The wait in the sender's own queue is part of the lead, see Backlog.
Counts(c) == ~(c.type = "CTRL" /\ c.hop = 1)

ControlTransmitComplete(d) ==
  /\ done[d] = now
  /\ IF queue[d] = <<>>
     THEN done' = [done EXCEPT ![d] = Idle] /\ UNCHANGED <<events, queue, wait>>
     ELSE LET c == Head(queue[d])
          IN /\ done' = [done EXCEPT ![d] = now + Busy]
             /\ queue' = [queue EXCEPT ![d] = Tail(@)]
             /\ events' = events \cup {Received(c.msg, c.type, c.hop)}
             /\ wait' = [wait EXCEPT ![<<c.msg, c.type>>] =
                  IF Counts(c) THEN @ + (now - c.since) ELSE @]
  /\ UNCHANGED <<now, next_transmit, plan, booked, expected, acked, nacked, retried,
                 refused, late>>

-----------------------------------------------------------------------------
\* Mutant of Backlog: the messages in the queue are not counted.
BacklogNone(d) == Processing

\* The wait in the sender's own queue, as GetPacketTransmitTime estimates it.
Backlog(d) ==
  Processing + Busy * (Len(queue[d]) + IF done[d] # Idle THEN 1 ELSE 0)

\* Mutant of CheckTime: no packet delay for the way back.
CheckTimeEarly(send) ==
  send + Length + TotalPropagation + OpticalProcessing + Processing + 1

CheckTime(send) ==
  send + Length + TotalPropagation + OpticalProcessing + PacketDelay + Processing + 1

\* Send at an endpoint.
Send(m) ==
  LET d == Path[m][1]
      estimate == now + Backlog(d) + PacketDelay
      send == IF estimate >= next_transmit[d] THEN estimate ELSE next_transmit[d]
      accepted == ~Full(d)
  IN /\ now \in SendTimes /\ plan[m] = Unsent /\ m \notin refused
     /\ next_transmit' = [next_transmit EXCEPT ![d] = send + Length + DataGap + 1]
     /\ plan' = [plan EXCEPT ![m] = IF accepted THEN send ELSE @]
     /\ ControlSend(m, "CTRL", 1, events \cup
          IF accepted THEN {On("Burst", m, "CTRL", 0, send),
                            On("CheckSent", m, "CTRL", 0, CheckTime(send))} ELSE {},
          refused)
     /\ UNCHANGED <<now, booked, expected, acked, nacked, retried, late, wait>>

\* Receive, rxCallback, and Send at the device the message leaves the switch by.
\* The place stays booked when the queue turns out to be full.  A NACK starts
\* from the device the CTRL came in by.
ReceiveAtSwitch(e) ==
  LET m == e.msg
      left == events \ {e}
  IN /\ e.fn = "Receive" /\ e.hop < Len(Path[m])
     /\ \/ /\ e.type = "CTRL"
           /\ \E fits \in {TRUE, ~Refusing} :
                /\ booked' = IF fits THEN [booked EXCEPT ![m] = e.hop] ELSE booked
                /\ IF fits /\ ~Full(Path[m][e.hop + 1])
                   THEN ControlSend(m, "CTRL", e.hop + 1, left, refused)
                   ELSE ControlSend(m, "NACK", Len(Path[m]) + 1 - e.hop, left, refused \cup {m})
        \/ /\ e.type # "CTRL"
           /\ ControlSend(m, e.type, e.hop + 1, left, refused)
           /\ UNCHANGED booked
     /\ UNCHANGED <<expected, acked, nacked, retried, late>>

\* Receive at an endpoint.  A CTRL is read a processing time later; an AWK or a
\* NACK finds the entry of this attempt unless CheckSent has replaced it, and a
\* NACK cancels its two events.
ReceiveAtEndpoint(e) ==
  LET m == e.msg
      open == m \notin retried \cup acked \cup nacked
      left == events \ {e}
  IN /\ e.fn = "Receive" /\ e.hop = Len(Path[m])
     /\ acked' = IF e.type = "AWK" /\ open THEN acked \cup {m} ELSE acked
     /\ nacked' = IF e.type = "NACK" /\ open THEN nacked \cup {m} ELSE nacked
     /\ events' =
          IF e.type = "CTRL" THEN left \cup {On("UpdateReceived", m, "CTRL", e.hop, now + Processing)}
          ELSE IF e.type = "NACK" /\ open
          THEN {x \in left : x.msg = m => x.fn # "CheckSent" /\ ~(x.fn = "Burst" /\ x.hop = 0)}
          ELSE left
     /\ UNCHANGED <<queue, done, booked, expected, retried, refused, late>>

UpdateReceived(e) ==
  /\ e.fn = "UpdateReceived"
  /\ expected' = expected \cup {e.msg}
  /\ events' = events \ {e}
  /\ UNCHANGED <<queue, done, booked, acked, nacked, retried, refused, late>>

\* The burst goes on from its hop-th stop.  A switch notices its head, an
\* endpoint its tail.
Ahead(m, hop) ==
  On("Burst", m, "CTRL", hop + 1,
     now + Delay[Path[m][hop + 1]] + (IF hop = 0 THEN 0 ELSE Propagation)
         + (IF hop + 1 = Len(Path[m]) THEN Length ELSE 0))

\* DataTransmitStart, and Receive and PassThrough at a switch: a burst no place is
\* booked for is dropped.
BurstPasses(e) ==
  /\ e.fn = "Burst" /\ e.hop < Len(Path[e.msg])
  /\ IF booked[e.msg] >= e.hop
     THEN events' = (events \ {e}) \cup {Ahead(e.msg, e.hop)} /\ UNCHANGED late
     ELSE events' = events \ {e} /\ late' = late \cup {e.msg}
  /\ UNCHANGED <<queue, done, booked, expected, acked, nacked, retried, refused>>

\* Receive at the endpoint: an expected burst is taken, FinalCallback and the AWK
\* follow after the optical processing; for another one there is a NACK.
BurstArrives(e) ==
  /\ e.fn = "Burst" /\ e.hop = Len(Path[e.msg])
  /\ IF e.msg \in expected
     THEN /\ expected' = expected \ {e.msg}
          /\ events' = (events \ {e}) \cup
               {On("SendCTRL", e.msg, "AWK", 1, now + OpticalProcessing)}
          /\ UNCHANGED <<queue, done, refused, late>>
     ELSE /\ late' = late \cup {e.msg}
          /\ ControlSend(e.msg, "NACK", 1, events \ {e}, refused)
          /\ UNCHANGED expected
  /\ UNCHANGED <<booked, acked, nacked, retried>>

SendCTRL(e) ==
  /\ e.fn = "SendCTRL"
  /\ ControlSend(e.msg, e.type, 1, events \ {e}, refused)
  /\ UNCHANGED <<booked, expected, acked, nacked, retried, late>>

\* CheckSent finds the entry of the attempt, unless the AWK has erased it.
CheckSent(e) ==
  /\ e.fn = "CheckSent"
  /\ retried' = IF e.msg \in acked THEN retried ELSE retried \cup {e.msg}
  /\ events' = events \ {e}
  /\ UNCHANGED <<queue, done, booked, expected, acked, nacked, refused, late>>

\* The simulator runs an event that is due.
Run(e) ==
  /\ e.at = now
  /\ \/ ReceiveAtSwitch(e) \/ ReceiveAtEndpoint(e) \/ UpdateReceived(e)
     \/ BurstPasses(e) \/ BurstArrives(e) \/ SendCTRL(e) \/ CheckSent(e)
  /\ UNCHANGED <<now, next_transmit, plan, wait>>

\* The next instant something is scheduled for, or a message may be sent at.
Instants ==
  {e.at : e \in events} \cup {done[d] : d \in {x \in Device : done[x] # Idle}}
    \cup {t \in SendTimes : t > now}

Tick ==
  /\ \A t \in Instants : t > now
  /\ Instants # {}
  /\ now' = Min(Instants)
  /\ UNCHANGED <<events, queue, done, next_transmit, plan, booked, expected, acked,
                 nacked, retried, refused, late, wait>>

Init ==
  /\ now = 0 /\ events = {}
  /\ queue = [d \in Device |-> <<>>]
  /\ done = [d \in Device |-> Idle]
  /\ next_transmit = [d \in Device |-> 0]
  /\ plan = [m \in Message |-> Unsent]
  /\ booked = [m \in Message |-> 0]
  /\ expected = {} /\ acked = {} /\ nacked = {} /\ retried = {}
  /\ refused = {} /\ late = {}
  /\ wait = [x \in Message \X Type |-> 0]

Next ==
  \/ \E m \in Message : Send(m)
  \/ \E e \in events : Run(e)
  \/ \E d \in Device : ControlTransmitComplete(d)
  \/ Tick

Spec == Init /\ [][Next]_vars

-----------------------------------------------------------------------------
(***************************************************************************)
(* Properties.                                                             *)
(***************************************************************************)
\* How long a burst takes from endpoint to endpoint.
Flight(m) == Reach[m][Len(Path[m])] + (Len(Path[m]) - 1) * Propagation

\* What is left of the packet delay when a control message goes through every
\* device of the way without waiting.
Margin(m) == PacketDelay - Len(Path[m]) * (Processing + Tx)

\* A control message has spent more than span in the queues of others, the
\* time in the one it is in included.
WaitedMoreThan(m, type, span) ==
  \/ wait[m, type] > span
  \/ \E d \in Device : \E i \in DOMAIN queue[d] :
       LET c == queue[d][i]
       IN c.msg = m /\ c.type = type /\ Counts(c) /\ wait[m, type] + (now - c.since) > span

\* A burst comes before its control message, at a switch or at the receiver, only
\* if that one was refused or has waited for others in the queues of the switches
\* longer than the packet delay leaves room for.
LateOnlyIfWaited ==
  \A m \in late \ refused : WaitedMoreThan(m, "CTRL", Margin(m))

\* CheckSent sends a message again only if its burst was late, a control message
\* of it was refused, or its AWK has waited: not because the AWK needs longer for
\* the way back than CheckSent allows for.
RetryOnlyIfWaited ==
  \A m \in retried \ (late \cup refused) :
    WaitedMoreThan(m, "AWK", Margin(m) + Processing + TotalPropagation - Flight(m)
                               - Return[m][Len(Back[m])])
=============================================================================
