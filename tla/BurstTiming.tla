----------------------------- MODULE BurstTiming -----------------------------
(***************************************************************************)
(* When an endpoint's OpticalDevice sends (model/optical-device.cc): the   *)
(* instants at which control messages and bursts leave it.                 *)
(*                                                                         *)
(* InternalSend plans a burst (GetPacketTransmitTime): late enough for its *)
(* control message to be PacketDelay ahead, after the burst planned before *)
(* it (m_next_transmit), and out of a reconfiguration that would cut it.   *)
(* The plan is in the clock of the node, the events in that of the         *)
(* simulator; the two differ by the skew of TimeNode.  Control messages    *)
(* wait in m_control_queue and go out one at a time.  CheckSent, NACKs and *)
(* AWKs act as in OpticalEndpoint, which leaves out all instants.          *)
(*                                                                         *)
(* Events of one instant run in any order, and the clock moves when none   *)
(* is left.                                                                *)
(***************************************************************************)
EXTENDS TimeNode, Sequences

CONSTANTS
  PacketProcessing,   \* m_packet_processing
  TxControl,          \* transmission time of a control message, all of one size
  ControlFrameGap,    \* m_control_frame_gap
  DataFrameGap,       \* m_data_frame_gap
  PacketDelay,        \* m_packet_delay
  TotalPropagation,   \* m_total_propagation_delay
  OpticalProcessing,  \* m_optical_processing
  FibreDelay,         \* GetDelay of the fibre the device is attached to
  R,                  \* m_reconfigure_time
  D,                  \* m_timeslot_duration
  ScheduleSize,       \* m_schedule_size
  QueueSize,          \* GetMaxSize of m_control_queue
  Durations,          \* transmission times of the messages handed to Send
  MaxMessages,        \* bound: messages handed to Send
  MaxAnswers,         \* bound: AWKs and NACKs this device sends as a receiver
  MaxTries            \* bound: times one message is sent

ASSUME TimingAssumption ==
  /\ {PacketProcessing, ControlFrameGap, DataFrameGap, PacketDelay, TotalPropagation,
      OpticalProcessing, FibreDelay, QueueSize} \subseteq Nat
  /\ TxControl \in Nat \ {0} /\ R \in Nat \ {0} /\ D \in Nat \ {0}
  /\ ScheduleSize \in Nat \ {0}
  /\ Durations \subseteq Nat \ {0}
  /\ {MaxMessages, MaxAnswers, MaxTries} \subseteq Nat
  /\ MaxReads >= 1   \* the clock has been read in Init

Message == 1..MaxMessages
Answer == 0              \* in place of a message: an AWK or a NACK
None == -1

VARIABLES
  slots,         \* the keys of m_schedule_table
  reconfigure,   \* when the next BeginReconfigure runs
  next_transmit, \* m_next_transmit
  queue,         \* m_control_queue
  sending,       \* the control message being transmitted: m_is_transmitting_control
  data_until,    \* when DataTransmitComplete runs, or None: m_is_transmitting_data
  duration,      \* message |-> transmission time, or None before Send
  sent_table,    \* m_sent_table: message |-> its attempt, or None
  timers,        \* DataTransmitStart and CheckSent events
  tries,         \* message |-> attempts planned
  answers,       \* AWKs and NACKs put in the queue
  entered,       \* history: control messages that entered the fibre, and when
  left           \* history: bursts that entered the fibre, and when

slotVars == <<slots, reconfigure>>
controlVars == <<queue, sending>>
messageVars == <<duration, sent_table, timers, tries>>
vars == <<clockVars, slotVars, next_transmit, controlVars, data_until, messageVars,
          answers, entered, left>>

-----------------------------------------------------------------------------
\* An attempt to send a message is known by the instant its control message
\* announces for the burst, in the clock of the node: no two are equal.
Control == [msg : Message \cup {Answer}, send : Int]
Transmission == [msg : Message \cup {Answer, None}, send : Int, start : Int, launched : BOOLEAN]
Timer == [fn : {"data", "check"}, msg : Message, send : Int, at : Int, horizon : Int]

\* No control message is being transmitted.
Idle == [msg |-> None, send |-> 0, start |-> None, launched |-> FALSE]

Local == lastLocal + Elapsed

EarliestOf(S) == CHOOSE x \in S : \A y \in S : x <= y
LatestOf(S) == CHOOSE x \in S : \A y \in S : y <= x

\* Mutant of Backlog: the message in transmission is forgotten.
BacklogQueued == Len(queue)

\* The control messages ahead of a new one.
Backlog == Len(queue) + IF sending = Idle THEN 0 ELSE 1

Estimate ==
  Local + PacketProcessing + PacketDelay
        + (TxControl + PacketProcessing + ControlFrameGap) * Backlog

Earliest == IF Estimate >= next_transmit THEN Estimate ELSE next_transmit

\* Mutant of Cut: the propagation is left out.
CutAtSender(d) ==
  {s \in slots : Earliest + d >= s - R /\ Earliest + d < s}

\* The timeslots before which a burst planned for Earliest would still be under
\* way when the network reconfigures.
Cut(d) ==
  LET total == Earliest + d + TotalPropagation
  IN {s \in slots : total >= s - R /\ total < s}

\* GetPacketTransmitTime for a burst that takes d.
TransmitTime(d) == IF Cut(d) = {} THEN Earliest ELSE EarliestOf(Cut(d))

\* Mutant of NextTransmit: without the last nanosecond.
NextTransmitTight(send, d) == send + d + DataFrameGap

NextTransmit(send, d) == send + d + DataFrameGap + 1

\* ControlTransmitStart: the message enters the fibre after the processing.
Started(c) == [msg |-> c.msg, send |-> c.send, start |-> now + PacketProcessing,
               launched |-> FALSE]

\* Mutant of Full: one message too many.
FullLate == Len(queue) > QueueSize

Full == Len(queue) >= QueueSize

\* ControlSend when the queue is not full.
Enqueue(c) ==
  LET waiting == Append(queue, c)
  IN IF sending = Idle
     THEN sending' = Started(Head(waiting)) /\ queue' = Tail(waiting)
     ELSE queue' = waiting /\ UNCHANGED sending

(***************************************************************************)
(* InternalSend for message m, given the events that are left.  The place  *)
(* of the burst is taken (m_next_transmit) even when the queue is full and *)
(* the message is given up.                                                *)
(***************************************************************************)
InternalSend(m, d, table, events) ==
  LET send == TransmitTime(d)
      at == now + (send - Local)
      check == at + d + TotalPropagation + OpticalProcessing + PacketDelay
                  + PacketProcessing + 1
      event(fn, time) == [fn |-> fn, msg |-> m, send |-> send, at |-> time,
                          horizon |-> LatestOf(slots)]
  IN /\ tries[m] < MaxTries
     /\ GetLocalTime
     /\ tries' = [tries EXCEPT ![m] = @ + 1]
     /\ next_transmit' = NextTransmit(send, d)
     /\ IF Full
        THEN /\ sent_table' = table /\ timers' = events
             /\ UNCHANGED controlVars
        ELSE /\ Enqueue([msg |-> m, send |-> send])
             /\ sent_table' = [table EXCEPT ![m] = send]
             /\ timers' = events \cup {event("data", at), event("check", check)}

\* Send at an endpoint.
Send(m, d) ==
  /\ duration[m] = None
  /\ \A k \in 1..(m - 1) : duration[k] # None
  /\ duration' = [duration EXCEPT ![m] = d]
  /\ InternalSend(m, d, sent_table, timers)
  /\ UNCHANGED <<slotVars, data_until, answers, entered, left>>

\* SendCTRL: the device answers a message it receives; at a full queue the
\* answer is lost.
SendCTRL ==
  /\ answers < MaxAnswers
  /\ answers' = answers + 1
  /\ GetLocalTime
  /\ IF Full THEN UNCHANGED controlVars ELSE Enqueue([msg |-> Answer, send |-> 0])
  /\ UNCHANGED <<slotVars, next_transmit, data_until, messageVars, entered, left>>

-----------------------------------------------------------------------------
\* Mutant of Others: nothing is cancelled.
OthersAll(m) == timers

\* The events left once those of m's entry are cancelled.
Others(m) == {t \in timers : t.msg # m \/ t.send # sent_table[m]}

\* CheckSent.
CheckSent ==
  \E t \in timers :
    /\ t.fn = "check" /\ t.at = now
    /\ IF sent_table[t.msg] = None
       THEN /\ timers' = timers \ {t}
            /\ UNCHANGED <<clockVars, next_transmit, controlVars, sent_table, tries>>
       ELSE InternalSend(t.msg, duration[t.msg], [sent_table EXCEPT ![t.msg] = None],
                         Others(t.msg) \ {t})
    /\ UNCHANGED <<slotVars, data_until, duration, answers, entered, left>>

\* Receive, a NACK: a switch refused the control message of this attempt or of
\* an earlier one, or the receiver could not take the burst.
ReceiveNACK(m) ==
  /\ \E c \in entered : c.msg = m
  /\ sent_table[m] # None
  /\ InternalSend(m, duration[m], [sent_table EXCEPT ![m] = None], Others(m))
  /\ UNCHANGED <<slotVars, data_until, duration, answers, entered, left>>

\* Receive, an AWK: the entry goes, its events still run.
ReceiveAWK(m) ==
  /\ \E b \in left : b.msg = m
  /\ sent_table[m] # None
  /\ sent_table' = [sent_table EXCEPT ![m] = None]
  /\ UNCHANGED <<clockVars, slotVars, next_transmit, controlVars, data_until, duration, timers,
                 tries, answers, entered, left>>

-----------------------------------------------------------------------------
\* TransmitStart of the fibre, scheduled by ControlTransmitStart.
TransmitStart ==
  /\ sending # Idle /\ ~sending.launched /\ sending.start = now
  /\ sending' = [sending EXCEPT !.launched = TRUE]
  /\ entered' = entered \cup
       IF sending.msg = Answer THEN {}
       ELSE {[msg |-> sending.msg, send |-> sending.send, at |-> now]}
  /\ UNCHANGED <<clockVars, slotVars, next_transmit, queue, data_until, messageVars, answers, left>>

\* ControlTransmitComplete: the next message of the queue follows.
ControlDone == sending.start + TxControl + ControlFrameGap

ControlTransmitComplete ==
  /\ sending # Idle /\ sending.launched /\ ControlDone = now
  /\ IF queue = <<>>
     THEN sending' = Idle /\ UNCHANGED queue
     ELSE sending' = Started(Head(queue)) /\ queue' = Tail(queue)
  /\ UNCHANGED <<clockVars, slotVars, next_transmit, data_until, messageVars, answers, entered, left>>

\* DataTransmitStart: the burst leaves, unless one is being transmitted.
DataTransmitStart ==
  \E t \in timers :
    /\ t.fn = "data" /\ t.at = now
    /\ timers' = timers \ {t}
    /\ IF data_until = None
       THEN /\ data_until' = now + duration[t.msg] + DataFrameGap
            /\ left' = left \cup {[msg |-> t.msg, send |-> t.send, at |-> now,
                                   horizon |-> t.horizon]}
       ELSE UNCHANGED <<data_until, left>>
    /\ UNCHANGED <<clockVars, slotVars, next_transmit, controlVars, duration, sent_table, tries,
                   answers, entered>>

DataTransmitComplete ==
  /\ data_until = now
  /\ data_until' = None
  /\ UNCHANGED <<clockVars, slotVars, next_transmit, controlVars, messageVars, answers, entered, left>>

\* BeginReconfigure: the tables move up, and nothing new is planned for before
\* the next timeslot.
BeginReconfigure ==
  LET moved == (slots \ {EarliestOf(slots)}) \cup {Local + R + (R + D) * (ScheduleSize - 1)}
  IN /\ reconfigure = now
     /\ GetLocalTime
     /\ reconfigure' = now + R + D
     /\ slots' = moved
     /\ next_transmit' = IF next_transmit < EarliestOf(moved) THEN EarliestOf(moved)
                         ELSE next_transmit
     /\ UNCHANGED <<controlVars, data_until, messageVars, answers, entered, left>>

-----------------------------------------------------------------------------
Due ==
  \/ \E t \in timers : t.at = now
  \/ sending # Idle /\ (IF sending.launched THEN ControlDone ELSE sending.start) = now
  \/ data_until = now
  \/ reconfigure = now

Advance ==
  /\ ~Due
  /\ Tick
  /\ UNCHANGED <<slotVars, next_transmit, controlVars, data_until,
                 messageVars, answers, entered, left>>

\* The first BeginReconfigure has read the clock and run, at time 0.
Init ==
  /\ now = 0
  /\ lastGlobal = 0 /\ lastLocal = 0 /\ setGlobal = 0 /\ setLocal = 0 /\ reads = 1
  /\ slots = {R + k * (R + D) : k \in 0..(ScheduleSize - 1)}
  /\ reconfigure = R + D
  /\ next_transmit = R
  /\ queue = <<>> /\ sending = Idle /\ data_until = None
  /\ duration = [m \in Message |-> None]
  /\ sent_table = [m \in Message |-> None]
  /\ timers = {} /\ entered = {} /\ left = {}
  /\ tries = [m \in Message |-> 0]
  /\ answers = 0

Next ==
  \/ \E m \in Message, d \in Durations : Send(m, d)
  \/ \E m \in Message : ReceiveNACK(m) \/ ReceiveAWK(m)
  \/ SendCTRL
  \/ CheckSent
  \/ TransmitStart
  \/ ControlTransmitComplete
  \/ DataTransmitStart
  \/ DataTransmitComplete
  \/ BeginReconfigure
  \/ Advance

Spec == Init /\ [][Next]_vars

-----------------------------------------------------------------------------
(***************************************************************************)
(* Properties.                                                             *)
(***************************************************************************)
Entered == [msg : Message, send : Int, at : Nat]
Left == [msg : Message, send : Int, at : Nat, horizon : Int]

TypeOK ==
  /\ ClockTypeOK
  /\ slots \subseteq Int /\ slots # {} /\ reconfigure \in Nat /\ next_transmit \in Int
  /\ queue \in Seq(Control) /\ Len(queue) <= QueueSize
  /\ sending \in Transmission
  /\ data_until \in Nat \cup {None}
  /\ duration \in [Message -> Durations \cup {None}]
  /\ sent_table \in [Message -> Int]
  /\ timers \subseteq Timer
  /\ tries \in [Message -> 0..MaxTries]
  /\ answers \in 0..MaxAnswers
  /\ entered \subseteq Entered /\ left \subseteq Left

\* "The delay between the control and data packets.": a burst only enters the
\* fibre when the control message that announces it has done so, and at least
\* PacketDelay before, however many messages were ahead of it in the queue.
LeadKept ==
  \A b \in left :
    \E c \in entered : c.msg = b.msg /\ c.send = b.send /\ c.at + PacketDelay <= b.at

\* No burst is passed over in DataTransmitStart because another one is still
\* being transmitted: the plans of all messages, the repeated ones and those
\* given up at a full queue included, leave room for each other.
BurstsApart == data_until = None \/ \A t \in timers : t.fn = "data" => t.at # now

Boundaries(horizon) == {s \in {R + k * (R + D) : k \in 0..MaxTime} : s <= horizon}

\* No burst is cut by a reconfiguration the device knew of: none leaves before it
\* begins and may, over the longest path, still be under way then, except by what
\* a slow clock was behind when the burst was planned.  (For bursts that take no more
\* than a reconfiguration and less than a timeslot.)
NoneCutOff ==
  \A b \in left :
    LET total == duration[b.msg] + TotalPropagation
        behind == b.at - b.send
    IN total <= R /\ total < D =>
         \A s \in Boundaries(b.horizon) : b.at >= s - R \/ b.at + total < s - R + behind

\* Two copies of a message are never in the fibre at once: what OpticalChannel,
\* which keeps packets by id, assumes of the devices.  (For bursts shorter than
\* the lead of a control message.)
OneCopyInFibre ==
  \A b, c \in left :
    LET time == duration[b.msg] + FibreDelay
    IN b.msg = c.msg /\ b.at < c.at /\ time < PacketProcessing + PacketDelay =>
         b.at + time < c.at

=============================================================================
