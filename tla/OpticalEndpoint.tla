--------------------------- MODULE OpticalEndpoint ---------------------------
(***************************************************************************)
(* The retransmission protocol of two endpoints (model/optical-device.cc). *)
(* Each attempt to send a message puts a control message (CTRL) in the     *)
(* control queue and schedules the burst for a little later; when no AWK   *)
(* comes back by the time CheckSent runs, or a NACK does, the message is   *)
(* sent again under the same id.  A receiver takes a burst only when its   *)
(* CTRL was there first, and a message only once.                          *)
(*                                                                         *)
(* The network between them, the switches of OpticalSwitch, may delay and  *)
(* reorder, answer a CTRL it cannot schedule with a NACK, drop any control *)
(* message at a full queue, and lose or spoil a burst.                     *)
(***************************************************************************)
EXTENDS Integers, FiniteSets

CONSTANTS
  IdSpace,    \* ids before m_msg_count wraps: 2^16 in the code
  CanFill,    \* TRUE iff a control queue of an endpoint may be full
  Lossy,      \* TRUE iff the network may drop a control message silently
  MaxMessages,\* bound: messages handed to Send
  MaxUnacked, \* bound: messages accepted, neither acknowledged nor given up
  MaxCopies   \* bound: copies counted of one control message or burst in flight

ASSUME EndpointAssumption ==
  /\ IdSpace \in Nat \ {0}
  /\ CanFill \in BOOLEAN /\ Lossy \in BOOLEAN
  /\ MaxMessages \in Nat /\ MaxUnacked \in Nat /\ MaxCopies \in Nat \ {0}

Message == 0..(MaxMessages - 1)
Id == 0..(IdSpace - 1)
NoMessage == -1

\* The id of the m-th message: the 16 bits of m_msg_count.
IdOf(m) == m % IdSpace

VARIABLES
  count,      \* messages handed to Send so far
  sent_table, \* m_sent_table: id |-> the message kept, or NoMessage
  timers,     \* the two events of an attempt, see Timer
  expected,   \* m_expected of the receiver
  received,   \* m_received of the receiver
  arriving,   \* bursts taken, in optical processing: FinalCallback is scheduled
  ctl,        \* control messages in flight: type and id |-> copies
  bursts,     \* bursts in flight: message |-> copies
  accepted,   \* history: messages Send returned TRUE for
  acked,      \* history: messages whose entry an AWK erased
  givenUp,    \* history: messages a full control queue kept from being sent again
  handed      \* history: message |-> times FinalCallback handed it up

senderVars == <<count, sent_table, timers, accepted, acked, givenUp>>
receiverVars == <<expected, received, arriving, handed>>
vars == <<senderVars, receiverVars, ctl, bursts>>

-----------------------------------------------------------------------------
\* An attempt has two events: DataTransmitStart and, later, CheckSent.  "data":
\* both are pending; "check": only CheckSent is.  linked: the entry of
\* m_sent_table holds the EventIds, so that they can be cancelled.
Timer == [id : Id, msg : Message, stage : {"data", "check"}, linked : BOOLEAN]

Linked(id) == {t \in timers : t.id = id /\ t.linked}

\* At the bound a further copy is not told from those already in flight.
With(bag, x) == [bag EXCEPT ![x] = IF @ < MaxCopies THEN @ + 1 ELSE @]
Without(bag, x) == [bag EXCEPT ![x] = @ - 1]

\* ControlSend: the queue takes the message, or it is full and drops it.
ControlSend(bag, type, id) == {With(bag, <<type, id>>)} \cup IF CanFill THEN {bag} ELSE {}

\* InternalSend for message m, given the entry and timers that are left and the
\* control messages in flight.  insert does not replace an entry.
InternalSend(m, table, left, bag) ==
  LET id == IdOf(m)
  IN \/ /\ ctl' = With(bag, <<"CTRL", id>>)
        /\ timers' = left \cup {[id |-> id, msg |-> m, stage |-> "data",
                                 linked |-> table[id] = NoMessage]}
        /\ sent_table' = [table EXCEPT ![id] = IF @ = NoMessage THEN m ELSE @]
        /\ accepted' = accepted \cup {m}
        /\ UNCHANGED givenUp
     \/ /\ CanFill
        /\ ctl' = bag /\ timers' = left /\ sent_table' = table
        /\ givenUp' = IF m \in accepted THEN givenUp \cup {m} ELSE givenUp
        /\ UNCHANGED accepted

\* Send at an endpoint.
Send ==
  /\ count < MaxMessages
  /\ Cardinality(accepted \ (acked \cup givenUp)) < MaxUnacked
  /\ count' = count + 1
  /\ InternalSend(count, sent_table, timers, ctl)
  /\ UNCHANGED <<acked, receiverVars, bursts>>

\* DataTransmitStart: the burst leaves.
DataTransmitStart(m) ==
  \E t \in timers :
    /\ t.stage = "data" /\ t.msg = m
    /\ timers' = (timers \ {t}) \cup {[t EXCEPT !.stage = "check"]}
    /\ bursts' = With(bursts, m)
    /\ UNCHANGED <<count, sent_table, accepted, acked, givenUp, receiverVars, ctl>>

\* Mutants of Resend: the entry is read after it was erased, its events are not
\* cancelled, or the message is not sent again.
ResendErased(id, left, bag) ==
  InternalSend(NoMessage, [sent_table EXCEPT ![id] = NoMessage],
               left \ Linked(id), bag)

ResendUncancelled(id, left, bag) ==
  InternalSend(sent_table[id], [sent_table EXCEPT ![id] = NoMessage], left, bag)

ResendForgotten(id, left, bag) ==
  /\ sent_table' = [sent_table EXCEPT ![id] = NoMessage]
  /\ timers' = left \ Linked(id)
  /\ ctl' = bag
  /\ UNCHANGED <<accepted, givenUp>>

\* Erase the entry, cancel its events and send its message again.
Resend(id, left, bag) ==
  InternalSend(sent_table[id], [sent_table EXCEPT ![id] = NoMessage],
               left \ Linked(id), bag)

\* CheckSent: no AWK has come for this attempt.
CheckSent(id) ==
  \E t \in timers :
    /\ t.stage = "check" /\ t.id = id
    /\ IF sent_table[id] # NoMessage
       THEN Resend(id, timers \ {t}, ctl)
       ELSE timers' = timers \ {t} /\ UNCHANGED <<ctl, sent_table, accepted, givenUp>>
    /\ UNCHANGED <<count, acked, receiverVars, bursts>>

\* Receive, channel 0, type 2: a NACK, ignored when the entry is gone.
ReceiveNACK(id) ==
  /\ ctl[<<"NACK", id>>] > 0
  /\ LET bag == Without(ctl, <<"NACK", id>>)
     IN IF sent_table[id] # NoMessage
        THEN Resend(id, timers, bag)
        ELSE ctl' = bag /\ UNCHANGED <<timers, sent_table, accepted, givenUp>>
  /\ UNCHANGED <<count, acked, receiverVars, bursts>>

\* Receive, channel 0, type 3: an AWK erases the entry; its events still run.
ReceiveAWK(id) ==
  /\ ctl[<<"AWK", id>>] > 0
  /\ ctl' = Without(ctl, <<"AWK", id>>)
  /\ sent_table' = [sent_table EXCEPT ![id] = NoMessage]
  /\ acked' = acked \cup ({sent_table[id]} \ {NoMessage})
  /\ timers' = (timers \ Linked(id)) \cup {[t EXCEPT !.linked = FALSE] : t \in Linked(id)}
  /\ UNCHANGED <<count, accepted, givenUp, receiverVars, bursts>>

-----------------------------------------------------------------------------
\* Mutant of UpdateReceived: m_expected in place of m_received.
UpdateExpected(id) ==
  /\ ctl[<<"CTRL", id>>] > 0
  /\ LET bag == Without(ctl, <<"CTRL", id>>)
     IN IF id \in expected
        THEN /\ ctl' \in ControlSend(bag, "AWK", id)
             /\ UNCHANGED expected
        ELSE expected' = expected \cup {id} /\ ctl' = bag
  /\ UNCHANGED <<senderVars, received, arriving, handed, bursts>>

\* Receive, channel 0, type 1, and UpdateReceived a processing time later: the
\* burst is expected from now on, or was received and the AWK is sent again.
UpdateReceived(id) ==
  /\ ctl[<<"CTRL", id>>] > 0
  /\ LET bag == Without(ctl, <<"CTRL", id>>)
     IN IF id \in received
        THEN /\ ctl' \in ControlSend(bag, "AWK", id)
             /\ UNCHANGED expected
        ELSE expected' = expected \cup {id} /\ ctl' = bag
  /\ UNCHANGED <<senderVars, received, arriving, handed, bursts>>

\* Mutant of TakeBurst: m_received is not updated.
TakeBurstUnrecorded(m) ==
  /\ bursts[m] > 0
  /\ IdOf(m) \in expected \ received
  /\ bursts' = Without(bursts, m)
  /\ expected' = expected \ {IdOf(m)}
  /\ arriving' = arriving \cup {m}
  /\ UNCHANGED <<senderVars, received, ctl, handed>>

\* Receive, a data channel: an expected, new and intact burst is taken.
TakeBurst(m) ==
  /\ bursts[m] > 0
  /\ IdOf(m) \in expected \ received
  /\ bursts' = Without(bursts, m)
  /\ expected' = expected \ {IdOf(m)}
  /\ received' = received \cup {IdOf(m)}
  /\ arriving' = arriving \cup {m}
  /\ UNCHANGED <<senderVars, ctl, handed>>

\* Any other burst is dropped, with a NACK unless its id was received.  There is
\* no guard: a collision or the failure rate may have spoiled any burst.
DropBurst(m) ==
  /\ bursts[m] > 0
  /\ bursts' = Without(bursts, m)
  /\ IF IdOf(m) \in received
     THEN UNCHANGED ctl
     ELSE ctl' \in ControlSend(ctl, "NACK", IdOf(m))
  /\ UNCHANGED <<senderVars, receiverVars>>

\* FinalCallback and SendCTRL are scheduled together: up the stack, and an AWK.
FinalCallback(m) ==
  /\ m \in arriving
  /\ arriving' = arriving \ {m}
  /\ handed' = [handed EXCEPT ![m] = @ + 1]
  /\ ctl' \in ControlSend(ctl, "AWK", IdOf(m))
  /\ UNCHANGED <<senderVars, expected, received, bursts>>

-----------------------------------------------------------------------------
\* A switch that cannot schedule the burst, or has a full queue.
Refuse(id) ==
  /\ ctl[<<"CTRL", id>>] > 0
  /\ ctl' = With(Without(ctl, <<"CTRL", id>>), <<"NACK", id>>)
  /\ UNCHANGED <<senderVars, receiverVars, bursts>>

LoseControl ==
  /\ Lossy
  /\ \E x \in DOMAIN ctl : ctl[x] > 0 /\ ctl' = Without(ctl, x)
  /\ UNCHANGED <<senderVars, receiverVars, bursts>>

LoseBurst(m) ==
  /\ bursts[m] > 0
  /\ bursts' = Without(bursts, m)
  /\ UNCHANGED <<senderVars, receiverVars, ctl>>

Init ==
  /\ count = 0
  /\ sent_table = [id \in Id |-> NoMessage]
  /\ timers = {} /\ expected = {} /\ received = {} /\ arriving = {}
  /\ ctl = [x \in {"CTRL", "NACK", "AWK"} \X Id |-> 0]
  /\ bursts = [m \in Message |-> 0]
  /\ accepted = {} /\ acked = {} /\ givenUp = {}
  /\ handed = [m \in Message |-> 0]

Next ==
  \/ Send
  \/ \E id \in Id : CheckSent(id) \/ ReceiveNACK(id) \/ ReceiveAWK(id)
  \/ \E id \in Id : UpdateReceived(id) \/ Refuse(id)
  \/ \E m \in Message : DataTransmitStart(m) \/ TakeBurst(m) \/ DropBurst(m)
  \/ \E m \in Message : FinalCallback(m) \/ LoseBurst(m)
  \/ LoseControl

Spec == Init /\ [][Next]_vars

(***************************************************************************)
(* Fairness.  The simulator runs every event that is scheduled.  Whether a *)
(* CTRL is scheduled, a burst stays intact, an AWK finds room or a burst   *)
(* leaves before a NACK cancels it depends on random channels, random      *)
(* failures and on traffic that comes and goes: none fails for ever.       *)
(***************************************************************************)
Fairness ==
  /\ \A id \in Id :
       /\ WF_vars(CheckSent(id)) /\ WF_vars(ReceiveNACK(id)) /\ WF_vars(ReceiveAWK(id))
       /\ SF_vars(UpdateReceived(id))
  /\ \A m \in Message :
       /\ WF_vars(FinalCallback(m)) /\ WF_vars(DropBurst(m))
       /\ SF_vars(DataTransmitStart(m)) /\ SF_vars(TakeBurst(m))

FairSpec == Spec /\ Fairness

-----------------------------------------------------------------------------
(***************************************************************************)
(* Properties.                                                             *)
(***************************************************************************)
TypeOK ==
  /\ count \in 0..MaxMessages
  /\ sent_table \in [Id -> Message \cup {NoMessage}]
  /\ timers \subseteq Timer
  /\ expected \subseteq Id /\ received \subseteq Id
  /\ arriving \subseteq Message
  /\ ctl \in [{"CTRL", "NACK", "AWK"} \X Id -> 0..MaxCopies]
  /\ bursts \in [Message -> 0..MaxCopies]
  /\ accepted \subseteq Message /\ acked \subseteq Message /\ givenUp \subseteq Message
  /\ handed \in [Message -> Nat]

delivered == {m \in Message : handed[m] > 0}

\* "AWK: Do Nothing, message succeeded": a message whose entry an AWK erased has
\* been handed up at the other end or is in optical processing there.
AckedIsDelivered == acked \subseteq delivered \cup arriving

\* A message that was accepted and not delivered is still being tried: its entry
\* is there with one attempt whose events can be cancelled, unless a full
\* control queue made the device give it up or the receiver is processing it.
StillTried ==
  \A m \in accepted \ (delivered \cup givenUp \cup arriving) :
    /\ sent_table[IdOf(m)] = m
    /\ Cardinality(Linked(IdOf(m))) = 1

\* The endpoints implement the reliable link: the network, the timers and the
\* attempts are hidden, and an attempt that succeeds is its Deliver.
Link == INSTANCE ReliableLink
          WITH Message <- Message, accepted <- accepted, handed <- handed, givenUp <- givenUp
LinkSpec == Link!Spec
Served == Link!Served
=============================================================================
