---------------------------- MODULE OpticalSwitch ----------------------------
(***************************************************************************)
(* The burst schedule of one switch: the OpticalDevices of a node that is  *)
(* not an endpoint (model/optical-device.cc).  A control message announces *)
(* a burst ahead of its data: Send asks ScheduleMessage for a place in the *)
(* timeslot the burst falls into, on the device it comes in by and on the  *)
(* device it leaves by, and forwards the control message or answers with a *)
(* NACK.  The burst itself follows the entry of the current slot           *)
(* (Receive, PassThrough) and gives its reservation back when its tail has *)
(* gone (PassThroughFinish).  Every R + D the devices drop the oldest slot *)
(* and append a new one; during R they pass nothing.                       *)
(*                                                                         *)
(* Time is discrete.  Events of one instant run in any order, except that  *)
(* the devices' BeginReconfigure events, scheduled by one another without  *)
(* anything in between, run as one, and so do their CompleteReconfigure.   *)
(***************************************************************************)
EXTENDS Integers, SequencesExt

CONSTANTS
  Dev,          \* the optical devices of the node
  Channel,      \* the data channels (1..GetNChannels)
  NoDev,        \* the -1 of a free schedule entry
  R,            \* m_reconfigure_time
  D,            \* m_timeslot_duration
  ScheduleSize, \* m_schedule_size: slots known ahead
  Propagation,  \* m_switch_propagation_delay
  Id,           \* message ids
  Durations,    \* transmission times of the bursts announced
  MaxTime,      \* bound: the clock
  MaxAnnounced  \* bound: control messages handled

ASSUME SwitchAssumption ==
  /\ NoDev \notin Dev
  /\ R \in Nat \ {0} /\ D \in Nat \ {0}
  /\ ScheduleSize \in Nat \ {0}
  /\ Propagation \in Nat
  /\ Durations \subseteq Nat
  /\ MaxTime \in Nat /\ MaxAnnounced \in Nat

VARIABLES
  now,           \* Simulator::Now()
  reconfiguring, \* m_is_reconfiguring, the same for all devices of the node
  first,         \* number of the oldest slot: begin() of the tables
  entry,         \* m_schedule_table: device, slot, channel |-> leaving device
  tx_list,       \* m_tx_list: device, slot, channel |-> reservations
  pending,       \* announced bursts whose data has not come yet
  passing,       \* bursts inside the switch: m_packet_map and m_channels
  dropped,       \* passing bursts whose tag DropPacket marked
  announced,     \* control messages handled so far
  granted,       \* history: the bursts accepted before they were due
  forgotten      \* history: device and reservation of others that a copy has lost

tables == <<first, entry, tx_list>>
vars == <<now, reconfiguring, tables, pending, passing, dropped, announced, granted,
          forgotten>>

-----------------------------------------------------------------------------
\* The k-th slot starts R after the k-th BeginReconfigure.
Start(k) == R + k * (R + D)
End(k) == Start(k) + D
Slots == first..(first + ScheduleSize - 1)

Reservation == [id : Id, arrival : Nat, exit : Nat]
\* A burst comes at `head`; `arrival` is when it was announced for.
Burst == [id : Id, from : Dev, to : Dev, ch : Channel, arrival : Nat, exit : Nat,
          head : Nat, ok : BOOLEAN]
Pass == [id : Id, src : Dev, dst : Dev, ch : Channel, finish : Nat]

\* Mutant of Conflicts: the second half of the test is missing.
ConflictsAtArrival(r, arrival, exit) == r.arrival >= arrival /\ r.arrival <= exit

\* The test of ScheduleMessage: a bound of the old reservation r lies within
\* the new one.
Conflicts(r, arrival, exit) ==
  \/ r.arrival >= arrival /\ r.arrival <= exit
  \/ r.exit >= arrival /\ r.exit <= exit

Clear(list, arrival, exit) ==
  \A i \in DOMAIN list : ~Conflicts(list[i], arrival, exit)

\* Mutant of SlotsFor: only the head of the burst must be in the slot.
SlotsForHead(arrival, exit) == {s \in Slots : Start(s) <= arrival /\ arrival <= End(s)}

\* The slot that holds the whole transmission, at most one.
SlotsFor(arrival, exit) == {s \in Slots : Start(s) <= arrival /\ exit <= End(s)}

\* Mutant of Schedulable: an entry for another device is overwritten.
SchedulableAnyEntry(from, to, ch, arrival, exit) ==
  {s \in SlotsFor(arrival, exit) :
     /\ Clear(tx_list[from][s][ch], arrival, exit)
     /\ Clear(tx_list[to][s][ch], arrival, exit)}

\* The slot the burst can be booked in, if any.
Schedulable(from, to, ch, arrival, exit) ==
  {s \in SlotsFor(arrival, exit) :
     /\ Clear(tx_list[from][s][ch], arrival, exit)
     /\ Clear(tx_list[to][s][ch], arrival, exit)
     /\ entry[from][s][ch] \in {NoDev, to}}

-----------------------------------------------------------------------------
\* Send at device `to` for a control message of type 1 that came in by `from`.
\* The arrival is worked out from the delay of the fibre behind `to`, while the
\* burst comes by the one before `from`: at `head`, the same if the two are alike.
\* A reservation stays when the control queue of `to` is full and the message
\* is refused all the same.  The sender of a refused message cancels its burst
\* unless the NACK comes too late, so the data may arrive in either case.
ScheduleMessage(from, to, id, ch, arrival, duration, head, control_full) ==
  LET exit == arrival + duration
      slots == Schedulable(from, to, ch, arrival, exit)
      fits == slots # {}
      item == [id |-> id, arrival |-> arrival, exit |-> exit]
      burst == [id |-> id, from |-> from, to |-> to, ch |-> ch,
                arrival |-> arrival, exit |-> exit, head |-> head,
                ok |-> fits /\ ~control_full]
  IN /\ from # to
     /\ announced < MaxAnnounced
     /\ \A p \in passing : p.id # id
     /\ announced' = announced + 1
     /\ pending' = {b \in pending : b.id # id} \cup {burst}
     /\ granted' = IF burst.ok /\ arrival >= now THEN granted \cup {burst} ELSE granted
     /\ IF fits
        THEN LET s == CHOOSE s \in slots : TRUE
             IN /\ entry' = [entry EXCEPT ![from][s][ch] = to]
                /\ tx_list' = [tx_list EXCEPT ![from][s][ch] = Append(@, item),
                                              ![to][s][ch] = Append(@, item)]
        ELSE UNCHANGED <<entry, tx_list>>
     /\ UNCHANGED <<now, reconfiguring, first, passing, dropped, forgotten>>

\* Receive, PassThrough: the head of a burst follows the entry of begin().  The
\* device it leaves by counts as taken only while a burst comes in by it; then
\* every burst on this channel of the node is marked as dropped.
ReceiveBurst(b) ==
  LET to == entry[b.from][first][b.ch]
      pass == [id |-> b.id, src |-> b.from, dst |-> to, ch |-> b.ch,
               finish |-> now + Propagation + (b.exit - b.arrival)]
      opposed == \E p \in passing : p.ch = b.ch /\ p.src = to
  IN /\ b.head = now
     /\ pending' = pending \ {b}
     /\ IF to # NoDev /\ ~reconfiguring
        THEN /\ passing' = passing \cup {pass}
             /\ dropped' = dropped \cup
                  IF opposed THEN {p \in passing' : p.ch = b.ch} ELSE {}
        ELSE UNCHANGED <<passing, dropped>>
     /\ UNCHANGED <<now, reconfiguring, tables, announced, granted, forgotten>>

ReceiveData == \E b \in pending : ReceiveBurst(b)

WithoutId(list, id) == RemoveFirstMatch(list, LAMBDA r : r.id = id)

\* PassThroughFinish erases the reservation from the leaving device's list of
\* begin(); then `tx_list = src->...` assigns through the reference to that same
\* list, so that it becomes a copy of the other device's, less the reservation.
\* What the leaving device had listed of other bursts may be lost.
Finish(p) ==
  LET old == tx_list[p.dst][first][p.ch]
      copy == WithoutId(tx_list[p.src][first][p.ch], p.id)
      lost == {r \in ToSet(old) \ ToSet(copy) : r.id # p.id}
  IN /\ p.finish = now
     /\ passing' = passing \ {p}
     /\ dropped' = dropped \ {p}
     /\ tx_list' = [tx_list EXCEPT ![p.dst][first][p.ch] = copy]
     /\ forgotten' = forgotten \cup ({p.dst} \X lost)
     /\ UNCHANGED <<now, reconfiguring, first, entry, pending, announced, granted>>

PassThroughFinish == \E p \in passing : Finish(p)

\* Mutant of Shifted: the oldest slot is dropped and no slot appended.
ShiftedOnly(table, empty) ==
  [d \in Dev |-> [s \in Slots \ {first} |-> table[d][s]]]

\* A table without the oldest slot and with an empty one at its end.
Shifted(table, empty) ==
  [d \in Dev |-> [s \in (first + 1)..(first + ScheduleSize) |->
     IF s \in Slots THEN table[d][s] ELSE [ch \in Channel |-> empty]]]

BeginReconfigure ==
  /\ now = End(first) /\ ~reconfiguring
  /\ reconfiguring' = TRUE
  /\ first' = first + 1
  /\ entry' = Shifted(entry, NoDev)
  /\ tx_list' = Shifted(tx_list, <<>>)
  /\ UNCHANGED <<now, pending, passing, dropped, announced, granted, forgotten>>

CompleteReconfigure ==
  /\ now = Start(first) /\ reconfiguring
  /\ reconfiguring' = FALSE
  /\ UNCHANGED <<now, tables, pending, passing, dropped, announced, granted, forgotten>>

\* The clock moves when nothing scheduled for this instant is left.  A burst
\* that has not come by then has been cancelled or lost.
Tick ==
  /\ now < MaxTime
  /\ ~(now = Start(first) /\ reconfiguring)
  /\ ~(now = End(first) /\ ~reconfiguring)
  /\ \A p \in passing : p.finish # now
  /\ now' = now + 1
  /\ pending' = {b \in pending : b.head > now}
  /\ UNCHANGED <<reconfiguring, tables, passing, dropped, announced, granted, forgotten>>

\* The first BeginReconfigure has run, at time 0.
Init ==
  /\ now = 0
  /\ reconfiguring = TRUE
  /\ first = 0
  /\ entry = [d \in Dev |-> [s \in 0..(ScheduleSize - 1) |-> [ch \in Channel |-> NoDev]]]
  /\ tx_list = [d \in Dev |-> [s \in 0..(ScheduleSize - 1) |-> [ch \in Channel |-> <<>>]]]
  /\ pending = {} /\ passing = {} /\ dropped = {} /\ granted = {} /\ forgotten = {}
  /\ announced = 0

Next ==
  \/ \E from, to \in Dev, id \in Id, ch \in Channel, arrival \in 0..MaxTime,
        duration \in Durations, control_full \in BOOLEAN :
       ScheduleMessage(from, to, id, ch, arrival, duration, arrival, control_full)
  \/ ReceiveData
  \/ PassThroughFinish
  \/ BeginReconfigure
  \/ CompleteReconfigure
  \/ Tick

Spec == Init /\ [][Next]_vars

-----------------------------------------------------------------------------
(***************************************************************************)
(* Properties.                                                             *)
(***************************************************************************)
TypeOK ==
  /\ now \in Nat /\ first \in Nat /\ announced \in Nat
  /\ reconfiguring \in BOOLEAN
  /\ entry \in [Dev -> [Slots -> [Channel -> Dev \cup {NoDev}]]]
  /\ tx_list \in [Dev -> [Slots -> [Channel -> Seq(Reservation)]]]
  /\ pending \subseteq Burst /\ granted \subseteq Burst
  /\ passing \subseteq Pass /\ dropped \subseteq passing
  /\ forgotten \subseteq Dev \X Reservation

Disjoint(r, q) == r.exit < q.arrival \/ q.exit < r.arrival

\* r lies strictly inside q.
Inside(r, q) == q.arrival < r.arrival /\ r.exit < q.exit

\* Two reservations a device lists for a slot and a channel overlap only in the
\* way Conflicts does not see: the one that came later lies inside the other.
OverlapsNested ==
  \A d \in Dev, s \in Slots, ch \in Channel :
    LET list == tx_list[d][s][ch]
    IN \A i, j \in DOMAIN list :
         i < j => Disjoint(list[i], list[j]) \/ Inside(list[j], list[i])

\* No reservation reaches into a reconfiguration: each one listed for a slot
\* lies within it, also after the lists have moved up or been copied.
WithinSlot ==
  \A d \in Dev, s \in Slots, ch \in Channel :
    LET list == tx_list[d][s][ch]
    IN \A i \in DOMAIN list : Start(s) <= list[i].arrival /\ list[i].exit <= End(s)

\* A burst that was accepted when announced leaves by the device it was
\* accepted for, whatever was scheduled and reconfigured in between.  (At the
\* very start of the slot its head may come before CompleteReconfigure.)
RouteHonoured ==
  [][\A b \in pending \ pending' :
       b.ok /\ b.head >= now /\ now' = now /\ now > Start(first) =>
         (announced' # announced \/ \E p \in passing' : p.id = b.id /\ p.dst = b.to)]_vars

\* Two bursts accepted on the same channel of a device are never in transmission
\* at the same time: the reservations are kept until the bursts have passed.
BookedOnce ==
  \A b, c \in granted :
    b # c /\ b.ch = c.ch /\ {b.from, b.to} \cap {c.from, c.to} # {} =>
      b.exit <= c.arrival \/ c.exit <= b.arrival
=============================================================================
