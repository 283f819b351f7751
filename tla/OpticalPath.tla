------------------------------ MODULE OpticalPath ------------------------------
(***************************************************************************)
(* The way of a burst through the network: from an endpoint, by the fibre  *)
(* it is attached to, through the switch of OpticalSwitch, and by another  *)
(* fibre to the endpoint there.  Every device of the switch has one fibre  *)
(* with one endpoint at its other end.                                     *)
(*                                                                         *)
(* The endpoints plan their bursts one after the other (m_next_transmit of *)
(* BurstTiming), and a control message comes to the switch Lead before its *)
(* burst.  The fibres mark the bursts that meet another one of the         *)
(* opposite direction, as in OpticalChannel; the switch marks those of     *)
(* OpticalSwitch.  A burst that was refused is cancelled, or sent all the  *)
(* same when the NACK comes too late.                                      *)
(***************************************************************************)
EXTENDS OpticalSwitch

CONSTANTS
  FibreDelay, \* device |-> GetDelay of its fibre
  Length,     \* message |-> transmission time of its packet: tx_data
  Lead,       \* a control message is handled that long before its burst comes
  MaxAhead    \* bound: at most that long before

ASSUME PathAssumption ==
  /\ FibreDelay \in [Dev -> Nat]
  /\ Length \in [Id -> Durations] /\ \A id \in Id : Length[id] > 0
  /\ Lead \in Nat /\ \A d \in Dev : FibreDelay[d] <= Lead
  /\ MaxAhead \in Nat
  /\ Id \subseteq Dev \X Nat

VARIABLES
  next_transmit, \* device |-> m_next_transmit of the endpoint of its fibre
  bursts,        \* the bursts that have been launched and are under way
  fibres,        \* the bursts in the fibres: m_packet_map of each
  marked         \* ids of bursts whose tag DropPacket marked

switchVars == vars
pathVars == <<switchVars, next_transmit, bursts, fibres, marked>>

-----------------------------------------------------------------------------
\* A burst in the fibre of device dev: on its way up to the switch or down.
Crossing == [id : Id, dev : Dev, ch : Channel, up : BOOLEAN, finish : Nat]

\* The arrival Send works out, with the delay of the fibre it leaves by.
Announced(send, to) == send + FibreDelay[to]

NextTransmit(send, id) == send + Length[id] + 1

(***************************************************************************)
(* InternalSend at the endpoint of `from`, and Send at the switch when the *)
(* control message is handled there.  A message is sent again once it was  *)
(* refused or its burst is gone.                                           *)
(***************************************************************************)
Announce(from, to, id, ch, send, control_full) ==
  LET head == send + FibreDelay[from]
  IN /\ id[1] = from
     /\ send >= next_transmit[from]
     /\ head >= now + Lead /\ head <= now + MaxAhead
     /\ \A b \in pending : b.id = id => ~b.ok
     /\ \A b \in bursts : b.id # id
     /\ next_transmit' = [next_transmit EXCEPT ![from] = NextTransmit(send, id)]
     /\ ScheduleMessage(from, to, id, ch, Announced(send, to), Length[id], head,
                        control_full)
     /\ UNCHANGED <<bursts, fibres, marked>>

\* PassThrough of the fibre of device d, by a burst with this id.
Enter(d, id, ch, up) ==
  LET here == {c \in fibres : c.dev = d /\ c.ch = ch}
  IN /\ fibres' = fibres \cup
          {[id |-> id, dev |-> d, ch |-> ch, up |-> up,
            finish |-> now + Length[id] + FibreDelay[d]]}
     /\ marked' = marked \cup
          IF \E c \in here : c.up # up THEN {c.id : c \in here} \cup {id} ELSE {}

\* DataTransmitStart at the endpoint.  The NACK of a burst without a place cancels
\* it if it comes in time.
Launch(b) ==
  /\ b \notin bursts
  /\ now + FibreDelay[b.from] = b.head
  /\ bursts' = bursts \cup {b}
  /\ Enter(b.from, b.id, b.ch, TRUE)
  /\ UNCHANGED <<switchVars, next_transmit>>

\* Receive at the switch, PassThrough of the device it leaves by.
Arrive(b) ==
  /\ b \in bursts
  /\ ReceiveBurst(b)
  /\ marked' = marked \cup {p.id : p \in dropped'}
  /\ UNCHANGED <<next_transmit, bursts, fibres>>

\* PassThrough of the fibre, scheduled by that of the device.
Unsent(p) == \A c \in fibres : c.id = p.id => c.up

Forward(p) ==
  /\ Unsent(p)
  /\ now + Length[p.id] = p.finish
  /\ Enter(p.dst, p.id, p.ch, FALSE)
  /\ UNCHANGED <<switchVars, next_transmit, bursts>>

\* Mutant of Leave: the burst is gone and its mark stays.
LeaveMarked(c) ==
  LET rest == fibres \ {c}
      over == \A x \in rest \cup passing : x.id # c.id
  IN /\ c.finish = now
     /\ ~c.up => \A p \in passing : p.id # c.id
     /\ fibres' = rest
     /\ bursts' = IF over THEN {b \in bursts : b.id # c.id} ELSE bursts
     /\ UNCHANGED <<switchVars, next_transmit, marked>>

\* PassThroughFinished of a fibre: a burst that goes no further is gone, and
\* its mark with it.  That of the device it left the switch by, at the latest due
\* in the same instant, was scheduled before.
Leave(c) ==
  LET rest == fibres \ {c}
      over == \A x \in rest \cup passing : x.id # c.id
  IN /\ c.finish = now
     /\ ~c.up => \A p \in passing : p.id # c.id
     /\ fibres' = rest
     /\ bursts' = IF over THEN {b \in bursts : b.id # c.id} ELSE bursts
     /\ marked' = IF over THEN marked \ {c.id} ELSE marked
     /\ UNCHANGED <<switchVars, next_transmit>>

PassedThrough(p) ==
  /\ ~Unsent(p)
  /\ Finish(p)
  /\ UNCHANGED <<next_transmit, bursts, fibres, marked>>

Reconfigure ==
  /\ BeginReconfigure \/ CompleteReconfigure
  /\ UNCHANGED <<next_transmit, bursts, fibres, marked>>

PathTick ==
  /\ \A b \in pending \cap bursts : b.head # now
  /\ \A p \in passing : Unsent(p) => now + Length[p.id] # p.finish
  /\ \A c \in fibres : c.finish # now
  /\ Tick
  /\ UNCHANGED <<next_transmit, bursts, fibres, marked>>

PathInit ==
  /\ Init
  /\ next_transmit = [d \in Dev |-> Start(0)]
  /\ bursts = {} /\ fibres = {} /\ marked = {}

PathNext ==
  \/ /\ announced < MaxAnnounced
     /\ \E from, to \in Dev, id \in Id, ch \in Channel, send \in 0..MaxTime,
           control_full \in BOOLEAN : Announce(from, to, id, ch, send, control_full)
  \/ \E b \in pending : Launch(b) \/ Arrive(b)
  \/ \E p \in passing : Forward(p) \/ PassedThrough(p)
  \/ \E c \in fibres : Leave(c)
  \/ Reconfigure
  \/ PathTick

PathSpec == PathInit /\ [][PathNext]_pathVars

-----------------------------------------------------------------------------
(***************************************************************************)
(* Properties.                                                             *)
(***************************************************************************)
PathTypeOK ==
  /\ TypeOK
  /\ next_transmit \in [Dev -> Nat]
  /\ bursts \subseteq Burst
  /\ fibres \subseteq Crossing
  /\ marked \subseteq {b.id : b \in bursts}

Place(b) == [id |-> b.id, arrival |-> b.arrival, exit |-> b.exit]

Shared(b, c) == {b.from, b.to} \cap {c.from, c.to}

\* The places do not keep two bursts apart: one has none and its NACK came too
\* late, one place lies inside the other, or that of one was lost in a copy on
\* every device they share.
Excused(b, c) ==
  \/ ~b.ok \/ ~c.ok
  \/ Inside(b, c) \/ Inside(c, b)
  \/ \A d \in Shared(b, c) : <<d, Place(b)>> \in forgotten
  \/ \A d \in Shared(b, c) : <<d, Place(c)>> \in forgotten

\* The places of two accepted bursts that share a device and a channel do not
\* overlap but for the ways of Excused: ScheduleMessage finds the place of the
\* other as long as it is needed, in tables that are moved up, copied and erased
\* from (lines 1310 to 1390), also within the slot that is running.
BookedApart ==
  \A b, c \in pending \cup bursts :
    b # c /\ b.ch = c.ch /\ Shared(b, c) # {} => Excused(b, c) \/ Disjoint(b, c)

\* Bursts that follow each other on one channel of a fibre do not overlap: the
\* fibre would not notice (PassThrough only looks at the other direction).  On the
\* way up m_next_transmit keeps them apart, with or without a place; on the way
\* down the switch does, for what comes by different devices.
SameDirectionApart ==
  \A c, d \in fibres :
    c.id # d.id /\ c.dev = d.dev /\ c.ch = d.ch /\ c.up = d.up =>
      \/ c.finish + Length[d.id] < d.finish \/ d.finish + Length[c.id] < c.finish
      \/ ~c.up /\ \E b, e \in bursts : b.id = c.id /\ e.id = d.id /\ Excused(b, e)

\* Two bursts meet in a fibre only in one way: one has passed the switch, its
\* tail still on its way down, when the head of the other comes up.  The places
\* keep them apart at the switch, not over the time both need in the fibre.
OnlyTailsMeet ==
  \A c, d \in fibres :
    c.dev = d.dev /\ c.ch = d.ch /\ c.up /\ ~d.up =>
      \E b, e \in bursts :
        b.id = c.id /\ e.id = d.id /\ (Excused(b, e) \/ e.exit < b.arrival)

\* A collision is noticed in the switch only in that way as well: a burst comes in
\* by the device another one left by, while the tail of that one, which is kept for
\* Propagation after its place ends, has not gone.
SwitchMarksTails ==
  [][dropped' \ dropped # {} =>
       \E p, q \in passing' : \E b, e \in bursts :
         /\ b.id = p.id /\ e.id = q.id
         /\ p.ch = q.ch /\ q.src = p.dst
         /\ \/ Excused(b, e)
            \/ e.exit < b.arrival /\ b.arrival <= e.exit + Propagation]_pathVars
=============================================================================
