---------------------------- MODULE OpticalChannel ----------------------------
(***************************************************************************)
(* One fibre between two optical devices (model/optical-channel.cc): how   *)
(* it finds out that bursts collide.  Each data channel counts the bursts  *)
(* that each end is sending and keeps the packets that are in the fibre.   *)
(* A burst that starts while the other end is sending on its channel marks *)
(* every packet kept there as dropped.  The tag that carries the mark      *)
(* travels with the packet, and an endpoint reads it when the tail arrives.*)
(*                                                                         *)
(* Assumption on the devices: packets that are in the fibre together have  *)
(* different ids, so that a packet stands for its id here.                 *)
(***************************************************************************)
EXTENDS Integers

CONSTANTS
  Packet,    \* the packets sent across, each once
  Spoilt,    \* those marked before they enter, by another fibre or a switch
  Channel,   \* the data channels (1..m_num_channels)
  Endpoint   \* the ends whose device IsEndpoint

End == {0, 1}          \* m_dev0 and m_dev1
Other(e) == 1 - e

ASSUME ChannelAssumption ==
  /\ Spoilt \subseteq Packet
  /\ Endpoint \subseteq End

VARIABLES
  channels,   \* m_dev0_channels, m_dev1_channels: end, channel |-> count
  packet_map, \* m_packet_map: channel |-> packets kept
  crossing,   \* PassThroughFinished events
  heads,      \* Receive events at a switch, which sees the head of the burst
  drop,       \* packets whose tag DropPacket marked
  received,   \* packets handed to Receive at an endpoint, and the mark it read
  sent,       \* history: packets that entered the fibre
  met         \* history: packets that were in the fibre on one channel
              \* together with one of the opposite direction

vars == <<channels, packet_map, crossing, heads, drop, received, sent, met>>

Crossing == [packet : Packet, src : End, ch : Channel]

-----------------------------------------------------------------------------
Opposed(src, ch) == {c \in crossing : c.ch = ch /\ c.src = Other(src)}

\* Mutant of Collided: only the newcomer is marked.
CollidedNewcomer(p, src, ch) ==
  IF channels[Other(src)][ch] # 0 THEN {p} ELSE {}

\* The packets DropPacket marks when packet p starts: all those kept, p among
\* them, if the other end is sending on the channel.
Collided(p, src, ch) ==
  IF channels[Other(src)][ch] # 0 THEN packet_map[ch] \cup {p} ELSE {}

PassThrough(p, src, ch) ==
  /\ p \notin sent
  /\ packet_map' = [packet_map EXCEPT ![ch] = @ \cup {p}]
  /\ drop' = drop \cup Collided(p, src, ch)
  /\ channels' = [channels EXCEPT ![src][ch] = @ + 1]
  /\ crossing' = crossing \cup {[packet |-> p, src |-> src, ch |-> ch]}
  /\ heads' = IF Other(src) \in Endpoint THEN heads ELSE heads \cup {p}
  /\ sent' = sent \cup {p}
  /\ met' = met \cup {c.packet : c \in Opposed(src, ch)}
                \cup (IF Opposed(src, ch) = {} THEN {} ELSE {p})
  /\ UNCHANGED received

\* Receive at a switch, m_delay after the start.
ReceiveHead(p) ==
  /\ p \in heads
  /\ heads' = heads \ {p}
  /\ UNCHANGED <<channels, packet_map, crossing, drop, received, sent, met>>

\* Mutants of PassThroughFinished: the count of the other end goes down, and the
\* packet stays in m_packet_map.
FinishedAtOtherEnd(c) ==
  /\ c \in crossing
  /\ c.packet \notin heads
  /\ crossing' = crossing \ {c}
  /\ channels' = [channels EXCEPT ![Other(c.src)][c.ch] = @ - 1]
  /\ packet_map' = [packet_map EXCEPT ![c.ch] = @ \ {c.packet}]
  /\ UNCHANGED <<heads, drop, received, sent, met>>

FinishedNotErased(c) ==
  /\ c \in crossing
  /\ c.packet \notin heads
  /\ crossing' = crossing \ {c}
  /\ channels' = [channels EXCEPT ![c.src][c.ch] = @ - 1]
  /\ received' = IF Other(c.src) \in Endpoint
                 THEN received \cup {[packet |-> c.packet, dropped |-> c.packet \in drop]}
                 ELSE received
  /\ UNCHANGED <<packet_map, heads, drop, sent, met>>

\* The tail leaves the fibre.  Receive at an endpoint is scheduled by the same
\* call for the same instant, and so runs right after PassThroughFinished.
PassThroughFinished(c) ==
  /\ c \in crossing
  /\ c.packet \notin heads
  /\ crossing' = crossing \ {c}
  /\ channels' = [channels EXCEPT ![c.src][c.ch] = @ - 1]
  /\ packet_map' = [packet_map EXCEPT ![c.ch] = @ \ {c.packet}]
  /\ received' = IF Other(c.src) \in Endpoint
                 THEN received \cup {[packet |-> c.packet, dropped |-> c.packet \in drop]}
                 ELSE received
  /\ UNCHANGED <<heads, drop, sent, met>>

\* SetNChannels, with no packet in the fibre.
Init ==
  /\ channels = [e \in End |-> [ch \in Channel |-> 0]]
  /\ packet_map = [ch \in Channel |-> {}]
  /\ crossing = {} /\ heads = {} /\ received = {} /\ sent = {} /\ met = {}
  /\ drop = Spoilt

Next ==
  \/ \E p \in Packet, src \in End, ch \in Channel : PassThrough(p, src, ch)
  \/ \E p \in Packet : ReceiveHead(p)
  \/ \E c \in crossing : PassThroughFinished(c)

Spec == Init /\ [][Next]_vars

-----------------------------------------------------------------------------
(***************************************************************************)
(* Properties.                                                             *)
(***************************************************************************)
TypeOK ==
  /\ channels \in [End -> [Channel -> Nat]]
  /\ packet_map \in [Channel -> SUBSET Packet]
  /\ crossing \subseteq Crossing
  /\ heads \subseteq Packet
  /\ drop \subseteq Packet
  /\ received \subseteq [packet : Packet, dropped : BOOLEAN]
  /\ sent \subseteq Packet
  /\ met \subseteq Packet

\* The three assertions of PassThroughFinished: the burst that ends is counted
\* on its channel and its packet is kept there, whatever started or ended since.
FinishFindsPacket ==
  \A c \in crossing : channels[c.src][c.ch] > 0 /\ c.packet \in packet_map[c.ch]

\* The marks are exact: of the packets that entered intact, those and only those
\* are dropped that shared the fibre and the channel, for some time, with a
\* burst of the opposite direction, the ones already on their way included.
CollisionExact == drop = Spoilt \cup met

\* The mark an endpoint reads is final: a burst it took as intact is not marked
\* by one that starts later, and what it took as dropped was.
VerdictFinal == \A r \in received : r.dropped <=> r.packet \in drop
=============================================================================
