------------------------- MODULE OpticalChannelProofs -------------------------
(***************************************************************************)
(* Proofs about the fibre, for any number of packets and channels: its     *)
(* assertions hold, and the packets it marks as dropped are exactly those  *)
(* that met a burst of the opposite direction.                             *)
(*                                                                         *)
(* The counts alone do not show that.  The inductive invariant ties them   *)
(* and m_packet_map to the PassThroughFinished events that are pending,    *)
(* says that a packet crosses once, and that whoever crosses beside an     *)
(* opposed burst has met it: the newcomer then marks nobody by mistake.    *)
(***************************************************************************)
EXTENDS OpticalChannel, FiniteSetTheorems, TLAPS

\* The bursts end e is sending on channel ch.
Sending(e, ch) == {c \in crossing : c.src = e /\ c.ch = ch}

\* The counts are right: one for each PassThroughFinished to come.
Counted ==
  \A e \in End, ch \in Channel :
    IsFiniteSet(Sending(e, ch)) /\ channels[e][ch] = Cardinality(Sending(e, ch))

\* m_packet_map keeps the packets that are crossing, and no other.
Kept ==
  \A ch \in Channel :
    packet_map[ch] = {c.packet : c \in {b \in crossing : b.ch = ch}}

\* A packet crosses at most once, and is received after it has crossed.
CrossesOnce ==
  /\ \A c \in crossing : c.packet \in sent
  /\ \A c, d \in crossing : c.packet = d.packet => c = d
  /\ \A r \in received : r.packet \in sent /\ \A c \in crossing : c.packet # r.packet

\* Bursts that cross on one channel in both directions have met.
BothMet ==
  \A c, d \in crossing :
    c.ch = d.ch /\ c.src # d.src => c.packet \in met /\ d.packet \in met

IInv ==
  TypeOK /\ Counted /\ Kept /\ CrossesOnce /\ BothMet /\ CollisionExact /\ VerdictFinal

-----------------------------------------------------------------------------
LEMMA OtherEnd ==
  ASSUME NEW e \in End
  PROVE  /\ Other(e) \in End /\ Other(e) # e
         /\ \A d \in End : d # e => d = Other(e)
BY DEF End, Other

\* A count is zero exactly when that end sends nothing on the channel.
LEMMA CountIsZero ==
  ASSUME TypeOK, Counted, NEW e \in End, NEW ch \in Channel
  PROVE  channels[e][ch] = 0 <=> Sending(e, ch) = {}
BY FS_EmptySet DEF Counted

LEMMA InitIInv == Init => IInv
<1> SUFFICES ASSUME Init PROVE IInv
  OBVIOUS
<1>1. TypeOK
  BY ChannelAssumption DEF Init, TypeOK, End
<1>2. Counted
  <2>1. \A e, ch : Sending(e, ch) = {}
    BY DEF Init, Sending
  <2> QED
    BY <2>1, FS_EmptySet DEF Init, Counted
<1>3. Kept /\ CrossesOnce /\ BothMet /\ CollisionExact /\ VerdictFinal
  BY DEF Init, Kept, CrossesOnce, BothMet, CollisionExact, VerdictFinal
<1> QED
  BY <1>1, <1>2, <1>3 DEF IInv

-----------------------------------------------------------------------------
\* What PassThrough marks is what the history says has met.
LEMMA MarksAreExact ==
  ASSUME IInv, NEW p \in Packet, NEW src \in End, NEW ch \in Channel
  PROVE  met \cup Collided(p, src, ch) =
           met \cup {c.packet : c \in Opposed(src, ch)}
               \cup (IF Opposed(src, ch) = {} THEN {} ELSE {p})
<1>1. Opposed(src, ch) = Sending(Other(src), ch)
  BY DEF Opposed, Sending
<1>2. channels[Other(src)][ch] = 0 <=> Opposed(src, ch) = {}
  BY <1>1, CountIsZero, OtherEnd DEF IInv
<1>3. CASE Opposed(src, ch) = {}
  BY <1>2, <1>3 DEF Collided
<1>4. CASE Opposed(src, ch) # {}
  <2>1. Collided(p, src, ch) = packet_map[ch] \cup {p}
    BY <1>2, <1>4 DEF Collided
  <2>2. PICK o \in crossing : o.ch = ch /\ o.src = Other(src)
    BY <1>4 DEF Opposed
  <2>3. \A q \in packet_map[ch] : q \in met \cup {c.packet : c \in Opposed(src, ch)}
    <3> SUFFICES ASSUME NEW c \in crossing, c.ch = ch
                 PROVE  c.packet \in met \cup {b.packet : b \in Opposed(src, ch)}
      BY DEF IInv, Kept
    <3>1. c.src \in End
      BY DEF IInv, TypeOK, Crossing
    <3>2. CASE c.src = src
      BY <2>2, <3>2, OtherEnd DEF IInv, BothMet
    <3>3. CASE c.src # src
      BY <3>1, <3>3, OtherEnd DEF Opposed
    <3> QED
      BY <3>2, <3>3
  <2>4. {c.packet : c \in Opposed(src, ch)} \subseteq packet_map[ch]
    BY DEF IInv, Kept, Opposed
  <2> QED
    BY <1>4, <2>1, <2>3, <2>4
<1> QED
  BY <1>3, <1>4

LEMMA PassThroughIInv ==
  ASSUME IInv, NEW p \in Packet, NEW src \in End, NEW ch \in Channel,
         PassThrough(p, src, ch)
  PROVE  IInv'
<1> DEFINE new == [packet |-> p, src |-> src, ch |-> ch]
<1> USE DEF PassThrough
<1>1. new \in Crossing /\ new \notin crossing
  BY DEF Crossing, IInv, CrossesOnce
<1>2. TypeOK'
  <2>1. Collided(p, src, ch) \subseteq Packet
    BY DEF Collided, IInv, TypeOK
  <2>2. channels' \in [End -> [Channel -> Nat]]
    BY DEF IInv, TypeOK
  <2>3. {c.packet : c \in Opposed(src, ch)} \subseteq Packet
    BY DEF Opposed, IInv, TypeOK, Crossing
  <2>4. met' \subseteq Packet
    BY <2>3 DEF IInv, TypeOK
  <2>5. packet_map' \in [Channel -> SUBSET Packet]
    BY DEF IInv, TypeOK
  <2> QED
    BY <1>1, <2>1, <2>2, <2>4, <2>5 DEF IInv, TypeOK
<1>3. Counted'
  <2> SUFFICES ASSUME NEW e \in End, NEW k \in Channel
               PROVE  /\ IsFiniteSet(Sending(e, k)')
                      /\ channels'[e][k] = Cardinality(Sending(e, k)')
    BY DEF Counted
  <2>1. IsFiniteSet(Sending(e, k)) /\ channels[e][k] = Cardinality(Sending(e, k))
    BY DEF IInv, Counted
  <2>2. CASE e = src /\ k = ch
    <3>1. Sending(e, k)' = Sending(e, k) \cup {new}
      BY <2>2 DEF Sending
    <3>2. new \notin Sending(e, k)
      BY <1>1 DEF Sending
    <3>3. channels'[e][k] = channels[e][k] + 1
      BY <2>2 DEF IInv, TypeOK
    <3> HIDE DEF new
    <3> QED
      BY <2>1, <3>1, <3>2, <3>3, FS_AddElement
  <2>3. CASE ~(e = src /\ k = ch)
    <3>1. Sending(e, k)' = Sending(e, k)
      BY <2>3 DEF Sending
    <3>2. channels'[e][k] = channels[e][k]
      BY <2>3 DEF IInv, TypeOK
    <3> QED
      BY <2>1, <3>1, <3>2
  <2> QED
    BY <2>2, <2>3
<1>4. Kept'
  <2> SUFFICES ASSUME NEW k \in Channel
               PROVE  packet_map'[k] = {c.packet : c \in {b \in crossing' : b.ch = k}}
    BY DEF Kept
  <2>1. packet_map[k] = {c.packet : c \in {b \in crossing : b.ch = k}}
    BY DEF IInv, Kept
  <2>2. packet_map'[k] = IF k = ch THEN packet_map[k] \cup {p} ELSE packet_map[k]
    BY DEF IInv, TypeOK
  <2>3. new.packet = p /\ new.ch = ch
    OBVIOUS
  <2>4. crossing' = crossing \cup {new}
    OBVIOUS
  <2> HIDE DEF new
  <2> QED
    BY <2>1, <2>2, <2>3, <2>4
<1>5. CrossesOnce'
  BY DEF IInv, CrossesOnce
<1>6. BothMet'
  <2> SUFFICES ASSUME NEW c \in crossing', NEW d \in crossing',
                      c.ch = d.ch, c.src # d.src
               PROVE  c.packet \in met' /\ d.packet \in met'
    BY DEF BothMet
  <2>1. CASE c \in crossing /\ d \in crossing
    BY <2>1 DEF IInv, BothMet
  <2>2. \A b \in crossing : b.ch = ch /\ b.src # src => b \in Opposed(src, ch)
    BY OtherEnd DEF Opposed, IInv, TypeOK, Crossing
  <2>3. CASE c = new /\ d \in crossing
    BY <2>2, <2>3
  <2>4. CASE d = new /\ c \in crossing
    BY <2>2, <2>4
  <2> QED
    BY <2>1, <2>3, <2>4
<1>7. CollisionExact'
  BY MarksAreExact DEF IInv, CollisionExact
<1>8. VerdictFinal'
  <2> SUFFICES ASSUME NEW r \in received
               PROVE  r.dropped <=> r.packet \in drop'
    BY DEF VerdictFinal
  <2>1. r.packet \notin Collided(p, src, ch)
    BY DEF Collided, IInv, CrossesOnce, Kept
  <2> QED
    BY <2>1 DEF IInv, VerdictFinal
<1> QED
  BY <1>2, <1>3, <1>4, <1>5, <1>6, <1>7, <1>8 DEF IInv

-----------------------------------------------------------------------------
LEMMA PassThroughFinishedIInv ==
  ASSUME IInv, NEW c \in crossing, PassThroughFinished(c)
  PROVE  IInv'
<1> USE DEF PassThroughFinished
<1>1. c.packet \in Packet /\ c.src \in End /\ c.ch \in Channel
  BY DEF IInv, TypeOK, Crossing
<1>2. Counted'
  <2> SUFFICES ASSUME NEW e \in End, NEW k \in Channel
               PROVE  /\ IsFiniteSet(Sending(e, k)')
                      /\ channels'[e][k] = Cardinality(Sending(e, k)')
    BY DEF Counted
  <2>1. IsFiniteSet(Sending(e, k)) /\ channels[e][k] = Cardinality(Sending(e, k))
    BY DEF IInv, Counted
  <2>2. CASE e = c.src /\ k = c.ch
    <3>1. Sending(e, k)' = Sending(e, k) \ {c}
      BY <2>2 DEF Sending
    <3>2. c \in Sending(e, k)
      BY <2>2 DEF Sending
    <3>3. channels'[e][k] = channels[e][k] - 1
      BY <2>2, <1>1 DEF IInv, TypeOK
    <3> QED
      BY <2>1, <3>1, <3>2, <3>3, FS_RemoveElement
  <2>3. CASE ~(e = c.src /\ k = c.ch)
    <3>1. Sending(e, k)' = Sending(e, k)
      BY <2>3 DEF Sending
    <3>2. channels'[e][k] = channels[e][k]
      BY <2>3, <1>1 DEF IInv, TypeOK
    <3> QED
      BY <2>1, <3>1, <3>2
  <2> QED
    BY <2>2, <2>3
<1>3. TypeOK'
  <2>1. \A e \in End, k \in Channel : channels'[e][k] \in Nat
    BY <1>2, FS_CardinalityType DEF Counted
  <2>2. channels' \in [End -> [Channel -> Nat]]
    BY <1>1, <2>1 DEF IInv, TypeOK
  <2>3. packet_map' \in [Channel -> SUBSET Packet]
    BY <1>1 DEF IInv, TypeOK
  <2>4. received' \subseteq [packet : Packet, dropped : BOOLEAN]
    <3> DEFINE b == c.packet \in drop
    <3>1. b \in BOOLEAN
      OBVIOUS
    <3>2. [packet |-> c.packet, dropped |-> b] \in [packet : Packet, dropped : BOOLEAN]
      <4> HIDE DEF b
      <4> QED
        BY <1>1, <3>1
    <3> QED
      BY <3>2 DEF IInv, TypeOK
  <2> QED
    BY <2>2, <2>3, <2>4 DEF IInv, TypeOK
<1>4. Kept'
  <2> SUFFICES ASSUME NEW k \in Channel
               PROVE  packet_map'[k] = {d.packet : d \in {b \in crossing' : b.ch = k}}
    BY DEF Kept
  <2>1. packet_map[k] = {d.packet : d \in {b \in crossing : b.ch = k}}
    BY DEF IInv, Kept
  <2>2. packet_map'[k] = IF k = c.ch THEN packet_map[k] \ {c.packet} ELSE packet_map[k]
    BY DEF IInv, TypeOK
  <2>3. \A d \in crossing : d.packet = c.packet => d = c
    BY DEF IInv, CrossesOnce
  <2> QED
    BY <2>1, <2>2, <2>3
<1>5. CrossesOnce'
  BY DEF IInv, CrossesOnce
<1>6. BothMet' /\ CollisionExact'
  BY DEF IInv, BothMet, CollisionExact
<1>7. VerdictFinal'
  <2> SUFFICES ASSUME NEW r \in received'
               PROVE  r.dropped <=> r.packet \in drop
    BY DEF VerdictFinal
  <2>1. CASE r \in received
    BY <2>1 DEF IInv, VerdictFinal
  <2>2. CASE r = [packet |-> c.packet, dropped |-> c.packet \in drop]
    BY <2>2, Zenon
  <2> QED
    BY <2>1, <2>2
<1> QED
  BY <1>2, <1>3, <1>4, <1>5, <1>6, <1>7 DEF IInv

LEMMA NextIInv == IInv /\ [Next]_vars => IInv'
<1> SUFFICES ASSUME IInv, [Next]_vars PROVE IInv'
  OBVIOUS
<1>1. ASSUME NEW p \in Packet, NEW src \in End, NEW ch \in Channel,
             PassThrough(p, src, ch)
      PROVE  IInv'
  BY <1>1, PassThroughIInv
<1>2. ASSUME NEW p \in Packet, ReceiveHead(p)
      PROVE  IInv'
  BY <1>2 DEF ReceiveHead, IInv, TypeOK, Counted, Sending, Kept, CrossesOnce, BothMet,
              CollisionExact, VerdictFinal
<1>3. ASSUME NEW c \in crossing, PassThroughFinished(c)
      PROVE  IInv'
  BY <1>3, PassThroughFinishedIInv
<1>4. CASE UNCHANGED vars
  BY <1>4 DEF vars, IInv, TypeOK, Counted, Sending, Kept, CrossesOnce, BothMet,
              CollisionExact, VerdictFinal
<1> QED
  BY <1>1, <1>2, <1>3, <1>4 DEF Next

THEOREM Invariance == Spec => []IInv
BY InitIInv, NextIInv, PTL DEF Spec

-----------------------------------------------------------------------------
\* The marks are exact, whatever number of bursts cross in whatever order
\* (PassThrough, PassThroughFinished).
THEOREM CollisionExactHolds == Spec => []CollisionExact
<1>1. IInv => CollisionExact
  BY DEF IInv
<1> QED
  BY <1>1, Invariance, PTL

\* The mark an endpoint has read never changes afterwards.
THEOREM VerdictFinalHolds == Spec => []VerdictFinal
<1>1. IInv => VerdictFinal
  BY DEF IInv
<1> QED
  BY <1>1, Invariance, PTL

\* The assertions of PassThroughFinished never fail.
THEOREM FinishFindsPacketHolds == Spec => []FinishFindsPacket
<1>1. IInv => FinishFindsPacket
  <2> SUFFICES ASSUME IInv, NEW c \in crossing
               PROVE  channels[c.src][c.ch] > 0 /\ c.packet \in packet_map[c.ch]
    BY DEF FinishFindsPacket
  <2>1. c.src \in End /\ c.ch \in Channel
    BY DEF IInv, TypeOK, Crossing
  <2>2. channels[c.src][c.ch] # 0
    BY <2>1, CountIsZero DEF IInv, Sending
  <2>3. channels[c.src][c.ch] \in Nat
    BY <2>1 DEF IInv, TypeOK
  <2>4. c.packet \in packet_map[c.ch]
    BY <2>1 DEF IInv, Kept
  <2> QED
    BY <2>2, <2>3, <2>4
<1> QED
  BY <1>1, Invariance, PTL

THEOREM TypeCorrect == Spec => []TypeOK
<1>1. IInv => TypeOK
  BY DEF IInv
<1> QED
  BY <1>1, Invariance, PTL
=============================================================================
