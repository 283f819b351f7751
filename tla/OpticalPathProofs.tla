-------------------------- MODULE OpticalPathProofs --------------------------
(***************************************************************************)
(* Proofs about the schedule of a switch and the way of a burst, for any   *)
(* number of devices, channels, slots and messages.                        *)
(*                                                                         *)
(* The switch, whatever its control messages announce: no reservation      *)
(* reaches into a reconfiguration, and of those listed for a device, slot  *)
(* and channel two overlap only if the later one lies inside the earlier.  *)
(* That is the one case ScheduleMessage does not see: it looks for a bound *)
(* of the old reservation within the new one, and an old one that is       *)
(* longer may have both its bounds outside.  The induction needs more than *)
(* the two properties: that every list, the copies PassThroughFinish makes *)
(* included, holds reservations that last as long as a burst does, and     *)
(* that the bursts to come name devices, channels and slots of the tables. *)
(*                                                                         *)
(* The path, under the announcements the endpoints make and for bursts of  *)
(* any lengths: the switch finds the table as it was when it gave a burst  *)
(* its place.  A place booked stays in the lists of its slot, or the copy  *)
(* that has lost it is remembered, as long as a later burst could overlap  *)
(* it; so two accepted bursts are apart but for a place inside another and *)
(* for a lost place, and those that meet in a fibre or in the switch are   *)
(* the tail of one and the head of another.                                *)
(***************************************************************************)
EXTENDS OpticalPath, SequencesExt, SequenceTheorems, WellFoundedInduction, TLAPS

\* The search loops find a first match whenever there is one.
LEMMA SetHasMin ==
  ASSUME NEW S \in SUBSET Nat, S # {}
  PROVE  \E x \in S : \A y \in S : x <= y
<1>1. PICK x \in S : \A y \in S : ~ (<<y, x>> \in OpToRel(<, Nat))
  BY WFMin, NatLessThanWellFounded
<1>2. \A y \in S : ~(y < x)
  BY <1>1 DEF OpToRel
<1> QED BY <1>2

\* vector::erase keeps the other items, in their order.
LEMMA RemoveAtElements ==
  ASSUME NEW S, NEW s \in Seq(S), NEW k \in 1..Len(s)
  PROVE  /\ RemoveAt(s, k) \in Seq(S)
         /\ Len(RemoveAt(s, k)) = Len(s) - 1
         /\ \A i \in 1..(Len(s) - 1) : RemoveAt(s, k)[i] = IF i < k THEN s[i] ELSE s[i + 1]
<1> DEFINE a == SubSeq(s, 1, k - 1)
           b == SubSeq(s, k + 1, Len(s))
<1>1. /\ a \in Seq(S) /\ Len(a) = k - 1 /\ \A i \in 1..(k - 1) : a[i] = s[i]
  BY SubSeqProperties
<1>2. /\ b \in Seq(S) /\ Len(b) = Len(s) - k /\ \A i \in 1..(Len(s) - k) : b[i] = s[k + i]
  BY SubSeqProperties
<1>3. RemoveAt(s, k) = a \o b
  BY DEF RemoveAt
<1>4. Len(s) \in Nat
  BY LenProperties
<1> HIDE DEF a, b
<1>5. /\ a \o b \in Seq(S) /\ Len(a \o b) = Len(a) + Len(b)
      /\ \A i \in 1..(Len(a) + Len(b)) :
           (a \o b)[i] = IF i <= Len(a) THEN a[i] ELSE b[i - Len(a)]
  BY <1>1, <1>2, ConcatProperties
<1>6. Len(a) + Len(b) = Len(s) - 1
  BY <1>1, <1>2, <1>4
<1>7. ASSUME NEW i \in 1..(Len(s) - 1)
      PROVE  (a \o b)[i] = IF i < k THEN s[i] ELSE s[i + 1]
  <2>0. (a \o b)[i] = IF i <= k - 1 THEN a[i] ELSE b[i - (k - 1)]
    BY <1>1, <1>5, <1>6
  <2>1. CASE i < k
    <3>1. i \in 1..(k - 1) /\ i <= k - 1
      BY <1>4, <2>1
    <3> QED
      BY <1>1, <2>0, <2>1, <3>1
  <2>2. CASE ~(i < k)
    <3>1. i - (k - 1) \in 1..(Len(s) - k) /\ k + (i - (k - 1)) = i + 1 /\ ~(i <= k - 1)
      BY <1>4, <2>2
    <3> QED
      BY <1>2, <2>0, <2>2, <3>1
  <2> QED
    BY <2>1, <2>2
<1> QED
  BY <1>3, <1>5, <1>6, <1>7


\* What is true of every list of reservations for slot s.
GoodList(list, s) ==
  /\ list \in Seq(Reservation)
  /\ \A i \in 1..Len(list) :
       /\ list[i].exit - list[i].arrival \in Durations
       /\ Start(s) <= list[i].arrival /\ list[i].exit <= End(s)
  /\ \A i, j \in 1..Len(list) :
       i < j => Disjoint(list[i], list[j]) \/ Inside(list[j], list[i])

GoodLists ==
  /\ tx_list \in [Dev -> [Slots -> [Channel -> Seq(Reservation)]]]
  /\ \A d \in Dev, s \in Slots, ch \in Channel : GoodList(tx_list[d][s][ch], s)

PendingTimed == \A b \in pending : b.exit - b.arrival \in Durations

IInv == TypeOK /\ GoodLists /\ PendingTimed

-----------------------------------------------------------------------------
\* vector::erase of the reservation, if there is one.
LEMMA WithoutIdErases ==
  ASSUME NEW S, NEW list \in Seq(S), NEW id
  PROVE  \/ WithoutId(list, id) = list
         \/ \E k \in 1..Len(list) : WithoutId(list, id) = RemoveAt(list, k)
<1> DEFINE I == {i \in 1..Len(list) : list[i].id = id}
<1>1. CASE I = {}
  BY <1>1 DEF WithoutId, RemoveFirstMatch
<1>2. CASE I # {}
  <2>1. PICK k \in I : \A j \in I : k <= j
    <3>1. I \in SUBSET Nat
      BY LenProperties
    <3> HIDE DEF I
    <3> QED
      BY <1>2, <3>1, SetHasMin
  <2>2. Min(I) \in I
    BY <2>1 DEF Min
  <2>3. WithoutId(list, id) = RemoveAt(list, Min(I))
    BY <1>2 DEF WithoutId, RemoveFirstMatch, SelectInSeq
  <2> QED
    BY <2>2, <2>3
<1> QED
  BY <1>1, <1>2

\* What the test of ScheduleMessage lets through lies beside the old reservation or
\* inside it.
LEMMA ClearIsNested ==
  ASSUME NEW r, NEW q, r.arrival \in Nat, r.exit \in Nat, q.arrival \in Nat, q.exit \in Nat,
         r.arrival <= r.exit, q.arrival <= q.exit, ~Conflicts(r, q.arrival, q.exit)
  PROVE  Disjoint(r, q) \/ Inside(q, r)
BY DEF Conflicts, Disjoint, Inside

LEMMA EmptyIsGood ==
  ASSUME NEW s
  PROVE  GoodList(<<>>, s)
BY EmptySeq DEF GoodList

LEMMA AppendIsGood ==
  ASSUME NEW s, NEW list, GoodList(list, s), NEW item \in Reservation,
         item.exit - item.arrival \in Durations,
         Start(s) <= item.arrival, item.exit <= End(s),
         Clear(list, item.arrival, item.exit)
  PROVE  GoodList(Append(list, item), s)
<1> DEFINE new == Append(list, item)
<1>1. list \in Seq(Reservation) /\ Len(list) \in Nat /\ DOMAIN list = 1..Len(list)
  BY LenProperties DEF GoodList
<1>2. /\ new \in Seq(Reservation) /\ Len(new) = Len(list) + 1
      /\ \A i \in 1..Len(list) : new[i] = list[i]
      /\ new[Len(list) + 1] = item
  BY <1>1, AppendProperties
<1>3. \A i \in 1..Len(list) : list[i] \in Reservation
  BY <1>1, ElementOfSeq
<1> HIDE DEF new
<1>4. ASSUME NEW i \in 1..Len(new)
      PROVE  /\ new[i].exit - new[i].arrival \in Durations
             /\ Start(s) <= new[i].arrival /\ new[i].exit <= End(s)
  <2>1. CASE i = Len(list) + 1
    BY <1>2, <2>1
  <2>2. CASE i \in 1..Len(list)
    BY <1>2, <2>2 DEF GoodList
  <2> QED
    BY <1>1, <1>2, <2>1, <2>2
<1>5. ASSUME NEW i \in 1..Len(new), NEW j \in 1..Len(new), i < j
      PROVE  Disjoint(new[i], new[j]) \/ Inside(new[j], new[i])
  <2>1. CASE j \in 1..Len(list)
    <3>1. i \in 1..Len(list)
      BY <1>1, <1>2, <1>5, <2>1
    <3> QED
      BY <1>2, <1>5, <2>1, <3>1 DEF GoodList
  <2>2. CASE j = Len(list) + 1
    <3>1. i \in 1..Len(list)
      BY <1>1, <1>2, <1>5, <2>2
    <3>2. ~Conflicts(list[i], item.arrival, item.exit)
      BY <1>1, <3>1 DEF Clear
    <3>3. list[i].arrival <= list[i].exit /\ item.arrival <= item.exit
      <4>1. list[i].exit - list[i].arrival \in Nat /\ item.exit - item.arrival \in Nat
        BY <3>1, SwitchAssumption DEF GoodList
      <4>2. list[i] \in Reservation /\ item \in Reservation
        BY <1>3, <3>1
      <4> QED
        BY <4>1, <4>2 DEF Reservation
    <3>4. Disjoint(list[i], item) \/ Inside(item, list[i])
      <4>1. list[i] \in Reservation /\ item \in Reservation
        BY <1>3, <3>1
      <4> QED
        BY <3>2, <3>3, <4>1, ClearIsNested DEF Reservation
    <3> QED
      BY <1>2, <2>2, <3>1, <3>4
  <2> QED
    BY <1>1, <1>2, <2>1, <2>2
<1> QED
  BY <1>2, <1>4, <1>5 DEF GoodList, new

LEMMA ErasedIsGood ==
  ASSUME NEW s, NEW list, GoodList(list, s), NEW id
  PROVE  GoodList(WithoutId(list, id), s)
<1>1. list \in Seq(Reservation) /\ Len(list) \in Nat
  BY LenProperties DEF GoodList
<1>2. CASE WithoutId(list, id) = list
  BY <1>2
<1>3. ASSUME NEW k \in 1..Len(list)
      PROVE  GoodList(RemoveAt(list, k), s)
  <2> DEFINE new == RemoveAt(list, k)
             was(i) == IF i < k THEN i ELSE i + 1
  <2>1. /\ new \in Seq(Reservation) /\ Len(new) = Len(list) - 1
        /\ \A i \in 1..(Len(list) - 1) : new[i] = IF i < k THEN list[i] ELSE list[i + 1]
    BY <1>1, RemoveAtElements
  <2> HIDE DEF new
  <2>2. \A i \in 1..Len(new) : was(i) \in 1..Len(list) /\ new[i] = list[was(i)]
    BY <1>1, <2>1
  <2>3. \A i, j \in 1..Len(new) : i < j => was(i) < was(j)
    BY <1>1, <2>1
  <2> HIDE DEF was
  <2>4. \A i \in 1..Len(new) :
           /\ new[i].exit - new[i].arrival \in Durations
           /\ Start(s) <= new[i].arrival /\ new[i].exit <= End(s)
    BY <2>2 DEF GoodList
  <2>5. ASSUME NEW i \in 1..Len(new), NEW j \in 1..Len(new), i < j
        PROVE  Disjoint(new[i], new[j]) \/ Inside(new[j], new[i])
    BY <2>2, <2>3, <2>5 DEF GoodList
  <2> QED
    BY <2>1, <2>4, <2>5 DEF GoodList, new
<1> QED
  BY <1>1, <1>2, <1>3, WithoutIdErases

-----------------------------------------------------------------------------
LEMMA FirstIsASlot ==
  ASSUME TypeOK
  PROVE  first \in Slots /\ first \in Nat /\ Slots \subseteq Nat
BY SwitchAssumption DEF TypeOK, Slots

LEMMA InitIInv == Init => IInv
<1> SUFFICES ASSUME Init PROVE IInv
  OBVIOUS
<1>1. Slots = 0..(ScheduleSize - 1)
  BY SwitchAssumption DEF Init, Slots
<1>2. TypeOK
  BY <1>1, EmptySeq DEF Init, TypeOK
<1>3. GoodLists
  <2>1. \A d \in Dev, s \in Slots, ch \in Channel : tx_list[d][s][ch] = <<>>
    BY <1>1 DEF Init
  <2> QED
    BY <1>2, <2>1, EmptyIsGood DEF GoodLists, TypeOK
<1> QED
  BY <1>2, <1>3 DEF IInv, Init, PendingTimed

LEMMA ScheduleMessageIInv ==
  ASSUME IInv, NEW from \in Dev, NEW to \in Dev, NEW id \in Id, NEW ch \in Channel,
         NEW arrival \in Nat, NEW duration \in Durations, NEW head \in Nat,
         NEW control_full \in BOOLEAN,
         ScheduleMessage(from, to, id, ch, arrival, duration, head, control_full)
  PROVE  IInv'
<1> DEFINE exit == arrival + duration
           slots == Schedulable(from, to, ch, arrival, exit)
           fits == slots # {}
           item == [id |-> id, arrival |-> arrival, exit |-> exit]
           burst == [id |-> id, from |-> from, to |-> to, ch |-> ch,
                     arrival |-> arrival, exit |-> exit, head |-> head,
                     ok |-> fits /\ ~control_full]
           slot == CHOOSE s \in slots : TRUE
<1>1. /\ arrival \in Nat /\ duration \in Nat /\ exit \in Nat
      /\ exit - arrival \in Durations
  BY SwitchAssumption
<1>2. /\ from # to
      /\ announced' = announced + 1
      /\ pending' = {b \in pending : b.id # id} \cup {burst}
      /\ granted' \subseteq granted \cup {burst}
      /\ UNCHANGED <<now, reconfiguring, first, passing, dropped, forgotten>>
  BY DEF ScheduleMessage
<1>3. item \in Reservation
  BY <1>1 DEF Reservation
<1>4. burst \in Burst
  <2> DEFINE ok == fits /\ ~control_full
  <2>1. ok \in BOOLEAN
    OBVIOUS
  <2> HIDE DEF ok, exit
  <2>2. [id |-> id, from |-> from, to |-> to, ch |-> ch,
         arrival |-> arrival, exit |-> exit, head |-> head, ok |-> ok] \in Burst
    BY <1>1, <2>1 DEF Burst
  <2> QED
    BY <2>2 DEF ok
<1>5. burst.exit - burst.arrival \in Durations
  BY <1>1
<1> HIDE DEF burst
<1>6. Slots' = Slots
  BY <1>2 DEF Slots
<1>7. /\ entry' \in [Dev -> [Slots -> [Channel -> Dev \cup {NoDev}]]]
      /\ tx_list' \in [Dev -> [Slots -> [Channel -> Seq(Reservation)]]]
      /\ \A d \in Dev, s \in Slots, k \in Channel : GoodList(tx_list'[d][s][k], s)
  <2>1. CASE ~fits
    BY <2>1 DEF ScheduleMessage, IInv, TypeOK, GoodLists
  <2>2. CASE fits
    <3>1. slot \in slots
      BY <2>2
    <3>2. /\ slot \in Slots
          /\ Start(slot) <= arrival /\ exit <= End(slot)
          /\ Clear(tx_list[from][slot][ch], arrival, exit)
          /\ Clear(tx_list[to][slot][ch], arrival, exit)
      BY <3>1 DEF Schedulable, SlotsFor
    <3>3. /\ entry' = [entry EXCEPT ![from][slot][ch] = to]
          /\ tx_list' = [tx_list EXCEPT ![from][slot][ch] = Append(@, item),
                                        ![to][slot][ch] = Append(@, item)]
      BY <2>2 DEF ScheduleMessage
    <3> HIDE DEF slot, item, exit, slots, fits
    <3>4. \A d \in Dev, s \in Slots, k \in Channel :
            tx_list'[d][s][k] = IF d \in {from, to} /\ s = slot /\ k = ch
                                THEN Append(tx_list[d][s][k], item)
                                ELSE tx_list[d][s][k]
      BY <1>2, <3>2, <3>3 DEF IInv, GoodLists
    <3>5. /\ GoodList(Append(tx_list[from][slot][ch], item), slot)
          /\ GoodList(Append(tx_list[to][slot][ch], item), slot)
      <4>1. /\ item.arrival = arrival /\ item.exit = exit
            /\ item.exit - item.arrival \in Durations
        BY <1>1 DEF item
      <4>2. GoodList(tx_list[from][slot][ch], slot) /\ GoodList(tx_list[to][slot][ch], slot)
        BY <3>2 DEF IInv, GoodLists
      <4>3. GoodList(Append(tx_list[from][slot][ch], item), slot)
        BY <1>3, <3>2, <4>1, <4>2, AppendIsGood
      <4>4. GoodList(Append(tx_list[to][slot][ch], item), slot)
        BY <1>3, <3>2, <4>1, <4>2, AppendIsGood
      <4> QED
        BY <4>3, <4>4
    <3>6. \A d \in Dev, s \in Slots, k \in Channel : GoodList(tx_list'[d][s][k], s)
      <4> TAKE d \in Dev, s \in Slots, k \in Channel
      <4>1. GoodList(tx_list[d][s][k], s)
        BY DEF IInv, GoodLists
      <4>2. CASE d \in {from, to} /\ s = slot /\ k = ch
        <5>1. tx_list'[d][s][k] = Append(tx_list[d][slot][ch], item)
          BY <3>4, <4>2
        <5> QED
          BY <3>5, <4>2, <5>1
      <4>3. CASE ~(d \in {from, to} /\ s = slot /\ k = ch)
        <5>1. tx_list'[d][s][k] = tx_list[d][s][k]
          BY <3>4, <4>3
        <5> QED
          BY <4>1, <5>1
      <4> QED
        BY <4>2, <4>3
    <3>7. entry' \in [Dev -> [Slots -> [Channel -> Dev \cup {NoDev}]]]
      BY <3>2, <3>3 DEF IInv, TypeOK
    <3>8. tx_list' \in [Dev -> [Slots -> [Channel -> Seq(Reservation)]]]
      <4>1. /\ Append(tx_list[from][slot][ch], item) \in Seq(Reservation)
            /\ Append(tx_list[to][slot][ch], item) \in Seq(Reservation)
        BY <3>5 DEF GoodList
      <4> QED
        BY <1>2, <3>2, <3>3, <4>1 DEF IInv, GoodLists
    <3> QED
      BY <3>6, <3>7, <3>8
  <2> QED
    BY <2>1, <2>2
<1>8. TypeOK'
  <2>1. pending' \subseteq Burst /\ granted' \subseteq Burst
    BY <1>2, <1>4 DEF IInv, TypeOK
  <2> QED
    BY <1>2, <1>6, <1>7, <2>1 DEF IInv, TypeOK
<1>9. GoodLists' /\ PendingTimed'
  <2>1. PendingTimed'
    BY <1>2, <1>5 DEF IInv, PendingTimed
  <2> QED
    BY <1>6, <1>7, <2>1 DEF GoodLists, GoodList, Start, End, Disjoint, Inside
<1> QED
  BY <1>8, <1>9 DEF IInv

LEMMA ReceiveDataIInv == IInv /\ ReceiveData => IInv'
<1> SUFFICES ASSUME IInv, ReceiveData PROVE IInv'
  OBVIOUS
<1>1. PICK b \in pending :
        /\ b.head = now
        /\ pending' = pending \ {b}
        /\ LET to == entry[b.from][first][b.ch]
               pass == [id |-> b.id, src |-> b.from, dst |-> to, ch |-> b.ch,
                        finish |-> now + Propagation + (b.exit - b.arrival)]
           IN IF to # NoDev /\ ~reconfiguring
              THEN /\ passing' = passing \cup {pass}
                   /\ dropped' \subseteq dropped \cup passing'
              ELSE UNCHANGED <<passing, dropped>>
        /\ UNCHANGED <<now, reconfiguring, tables, announced, granted, forgotten>>
  BY DEF ReceiveData, ReceiveBurst
<1>2. /\ b \in Burst
      /\ b.exit - b.arrival \in Nat
  BY <1>1, SwitchAssumption DEF IInv, TypeOK, PendingTimed
<1>3. Slots' = Slots
  BY <1>1 DEF Slots, tables
<1>4. passing' \subseteq Pass /\ dropped' \subseteq passing'
  <2> DEFINE to == entry[b.from][first][b.ch]
  <2>1. CASE to # NoDev /\ ~reconfiguring
    <3>1. /\ b.id \in Id /\ b.from \in Dev /\ b.ch \in Channel
          /\ now + Propagation + (b.exit - b.arrival) \in Nat
      BY <1>2, SwitchAssumption DEF Burst, IInv, TypeOK
    <3>2. to \in Dev
      BY <2>1, <3>1, FirstIsASlot DEF IInv, TypeOK
    <3>3. [id |-> b.id, src |-> b.from, dst |-> to, ch |-> b.ch,
           finish |-> now + Propagation + (b.exit - b.arrival)] \in Pass
      BY <3>1, <3>2 DEF Pass
    <3> QED
      BY <1>1, <2>1, <3>3 DEF IInv, TypeOK
  <2>2. CASE ~(to # NoDev /\ ~reconfiguring)
    BY <1>1, <2>2 DEF IInv, TypeOK
  <2> QED
    BY <2>1, <2>2
<1>5. TypeOK'
  BY <1>1, <1>3, <1>4 DEF IInv, TypeOK, tables
<1>6. GoodLists'
  <2>1. tx_list' = tx_list
    BY <1>1 DEF tables
  <2>2. GoodLists
    BY DEF IInv
  <2> QED
    BY <1>3, <2>1, <2>2 DEF GoodLists, GoodList, Start, End, Disjoint, Inside
<1>7. PendingTimed'
  BY <1>1 DEF IInv, PendingTimed
<1> QED
  BY <1>5, <1>6, <1>7 DEF IInv

LEMMA PassThroughFinishIInv == IInv /\ PassThroughFinish => IInv'
<1> SUFFICES ASSUME IInv, PassThroughFinish PROVE IInv'
  OBVIOUS
<1>1. PICK p \in passing :
        /\ passing' = passing \ {p}
        /\ dropped' = dropped \ {p}
        /\ tx_list' = [tx_list EXCEPT ![p.dst][first][p.ch] =
                         WithoutId(tx_list[p.src][first][p.ch], p.id)]
        /\ \E lost \in SUBSET ToSet(tx_list[p.dst][first][p.ch]) :
             forgotten' = forgotten \cup ({p.dst} \X lost)
        /\ UNCHANGED <<now, reconfiguring, first, entry, pending, announced, granted>>
  BY DEF PassThroughFinish, Finish
<1>2. p.src \in Dev /\ p.dst \in Dev /\ p.ch \in Channel
  BY <1>1 DEF IInv, TypeOK, Pass
<1>3. first \in Slots /\ Slots' = Slots
  BY <1>1, FirstIsASlot DEF IInv, Slots
<1> DEFINE copy == WithoutId(tx_list[p.src][first][p.ch], p.id)
<1>4. GoodList(copy, first)
  BY <1>2, <1>3, ErasedIsGood DEF IInv, GoodLists
<1>5. copy \in Seq(Reservation)
  BY <1>4 DEF GoodList
<1> HIDE DEF copy
<1>6. tx_list' = [tx_list EXCEPT ![p.dst][first][p.ch] = copy]
  BY <1>1 DEF copy
<1>7. tx_list' \in [Dev -> [Slots -> [Channel -> Seq(Reservation)]]]
  BY <1>2, <1>3, <1>5, <1>6 DEF IInv, GoodLists
<1>8. ASSUME NEW d \in Dev, NEW s \in Slots, NEW ch \in Channel
      PROVE  GoodList(tx_list'[d][s][ch], s)
  <2>1. CASE d = p.dst /\ s = first /\ ch = p.ch
    <3>1. tx_list'[d][s][ch] = copy
      BY <1>2, <1>3, <1>6, <2>1 DEF IInv, GoodLists
    <3> QED
      BY <1>4, <2>1, <3>1
  <2>2. CASE ~(d = p.dst /\ s = first /\ ch = p.ch)
    <3>1. tx_list'[d][s][ch] = tx_list[d][s][ch]
      BY <1>2, <1>3, <1>6, <2>2 DEF IInv, GoodLists
    <3> QED
      BY <3>1 DEF IInv, GoodLists
  <2> QED
    BY <2>1, <2>2
<1>9. TypeOK'
  <2>1. ToSet(tx_list[p.dst][first][p.ch]) \subseteq Reservation
    BY <1>2, <1>3 DEF IInv, TypeOK, ToSet
  <2>2. forgotten' \subseteq Dev \X Reservation
    BY <1>1, <1>2, <2>1 DEF IInv, TypeOK
  <2> QED
    BY <1>1, <1>3, <1>7, <2>2 DEF IInv, TypeOK
<1>10. GoodLists' /\ PendingTimed'
  BY <1>1, <1>3, <1>7, <1>8
     DEF IInv, GoodLists, GoodList, PendingTimed, Start, End, Disjoint, Inside
<1> QED
  BY <1>9, <1>10 DEF IInv

LEMMA BeginReconfigureIInv == IInv /\ BeginReconfigure => IInv'
<1> SUFFICES ASSUME IInv, BeginReconfigure PROVE IInv'
  OBVIOUS
<1>1. /\ first' = first + 1
      /\ reconfiguring' = TRUE
      /\ entry' = Shifted(entry, NoDev)
      /\ tx_list' = Shifted(tx_list, <<>>)
      /\ UNCHANGED <<now, pending, passing, dropped, announced, granted, forgotten>>
  BY DEF BeginReconfigure
<1>2. Slots' = (first + 1)..(first + ScheduleSize)
  BY <1>1, SwitchAssumption DEF IInv, TypeOK, Slots
<1>3. ASSUME NEW S, NEW empty \in S, NEW table \in [Dev -> [Slots -> [Channel -> S]]]
      PROVE  /\ Shifted(table, empty) \in [Dev -> [Slots' -> [Channel -> S]]]
             /\ \A d \in Dev, s \in Slots', ch \in Channel :
                  Shifted(table, empty)[d][s][ch] = IF s \in Slots THEN table[d][s][ch] ELSE empty
  BY <1>2 DEF Shifted
<1>4. entry' \in [Dev -> [Slots' -> [Channel -> Dev \cup {NoDev}]]]
  BY <1>1, <1>3 DEF IInv, TypeOK
<1>5. /\ tx_list' \in [Dev -> [Slots' -> [Channel -> Seq(Reservation)]]]
      /\ \A d \in Dev, s \in Slots', ch \in Channel :
           tx_list'[d][s][ch] = IF s \in Slots THEN tx_list[d][s][ch] ELSE <<>>
  <2> DEFINE S == Seq(Reservation)
  <2>1. <<>> \in S /\ tx_list \in [Dev -> [Slots -> [Channel -> S]]]
    BY EmptySeq DEF IInv, GoodLists
  <2> HIDE DEF S
  <2>2. /\ tx_list' \in [Dev -> [Slots' -> [Channel -> S]]]
        /\ \A d \in Dev, s \in Slots', ch \in Channel :
             tx_list'[d][s][ch] = IF s \in Slots THEN tx_list[d][s][ch] ELSE <<>>
    BY <1>1, <1>3, <2>1
  <2> QED
    BY <2>2 DEF S
<1>6. \A d \in Dev, s \in Slots', ch \in Channel : GoodList(tx_list'[d][s][ch], s)
  <2> TAKE d \in Dev, s \in Slots', ch \in Channel
  <2>1. CASE s \in Slots
    <3>1. tx_list'[d][s][ch] = tx_list[d][s][ch]
      BY <1>5, <2>1
    <3> QED
      BY <2>1, <3>1 DEF IInv, GoodLists
  <2>2. CASE s \notin Slots
    <3>1. tx_list'[d][s][ch] = <<>>
      BY <1>5, <2>2
    <3> QED
      BY <3>1, EmptyIsGood
  <2> QED
    BY <2>1, <2>2
<1>7. TypeOK'
  BY <1>1, <1>4, <1>5 DEF IInv, TypeOK
<1>8. GoodLists' /\ PendingTimed'
  BY <1>1, <1>5, <1>6
     DEF IInv, GoodLists, GoodList, PendingTimed, Start, End, Disjoint, Inside
<1> QED
  BY <1>7, <1>8 DEF IInv

LEMMA ClockIInv == IInv /\ (CompleteReconfigure \/ Tick \/ UNCHANGED vars) => IInv'
<1> SUFFICES ASSUME IInv, CompleteReconfigure \/ Tick \/ UNCHANGED vars PROVE IInv'
  OBVIOUS
<1>1. /\ UNCHANGED <<first, entry, tx_list, passing, dropped, announced, granted, forgotten>>
      /\ now' \in Nat /\ reconfiguring' \in BOOLEAN /\ pending' \subseteq pending
  <2>1. CASE CompleteReconfigure
    BY <2>1 DEF CompleteReconfigure, tables, IInv, TypeOK
  <2>2. CASE Tick
    BY <2>2 DEF Tick, tables, IInv, TypeOK
  <2>3. CASE UNCHANGED vars
    BY <2>3 DEF vars, tables, IInv, TypeOK
  <2> QED
    BY <2>1, <2>2, <2>3
<1>2. Slots' = Slots
  BY <1>1 DEF Slots
<1>3. TypeOK'
  BY <1>1, <1>2 DEF IInv, TypeOK
<1>4. GoodLists' /\ PendingTimed'
  BY <1>1, <1>2 DEF IInv, GoodLists, GoodList, PendingTimed, Start, End, Disjoint, Inside
<1> QED
  BY <1>3, <1>4 DEF IInv

-----------------------------------------------------------------------------
\* The invariant of the induction holds whatever is announced, passes or is lost.
THEOREM Invariance == Spec => []IInv
<1>1. IInv /\ [Next]_vars => IInv'
  <2> SUFFICES ASSUME IInv, [Next]_vars PROVE IInv'
    OBVIOUS
  <2>1. ASSUME NEW from \in Dev, NEW to \in Dev, NEW id \in Id, NEW ch \in Channel,
               NEW arrival \in 0..MaxTime, NEW duration \in Durations,
               NEW control_full \in BOOLEAN,
               ScheduleMessage(from, to, id, ch, arrival, duration, arrival, control_full)
        PROVE  IInv'
    BY <2>1, ScheduleMessageIInv
  <2>2. CASE ReceiveData
    BY <2>2, ReceiveDataIInv
  <2>3. CASE PassThroughFinish
    BY <2>3, PassThroughFinishIInv
  <2>4. CASE BeginReconfigure
    BY <2>4, BeginReconfigureIInv
  <2>5. CASE CompleteReconfigure \/ Tick \/ UNCHANGED vars
    BY <2>5, ClockIInv
  <2> QED
    BY <2>1, <2>2, <2>3, <2>4, <2>5 DEF Next
<1> QED
  BY <1>1, InitIInv, PTL DEF Spec

\* The tables keep their shape: every device has a list for every slot and channel,
\* and what passes the switch has come in and leaves by a device (PassThrough).
THEOREM TypeCorrect == Spec => []TypeOK
BY Invariance, PTL DEF IInv

\* No reservation reaches into a reconfiguration (ScheduleMessage, BeginReconfigure).
THEOREM WithinSlotHolds == Spec => []WithinSlot
<1>1. IInv => WithinSlot
  <2> SUFFICES ASSUME IInv, NEW d \in Dev, NEW s \in Slots, NEW ch \in Channel,
                      NEW i \in DOMAIN tx_list[d][s][ch]
               PROVE  /\ Start(s) <= tx_list[d][s][ch][i].arrival
                      /\ tx_list[d][s][ch][i].exit <= End(s)
    BY DEF WithinSlot
  <2>1. GoodList(tx_list[d][s][ch], s)
    BY DEF IInv, GoodLists
  <2>2. i \in 1..Len(tx_list[d][s][ch])
    BY <2>1, LenProperties DEF GoodList
  <2> QED
    BY <2>1, <2>2 DEF GoodList
<1> QED
  BY <1>1, Invariance, PTL

\* Whatever the lengths of the bursts, the test of ScheduleMessage misses one case
\* only, in the lists PassThroughFinish copies neither: a reservation strictly inside
\* one that was there before.
THEOREM OverlapsNestedHolds == Spec => []OverlapsNested
<1>1. IInv => OverlapsNested
  <2> SUFFICES ASSUME IInv, NEW d \in Dev, NEW s \in Slots, NEW ch \in Channel,
                      NEW i \in DOMAIN tx_list[d][s][ch], NEW j \in DOMAIN tx_list[d][s][ch],
                      i < j
               PROVE  \/ Disjoint(tx_list[d][s][ch][i], tx_list[d][s][ch][j])
                      \/ Inside(tx_list[d][s][ch][j], tx_list[d][s][ch][i])
    BY DEF OverlapsNested
  <2>1. GoodList(tx_list[d][s][ch], s)
    BY DEF IInv, GoodLists
  <2>2. DOMAIN tx_list[d][s][ch] = 1..Len(tx_list[d][s][ch])
    BY <2>1, LenProperties DEF GoodList
  <2> QED
    BY <2>1, <2>2 DEF GoodList
<1> QED
  BY <1>1, Invariance, PTL

-----------------------------------------------------------------------------
(***************************************************************************)
(* The way of a burst.  What is known of the bursts announced and launched *)
(* holds for any fibres.  That their places keep them apart takes fibres   *)
(* of one length (AlikeFibres), as the switch works with the delay of one  *)
(* fibre for the other, and an instant between a burst that passes and one *)
(* announced after it (SomeDelay).                                         *)
(***************************************************************************)
AlikeFibres == \A d, e \in Dev : FibreDelay[d] = FibreDelay[e]
SomeDelay == Lead + Propagation > 0
Orderly == AlikeFibres /\ SomeDelay

\* The bursts that are announced or under way.
Known == pending \cup bursts

ClockInv ==
  /\ reconfiguring => Start(first) <= now + R /\ now <= Start(first)
  /\ ~reconfiguring => Start(first) <= now /\ now <= End(first)

KnownInv ==
  /\ \A b \in Known :
       /\ b.exit = b.arrival + Length[b.id] /\ b.from # b.to
       /\ b.head + FibreDelay[b.to] = b.arrival + FibreDelay[b.from]
       /\ b.head + Length[b.id] < next_transmit[b.from] + FibreDelay[b.from]
  /\ \A b, c \in Known : b.id = c.id => b = c
  /\ \A b, c \in Known :
       b # c /\ b.from = c.from =>
         b.head + Length[b.id] < c.head \/ c.head + Length[c.id] < b.head

\* What is in the switch or a fibre is a burst under way.
UnderWay ==
  /\ \A p \in passing : \E b \in bursts : b.id = p.id
  /\ \A c \in fibres : \E b \in bursts : b.id = c.id

Booked(b, d, s) ==
  \E i \in 1..Len(tx_list[d][s][b.ch]) :
    tx_list[d][s][b.ch][i] = Place(b)

\* The place of an accepted burst is in the lists until its slot is the first.
Placed(b, s) ==
  /\ Start(s) <= b.arrival /\ b.exit <= End(s)
  /\ s < first + ScheduleSize
  /\ first <= s => entry[b.from][s][b.ch] = b.to
  /\ first < s => Booked(b, b.from, s) /\ Booked(b, b.to, s)

PlaceInv == \A b \in Known : b.ok => \E s \in Nat : Placed(b, s)

PathInv == IInv /\ PathTypeOK /\ ClockInv /\ KnownInv /\ UnderWay /\ PlaceInv

\* In the slot that is running a place stays in the lists, or the copy that has lost
\* it is remembered, as long as a burst announced now may still come before it ends.
KeptInv ==
  \A b \in Known :
    b.ok /\ Start(first) <= b.arrival /\ b.exit <= End(first) /\ now + Lead <= b.exit =>
      \A d \in {b.from, b.to} : Booked(b, d, first) \/ <<d, Place(b)>> \in forgotten

Passes(b, p) ==
  /\ p.id = b.id /\ p.ch = b.ch /\ p.src = b.from
  /\ b.ok => p.dst = b.to
  /\ b.head <= now /\ now <= p.finish
  /\ p.finish = b.head + Propagation + Length[b.id]

Crosses(b, c) ==
  /\ c.id = b.id /\ c.ch = b.ch /\ now <= c.finish
  /\ c.up => c.dev = b.from /\ c.finish = b.head + Length[b.id]
  /\ ~c.up => /\ b.ok => c.dev = b.to
              /\ b.head + Propagation <= now
              /\ c.finish = b.head + Propagation + Length[b.id] + FibreDelay[c.dev]

\* Also a burst without a place, which follows whatever entry it finds.
WayInv ==
  /\ \A p \in passing : \E b \in bursts : Passes(b, p)
  /\ \A c \in fibres : \E b \in bursts : Crosses(b, c)

OrderlyInv == BookedApart /\ KeptInv /\ WayInv

-----------------------------------------------------------------------------
LEMMA PathConstants ==
  /\ R \in Nat /\ R > 0 /\ D \in Nat /\ D > 0 /\ ScheduleSize \in Nat /\ ScheduleSize > 0
  /\ \A id \in Id : Length[id] \in Nat /\ Length[id] > 0 /\ Length[id] \in Durations
  /\ Lead \in Nat /\ Propagation \in Nat
  /\ \A d \in Dev : FibreDelay[d] \in Nat
<1>1. \A id \in Id : Length[id] \in Durations
  BY PathAssumption
<1>2. \A t \in Durations : t \in Nat
  BY SwitchAssumption
<1>3. \A id \in Id : Length[id] > 0
  BY PathAssumption
<1>4. \A id \in Id : Length[id] \in Nat
  BY <1>1, <1>2
<1>5. /\ R \in Nat /\ R > 0 /\ D \in Nat /\ D > 0 /\ ScheduleSize \in Nat /\ ScheduleSize > 0
      /\ Propagation \in Nat
  BY SwitchAssumption
<1>6. Lead \in Nat /\ \A d \in Dev : FibreDelay[d] \in Nat
  BY PathAssumption
<1> QED
  BY <1>1, <1>3, <1>4, <1>5, <1>6

LEMMA Starts ==
  ASSUME NEW k \in Nat
  PROVE  /\ Start(k) \in Nat /\ End(k) \in Nat
         /\ End(k) = Start(k) + D /\ Start(k + 1) = End(k) + R
<1> DEFINE P == R + D
<1>1. P \in Nat /\ k * P \in Nat /\ (k + 1) * P = k * P + P
  BY PathConstants
<1> QED
  BY <1>1, PathConstants DEF Start, End

\* Slots follow each other, with a reconfiguration between them.
LEMMA SlotOrder ==
  ASSUME NEW j \in Nat, NEW k \in Nat, j < k
  PROVE  End(j) + R <= Start(k)
<1> DEFINE P == R + D
           m == k - (j + 1)
<1>1. P \in Nat /\ m \in Nat /\ k = (j + 1) + m
  BY PathConstants
<1>2. m * P \in Nat /\ (j + 1) * P \in Nat
  BY <1>1
<1>3. k * P = (j + 1) * P + m * P
  <2> HIDE DEF P, m
  <2> QED
    BY <1>1
<1>4. Start(j + 1) <= Start(k)
  BY <1>1, <1>2, <1>3, PathConstants DEF Start
<1> QED
  BY <1>4, Starts, PathConstants

\* What lies in two slots does not overlap.
LEMMA SlotsApart ==
  ASSUME NEW j \in Nat, NEW k \in Nat, j # k, NEW b \in Burst, NEW c \in Burst,
         Start(j) <= b.arrival, b.exit <= End(j), Start(k) <= c.arrival, c.exit <= End(k)
  PROVE  Disjoint(b, c)
<1>1. CASE j < k
  BY <1>1, SlotOrder, Starts, PathConstants DEF Disjoint, Burst
<1>2. CASE k < j
  BY <1>2, SlotOrder, Starts, PathConstants DEF Disjoint, Burst
<1> QED
  BY <1>1, <1>2

\* The slot the clock is in is the first of the tables.
LEMMA SlotIsFirst ==
  ASSUME TypeOK, ClockInv, ~reconfiguring, NEW s \in Nat, Start(s) <= now, now < End(s)
  PROVE  s = first
<1>1. first \in Nat /\ now \in Nat
  BY DEF TypeOK
<1>2. Start(first) <= now /\ now <= End(first)
  BY DEF ClockInv
<1>3. CASE s < first
  BY <1>1, <1>2, <1>3, SlotOrder, Starts, PathConstants
<1>4. CASE first < s
  BY <1>1, <1>2, <1>4, SlotOrder, Starts, PathConstants
<1> QED
  BY <1>1, <1>3, <1>4

LEMMA PathTypes ==
  ASSUME PathInv
  PROVE  /\ TypeOK /\ now \in Nat /\ first \in Nat /\ first \in Slots
         /\ pending \subseteq Burst /\ bursts \subseteq Burst /\ Known \subseteq Burst
         /\ passing \subseteq Pass /\ fibres \subseteq Crossing
         /\ next_transmit \in [Dev -> Nat]
BY FirstIsASlot DEF PathInv, PathTypeOK, TypeOK, Known

LEMMA InitPathInv == PathInit => PathInv
<1> SUFFICES ASSUME PathInit PROVE PathInv
  OBVIOUS
<1>1. IInv
  BY InitIInv DEF PathInit
<1>2. Start(0) \in Nat /\ Start(0) = R
  BY Starts, PathConstants DEF Start
<1>3. ClockInv
  BY <1>2, PathConstants DEF PathInit, Init, ClockInv
<1>4. PathTypeOK
  BY <1>1, <1>2 DEF PathInit, PathTypeOK, IInv
<1>5. KnownInv /\ PlaceInv /\ UnderWay
  BY DEF PathInit, Init, KnownInv, PlaceInv, UnderWay, Known
<1> QED
  BY <1>1, <1>3, <1>4, <1>5 DEF PathInv

-----------------------------------------------------------------------------
(***************************************************************************)
(* What each step keeps, for any fibres.                                   *)
(***************************************************************************)
\* No step but Announce makes a burst known.
LEMMA KnownKept ==
  ASSUME KnownInv, Known' \subseteq Known, next_transmit' = next_transmit
  PROVE  KnownInv'
BY DEF KnownInv

LEMMA PlaceKept ==
  ASSUME PlaceInv, Known' \subseteq Known, UNCHANGED tables
  PROVE  PlaceInv'
BY DEF PlaceInv, Placed, Booked, Place, Start, End, tables

LEMMA ClockKept ==
  ASSUME ClockInv, UNCHANGED <<now, reconfiguring, first>>
  PROVE  ClockInv'
BY DEF ClockInv, Start, End

\* A fibre takes a burst up, and marks nothing that is not in a fibre.
LEMMA EnterTypes ==
  ASSUME PathInv, NEW b \in bursts', NEW d \in Dev, NEW up \in BOOLEAN, NEW id, id = b.id,
         NEW ch \in Channel, bursts' \subseteq Burst, bursts \subseteq bursts',
         Enter(d, id, ch, up)
  PROVE  /\ fibres' \subseteq Crossing /\ marked' \subseteq {x.id : x \in bursts'}
         /\ \A c \in fibres' : \E x \in bursts' : x.id = c.id
<1> DEFINE new == [id |-> id, dev |-> d, ch |-> ch, up |-> up,
                   finish |-> now + Length[id] + FibreDelay[d]]
<1>1. fibres' = fibres \cup {new}
  BY DEF Enter
<1>2. new \in Crossing /\ new.id = b.id
  <2>1. now + Length[id] + FibreDelay[d] \in Nat /\ id \in Id
    BY PathTypes, PathConstants DEF Burst
  <2> QED
    BY <2>1 DEF Crossing
<1> HIDE DEF new
<1>3. \A c \in fibres' : \E x \in bursts' : x.id = c.id
  BY <1>1, <1>2 DEF PathInv, UnderWay
<1>4. ASSUME NEW m \in marked' PROVE m \in {x.id : x \in bursts'}
  <2>1. m \in marked \/ m = id \/ \E c \in fibres : m = c.id
    BY <1>4 DEF Enter
  <2>2. CASE m \in marked
    BY <2>2 DEF PathInv, PathTypeOK
  <2>3. CASE m = id
    BY <2>3
  <2>4. CASE \E c \in fibres : m = c.id
    <3>1. PICK c \in fibres : m = c.id
      BY <2>4
    <3>2. PICK x \in bursts' : x.id = c.id
      BY <1>1, <1>3, <3>1
    <3> QED
      BY <3>1, <3>2
  <2> QED
    BY <2>1, <2>2, <2>3, <2>4
<1> QED
  BY <1>1, <1>2, <1>3, <1>4, PathTypes

LEMMA LaunchPathInv ==
  ASSUME PathInv, NEW b \in pending, Launch(b)
  PROVE  PathInv'
<1>1. /\ bursts' = bursts \cup {b} /\ Enter(b.from, b.id, b.ch, TRUE)
      /\ UNCHANGED vars /\ next_transmit' = next_transmit
  BY DEF Launch, switchVars
<1>2. b \in Burst /\ b.from \in Dev /\ b.ch \in Channel
  BY PathTypes DEF Burst
<1>3. IInv'
  BY <1>1, ClockIInv DEF PathInv
<1>4. Known' = Known
  BY <1>1 DEF Known, vars
<1>5. bursts' \subseteq Burst /\ b \in bursts' /\ bursts \subseteq bursts'
  BY <1>1, <1>2, PathTypes
<1>6. /\ fibres' \subseteq Crossing /\ marked' \subseteq {x.id : x \in bursts'}
      /\ \A c \in fibres' : \E x \in bursts' : x.id = c.id
  BY <1>1, <1>2, <1>5, EnterTypes
<1>7. UnderWay'
  BY <1>1, <1>5, <1>6 DEF UnderWay, PathInv, vars
<1>8. PathTypeOK'
  BY <1>1, <1>3, <1>5, <1>6 DEF PathTypeOK, PathInv, IInv
<1>9. ClockInv' /\ KnownInv' /\ PlaceInv'
  <2>1. UNCHANGED <<now, reconfiguring, first>> /\ UNCHANGED tables /\ next_transmit' = next_transmit
    BY <1>1 DEF vars, tables
  <2> QED
    BY <1>4, <2>1, ClockKept, KnownKept, PlaceKept DEF PathInv
<1> QED
  BY <1>3, <1>7, <1>8, <1>9 DEF PathInv

LEMMA ArrivePathInv ==
  ASSUME PathInv, NEW b \in pending, Arrive(b)
  PROVE  PathInv'
<1>1. /\ b \in bursts /\ ReceiveBurst(b)
      /\ marked' = marked \cup {p.id : p \in dropped'}
      /\ UNCHANGED <<next_transmit, bursts, fibres>>
  BY DEF Arrive
<1>2. /\ pending' \subseteq pending
      /\ UNCHANGED <<now, reconfiguring, tables>>
      /\ \A p \in passing' : p \in passing \/ p.id = b.id
  BY <1>1 DEF ReceiveBurst
<1>3. IInv'
  BY <1>1, ReceiveDataIInv DEF ReceiveData, PathInv
<1>4. Known' \subseteq Known
  BY <1>1, <1>2 DEF Known
<1>5. UnderWay'
  BY <1>1, <1>2 DEF UnderWay, PathInv
<1>6. marked' \subseteq {x.id : x \in bursts'}
  <2>1. \A p \in dropped' : \E x \in bursts' : p.id = x.id
    BY <1>3, <1>5 DEF UnderWay, IInv, TypeOK
  <2> QED
    BY <1>1, <2>1 DEF PathInv, PathTypeOK
<1>7. PathTypeOK'
  BY <1>1, <1>3, <1>6 DEF PathTypeOK, PathInv, IInv
<1>8. ClockInv' /\ KnownInv' /\ PlaceInv'
  BY <1>1, <1>2, <1>4, ClockKept, KnownKept, PlaceKept DEF PathInv, tables
<1> QED
  BY <1>3, <1>5, <1>7, <1>8 DEF PathInv

LEMMA ForwardPathInv ==
  ASSUME PathInv, NEW p \in passing, Forward(p)
  PROVE  PathInv'
<1>1. /\ Enter(p.dst, p.id, p.ch, FALSE)
      /\ UNCHANGED <<vars, next_transmit, bursts>>
  BY DEF Forward, switchVars
<1>2. p \in Pass /\ p.dst \in Dev /\ p.ch \in Channel
  BY PathTypes DEF Pass
<1>3. IInv'
  BY <1>1, ClockIInv DEF PathInv
<1>4. Known' = Known
  BY <1>1 DEF Known, vars
<1>5. PICK b \in bursts' : b.id = p.id
  BY <1>1 DEF PathInv, UnderWay
<1>6. bursts' \subseteq Burst /\ bursts \subseteq bursts'
  BY <1>1, PathTypes
<1>7. /\ fibres' \subseteq Crossing /\ marked' \subseteq {x.id : x \in bursts'}
      /\ \A c \in fibres' : \E x \in bursts' : x.id = c.id
  <2> DEFINE id == p.id
             up == FALSE
  <2>1. id = b.id /\ up \in BOOLEAN /\ Enter(p.dst, id, p.ch, up)
    BY <1>1, <1>5
  <2> HIDE DEF id, up
  <2> QED
    BY <1>2, <1>6, <2>1, EnterTypes
<1>8. UnderWay'
  BY <1>1, <1>7 DEF UnderWay, PathInv, vars
<1>9. PathTypeOK'
  BY <1>1, <1>3, <1>6, <1>7 DEF PathTypeOK, PathInv, IInv
<1>10. ClockInv' /\ KnownInv' /\ PlaceInv'
  <2>1. UNCHANGED <<now, reconfiguring, first>> /\ UNCHANGED tables /\ next_transmit' = next_transmit
    BY <1>1 DEF vars, tables
  <2> QED
    BY <1>4, <2>1, ClockKept, KnownKept, PlaceKept DEF PathInv
<1> QED
  BY <1>3, <1>8, <1>9, <1>10 DEF PathInv

LEMMA LeavePathInv ==
  ASSUME PathInv, NEW c \in fibres, Leave(c)
  PROVE  PathInv'
<1> DEFINE rest == fibres \ {c}
           over == \A x \in rest \cup passing : x.id # c.id
<1>1. /\ fibres' = rest
      /\ bursts' = IF over THEN {b \in bursts : b.id # c.id} ELSE bursts
      /\ marked' = IF over THEN marked \ {c.id} ELSE marked
      /\ UNCHANGED <<vars, next_transmit>>
  BY DEF Leave, switchVars
<1>2. IInv'
  BY <1>1, ClockIInv DEF PathInv
<1>3. Known' \subseteq Known /\ bursts' \subseteq bursts
  BY <1>1 DEF Known, vars
<1>4. UnderWay' /\ marked' \subseteq {b.id : b \in bursts'}
  <2>1. CASE over
    <3>1. passing' = passing /\ fibres' \subseteq fibres
      BY <1>1 DEF vars
    <3>2. \A b \in bursts : b.id # c.id => b \in bursts'
      BY <1>1, <2>1
    <3>3. \A x \in passing' \cup fibres' : x.id # c.id
      BY <1>1, <2>1, <3>1
    <3>4. UnderWay'
      BY <3>1, <3>2, <3>3 DEF UnderWay, PathInv
    <3>5. marked' = marked \ {c.id}
      BY <1>1, <2>1
    <3>6. ASSUME NEW m \in marked' PROVE m \in {b.id : b \in bursts'}
      <4>1. PICK b \in bursts : m = b.id
        BY <3>5, <3>6 DEF PathInv, PathTypeOK
      <4> QED
        BY <3>2, <3>5, <3>6, <4>1
    <3> QED
      BY <3>4, <3>6
  <2>2. CASE ~over
    BY <1>1, <2>2 DEF UnderWay, PathInv, PathTypeOK, vars
  <2> QED
    BY <2>1, <2>2
<1>5. PathTypeOK'
  BY <1>1, <1>2, <1>3, <1>4 DEF PathTypeOK, PathInv, IInv
<1>6. ClockInv' /\ KnownInv' /\ PlaceInv'
  <2>1. UNCHANGED <<now, reconfiguring, first>> /\ UNCHANGED tables /\ next_transmit' = next_transmit
    BY <1>1 DEF vars, tables
  <2> QED
    BY <1>3, <2>1, ClockKept, KnownKept, PlaceKept DEF PathInv
<1> QED
  BY <1>2, <1>4, <1>5, <1>6 DEF PathInv

\* What ScheduleMessage writes into the tables.
Booking(s, from, to, ch, item) ==
  /\ \A d \in Dev, t \in Slots, k \in Channel :
       entry'[d][t][k] = IF d = from /\ t = s /\ k = ch THEN to ELSE entry[d][t][k]
  /\ \A d \in Dev, t \in Slots, k \in Channel :
       tx_list'[d][t][k] = IF d \in {from, to} /\ t = s /\ k = ch
                           THEN Append(tx_list[d][t][k], item) ELSE tx_list[d][t][k]

LEMMA ScheduleTables ==
  ASSUME IInv, NEW from \in Dev, NEW to \in Dev, NEW id \in Id, NEW ch \in Channel,
         NEW arrival, NEW duration, NEW head, NEW control_full,
         ScheduleMessage(from, to, id, ch, arrival, duration, head, control_full)
  PROVE  LET exit == arrival + duration
             slots == Schedulable(from, to, ch, arrival, exit)
             item == [id |-> id, arrival |-> arrival, exit |-> exit]
         IN \/ slots = {} /\ UNCHANGED <<entry, tx_list>>
            \/ \E s \in slots : Booking(s, from, to, ch, item)
<1> DEFINE exit == arrival + duration
           slots == Schedulable(from, to, ch, arrival, exit)
           item == [id |-> id, arrival |-> arrival, exit |-> exit]
           slot == CHOOSE s \in slots : TRUE
<1>1. CASE slots = {}
  BY <1>1 DEF ScheduleMessage
<1>2. CASE slots # {}
  <2>1. /\ from # to
        /\ entry' = [entry EXCEPT ![from][slot][ch] = to]
        /\ tx_list' = [tx_list EXCEPT ![from][slot][ch] = Append(@, item),
                                      ![to][slot][ch] = Append(@, item)]
    BY <1>2 DEF ScheduleMessage
  <2>2. slot \in slots /\ slot \in Slots
    BY <1>2 DEF Schedulable, SlotsFor
  <2> HIDE DEF slot, slots, item, exit
  <2>3. \A d \in Dev, t \in Slots, k \in Channel :
          entry'[d][t][k] = IF d = from /\ t = slot /\ k = ch THEN to ELSE entry[d][t][k]
    BY <2>1, <2>2 DEF IInv, TypeOK
  <2>4. \A d \in Dev, t \in Slots, k \in Channel :
          tx_list'[d][t][k] = IF d \in {from, to} /\ t = slot /\ k = ch
                              THEN Append(tx_list[d][t][k], item) ELSE tx_list[d][t][k]
    BY <2>1, <2>2 DEF IInv, GoodLists
  <2>5. Booking(slot, from, to, ch, item)
    BY <2>3, <2>4 DEF Booking
  <2> QED
    BY <2>2, <2>5 DEF slots, item, exit
<1> QED
  BY <1>1, <1>2

LEMMA BookingIsPlace ==
  ASSUME IInv, NEW b \in Burst, NEW s \in Slots, UNCHANGED first,
         Booking(s, b.from, b.to, b.ch, Place(b)),
         Start(s) <= b.arrival, b.exit <= End(s)
  PROVE  Placed(b, s)' /\ Booked(b, b.from, s)' /\ Booked(b, b.to, s)'
<1> DEFINE item == Place(b)
<1>1. b.from \in Dev /\ b.to \in Dev /\ b.ch \in Channel
  BY DEF Burst
<1>2. entry'[b.from][s][b.ch] = b.to
  BY <1>1 DEF Booking
<1>3. ASSUME NEW d \in {b.from, b.to} PROVE Booked(b, d, s)'
  <2> DEFINE list == tx_list[d][s][b.ch]
  <2>1. tx_list'[d][s][b.ch] = Append(list, item)
    BY <1>1, <1>3 DEF Booking
  <2>2. list \in Seq(Reservation) /\ Len(list) \in Nat
    BY <1>1, <1>3, LenProperties DEF IInv, GoodLists
  <2>3. item \in Reservation
    BY DEF Burst, Reservation, Place
  <2> HIDE DEF list, item
  <2>4. Len(Append(list, item)) = Len(list) + 1 /\ Append(list, item)[Len(list) + 1] = item
    BY <2>2, <2>3, AppendProperties
  <2>5. Len(list) + 1 \in 1..Len(tx_list'[d][s][b.ch])
    BY <2>1, <2>2, <2>4
  <2>6. tx_list'[d][s][b.ch][Len(list) + 1] = item
    BY <2>1, <2>4
  <2> QED
    BY <2>5, <2>6 DEF Booked, item
<1>4. s < first + ScheduleSize
  BY FirstIsASlot, PathConstants DEF Slots, IInv
<1> QED
  BY <1>2, <1>3, <1>4 DEF Placed, Start, End

\* A booking leaves the reservations there are.
LEMMA BookedStays ==
  ASSUME IInv, NEW b \in Burst, NEW s \in Slots, NEW d \in Dev, Booked(b, d, s),
         NEW t, NEW from, NEW to, NEW ch, NEW item \in Reservation,
         Booking(t, from, to, ch, item)
  PROVE  Booked(b, d, s)'
<1> DEFINE list == tx_list[d][s][b.ch]
<1>1. b.ch \in Channel
  BY DEF Burst
<1>2. PICK i \in 1..Len(list) : list[i] = Place(b)
  BY DEF Booked
<1>3. list \in Seq(Reservation) /\ Len(list) \in Nat
  BY <1>1, LenProperties DEF IInv, GoodLists
<1>4. tx_list'[d][s][b.ch] = list \/ tx_list'[d][s][b.ch] = Append(list, item)
  <2>1. tx_list'[d][s][b.ch] = IF d \in {from, to} /\ s = t /\ b.ch = ch
                              THEN Append(list, item) ELSE list
    BY <1>1 DEF Booking
  <2> QED
    BY <2>1
<1> HIDE DEF list
<1>5. /\ Len(Append(list, item)) = Len(list) + 1
      /\ \A j \in 1..Len(list) : Append(list, item)[j] = list[j]
  BY <1>3, AppendProperties
<1>6. i \in 1..Len(tx_list'[d][s][b.ch]) /\ tx_list'[d][s][b.ch][i] = list[i]
  <2>1. CASE tx_list'[d][s][b.ch] = list
    BY <1>2, <2>1
  <2>2. CASE tx_list'[d][s][b.ch] = Append(list, item)
    <3>1. i \in 1..(Len(list) + 1)
      BY <1>2, <1>3
    <3> QED
      BY <1>2, <1>5, <2>2, <3>1
  <2> QED
    BY <1>4, <2>1, <2>2
<1> QED
  BY <1>2, <1>6 DEF Booked, Place

\* A booking leaves the places there are: of an entry in use it only takes the same.
LEMMA PlaceStays ==
  ASSUME IInv, NEW b \in Burst, NEW s \in Nat, Placed(b, s), UNCHANGED first,
         NEW t, NEW from, NEW to, NEW ch, NEW item \in Reservation,
         entry[from][t][ch] \in {NoDev, to}, Booking(t, from, to, ch, item)
  PROVE  Placed(b, s)'
<1>1. b.from \in Dev /\ b.to \in Dev /\ b.ch \in Channel
  BY DEF Burst
<1>2. s < first + ScheduleSize
  BY DEF Placed
<1>3. first <= s => s \in Slots
  BY <1>2, FirstIsASlot, PathConstants DEF Slots, IInv
<1>4. first <= s => entry'[b.from][s][b.ch] = b.to
  BY <1>1, <1>3, SwitchAssumption DEF Placed, Booking
<1>5. ASSUME first < s, NEW d \in {b.from, b.to} PROVE Booked(b, d, s)'
  <2>1. s \in Slots /\ d \in Dev /\ Booked(b, d, s)
    BY <1>1, <1>3, <1>5, FirstIsASlot DEF IInv, Placed
  <2> QED
    BY <2>1, BookedStays
<1>6. Start(s) <= b.arrival /\ b.exit <= End(s)
  BY DEF Placed
<1>7. first < s => Booked(b, b.from, s)' /\ Booked(b, b.to, s)'
  BY <1>5
<1> QED
  BY <1>2, <1>4, <1>6, <1>7 DEF Placed, Start, End

LEMMA AnnouncePathInv ==
  ASSUME PathInv, NEW from \in Dev, NEW to \in Dev, NEW id \in Id, NEW ch \in Channel,
         NEW send \in 0..MaxTime, NEW control_full \in BOOLEAN,
         Announce(from, to, id, ch, send, control_full)
  PROVE  PathInv'
<1> DEFINE head == send + FibreDelay[from]
           arrival == send + FibreDelay[to]
           exit == arrival + Length[id]
           slots == Schedulable(from, to, ch, arrival, exit)
           item == [id |-> id, arrival |-> arrival, exit |-> exit]
           ok == slots # {} /\ ~control_full
           burst == [id |-> id, from |-> from, to |-> to, ch |-> ch,
                     arrival |-> arrival, exit |-> exit, head |-> head, ok |-> ok]
<1> PICK new : new = burst
  OBVIOUS
<1>1. /\ send \in Nat /\ head \in Nat /\ arrival \in Nat /\ exit \in Nat /\ ok \in BOOLEAN
      /\ FibreDelay[from] \in Nat /\ FibreDelay[to] \in Nat
      /\ Length[id] \in Nat /\ Length[id] \in Durations
  BY PathConstants, SwitchAssumption
<1>2. ScheduleMessage(from, to, id, ch, arrival, Length[id], head, control_full)
  BY DEF Announce, Announced
<1>3. /\ send >= next_transmit[from]
      /\ \A b \in bursts : b.id # id
      /\ next_transmit' = [next_transmit EXCEPT ![from] = send + Length[id] + 1]
      /\ UNCHANGED <<bursts, fibres, marked>>
  BY DEF Announce, NextTransmit
<1>4. IInv'
  BY <1>1, <1>2, PathConstants, ScheduleMessageIInv DEF PathInv
<1>5. /\ from # to
      /\ pending' = {b \in pending : b.id # id} \cup {new}
      /\ UNCHANGED <<now, reconfiguring, first, passing, dropped>>
  BY <1>2 DEF ScheduleMessage
<1>6. Known' \subseteq Known \cup {new} /\ \A b \in Known' : b = new \/ (b \in Known /\ b.id # id)
  BY <1>3, <1>5 DEF Known
<1>7. next_transmit' \in [Dev -> Nat]
  BY <1>1, <1>3, PathTypes, PathConstants
<1>8. PathTypeOK' /\ UnderWay' /\ ClockInv'
  <2>1. UnderWay'
    BY <1>3, <1>5 DEF UnderWay, PathInv
  <2>2. PathTypeOK'
    BY <1>3, <1>4, <1>7 DEF PathTypeOK, PathInv, IInv
  <2> QED
    BY <1>5, <2>1, <2>2, ClockKept DEF PathInv
<1>9. /\ new \in Burst
      /\ new.id = id /\ new.from = from /\ new.to = to /\ new.ch = ch
      /\ new.arrival = arrival /\ new.exit = exit /\ new.head = head /\ new.ok = ok
  <2> HIDE DEF head, arrival, exit, ok
  <2> QED
    BY <1>1 DEF Burst
<1> HIDE DEF burst, ok
<1>10. KnownInv'
  <2>1. ASSUME NEW b \in Known
        PROVE  /\ b \in Burst /\ FibreDelay[b.from] \in Nat /\ Length[b.id] \in Nat
               /\ b.head + Length[b.id] < next_transmit[b.from] + FibreDelay[b.from]
               /\ next_transmit[b.from] <= next_transmit'[b.from]
    <3>1. b \in Burst /\ b.from \in Dev /\ b.id \in Id
      BY PathTypes DEF Burst
    <3> QED
      BY <1>1, <1>3, <3>1, PathTypes, PathConstants DEF PathInv, KnownInv
  <2>2. ASSUME NEW b \in Known, b.from = from PROVE b.head + Length[b.id] < new.head
    BY <1>1, <1>3, <1>9, <2>1, <2>2, PathTypes, PathConstants DEF Burst
  <2>3. /\ new.exit = new.arrival + Length[new.id] /\ new.from # new.to
        /\ new.head + FibreDelay[new.to] = new.arrival + FibreDelay[new.from]
        /\ new.head + Length[new.id] < next_transmit'[new.from] + FibreDelay[new.from]
    BY <1>1, <1>3, <1>5, <1>9, PathTypes, PathConstants
  <2>4. ASSUME NEW b \in Known'
        PROVE  /\ b.exit = b.arrival + Length[b.id] /\ b.from # b.to
               /\ b.head + FibreDelay[b.to] = b.arrival + FibreDelay[b.from]
               /\ b.head + Length[b.id] < next_transmit'[b.from] + FibreDelay[b.from]
    <3>1. CASE b = new
      BY <2>3, <3>1
    <3>2. CASE b \in Known
      <4>1. b.from \in Dev /\ b.head \in Nat
        BY <2>1, <3>2 DEF Burst
      <4> QED
        BY <1>7, <2>1, <3>2, <4>1, PathTypes, PathConstants DEF PathInv, KnownInv
    <3> QED
      BY <1>6, <3>1, <3>2
  <2>5. \A b, c \in Known' : b.id = c.id => b = c
    BY <1>6, <1>9 DEF PathInv, KnownInv
  <2>6. \A b, c \in Known' :
          b # c /\ b.from = c.from =>
            b.head + Length[b.id] < c.head \/ c.head + Length[c.id] < b.head
    BY <1>6, <1>9, <2>2 DEF PathInv, KnownInv
  <2> QED
    BY <2>4, <2>5, <2>6 DEF KnownInv
<1>11. (slots = {} /\ UNCHANGED <<entry, tx_list>>) \/ \E s \in slots : Booking(s, from, to, ch, item)
  BY <1>2, ScheduleTables DEF PathInv
<1>12. item \in Reservation
  BY <1>1 DEF Reservation
<1>13. PlaceInv'
  <2>1. CASE slots = {} /\ UNCHANGED <<entry, tx_list>>
    <3>1. new.ok = FALSE
      BY <1>9, <2>1 DEF ok
    <3>2. \A b \in Known' : b.ok => b \in Known
      BY <1>6, <3>1
    <3> QED
      BY <1>5, <2>1, <3>2 DEF PlaceInv, Placed, Booked, Place, Start, End, PathInv
  <2>2. ASSUME NEW t \in slots, Booking(t, from, to, ch, item) PROVE PlaceInv'
    <3>1. /\ t \in Slots /\ Start(t) <= arrival /\ exit <= End(t)
          /\ entry[from][t][ch] \in {NoDev, to}
      BY DEF Schedulable, SlotsFor
    <3> HIDE DEF item, slots
    <3>2. Placed(new, t)' /\ t \in Nat
      <4>1. item = Place(new)
        BY <1>9 DEF item, Place
      <4>2. Booking(t, new.from, new.to, new.ch, Place(new))
        BY <1>9, <2>2, <4>1
      <4>3. t \in Nat
        BY <3>1, FirstIsASlot, PathTypes
      <4>4. Start(t) <= new.arrival /\ new.exit <= End(t) /\ new \in Burst
        BY <1>9, <3>1
      <4>5. IInv /\ UNCHANGED first
        BY <1>5 DEF PathInv
      <4>6. Placed(new, t)'
        BY <3>1, <4>2, <4>4, <4>5, BookingIsPlace
      <4> QED
        BY <4>3, <4>6
    <3>3. ASSUME NEW b \in Known, b.ok PROVE \E s \in Nat : Placed(b, s)'
      <4>1. PICK s \in Nat : Placed(b, s)
        BY <3>3 DEF PathInv, PlaceInv
      <4>2. b \in Burst
        BY PathTypes
      <4>3. IInv /\ UNCHANGED first
        BY <1>5 DEF PathInv
      <4>4. Placed(b, s)'
        BY <1>12, <2>2, <3>1, <4>1, <4>2, <4>3, PlaceStays
      <4> QED
        BY <4>4
    <3> QED
      BY <1>6, <3>2, <3>3 DEF PlaceInv
  <2> QED
    BY <1>11, <2>1, <2>2
<1> QED
  BY <1>4, <1>8, <1>10, <1>13 DEF PathInv

LEMMA PassedThroughPathInv ==
  ASSUME PathInv, NEW p \in passing, PassedThrough(p)
  PROVE  PathInv'
<1>1. /\ passing' = passing \ {p}
      /\ tx_list' = [tx_list EXCEPT ![p.dst][first][p.ch] =
                       WithoutId(tx_list[p.src][first][p.ch], p.id)]
      /\ UNCHANGED <<now, reconfiguring, first, entry, pending>>
      /\ UNCHANGED <<next_transmit, bursts, fibres, marked>>
  BY DEF PassedThrough, Finish
<1>2. IInv'
  BY PassThroughFinishIInv DEF PassedThrough, PassThroughFinish, PathInv
<1>3. Known' = Known
  BY <1>1 DEF Known
<1>4. PathTypeOK' /\ UnderWay' /\ ClockInv' /\ KnownInv'
  <2>1. UnderWay'
    BY <1>1 DEF UnderWay, PathInv
  <2>2. PathTypeOK'
    BY <1>1, <1>2 DEF PathTypeOK, PathInv, IInv
  <2> QED
    BY <1>1, <1>3, <2>1, <2>2, ClockKept, KnownKept DEF PathInv
<1>5. ASSUME NEW b \in Known, NEW s \in Nat, Placed(b, s)
      PROVE  Placed(b, s)'
  <2>1. b.from \in Dev /\ b.to \in Dev /\ b.ch \in Channel
    BY PathTypes DEF Burst
  <2>2. ASSUME first < s, NEW d \in Dev PROVE tx_list'[d][s][b.ch] = tx_list[d][s][b.ch]
    <3>1. s \in Slots /\ s # first /\ first \in Slots
      BY <1>5, <2>2, PathTypes, PathConstants DEF Placed, Slots
    <3>2. p.dst \in Dev /\ p.ch \in Channel
      BY PathTypes DEF Pass
    <3> QED
      BY <1>1, <2>1, <3>1, <3>2 DEF PathInv, IInv, TypeOK
  <2> QED
    BY <1>1, <1>5, <2>1, <2>2 DEF Placed, Booked, Place, Start, End
<1>6. PlaceInv'
  BY <1>3, <1>5 DEF PlaceInv, PathInv
<1> QED
  BY <1>2, <1>4, <1>6 DEF PathInv

LEMMA ShiftedAt ==
  ASSUME NEW table, NEW empty, NEW d \in Dev, NEW s \in Slots, first < s, TypeOK
  PROVE  Shifted(table, empty)[d][s] = table[d][s]
BY PathConstants DEF Shifted, Slots, TypeOK

LEMMA ReconfigurePathInv ==
  ASSUME PathInv, Reconfigure
  PROVE  PathInv'
<1>1. UNCHANGED <<now, pending, passing, next_transmit, bursts, fibres, marked>>
  BY DEF Reconfigure, BeginReconfigure, CompleteReconfigure
<1>2. IInv'
  BY BeginReconfigureIInv, ClockIInv DEF Reconfigure, PathInv
<1>3. PathTypeOK' /\ UnderWay' /\ KnownInv' /\ Known' = Known
  <2>1. UnderWay' /\ Known' = Known
    BY <1>1 DEF UnderWay, PathInv, Known
  <2>2. PathTypeOK'
    BY <1>1, <1>2 DEF PathTypeOK, PathInv, IInv
  <2> QED
    BY <1>1, <2>1, <2>2, KnownKept DEF PathInv
<1>4. CASE BeginReconfigure
  <2>1. /\ now = End(first) /\ reconfiguring' = TRUE /\ first' = first + 1
        /\ entry' = Shifted(entry, NoDev) /\ tx_list' = Shifted(tx_list, <<>>)
    BY <1>4 DEF BeginReconfigure
  <2>2. Start(first)' = End(first) + R
    BY <2>1, PathTypes, Starts DEF Start
  <2>3. ClockInv'
    <3>1. first + 1 \in Nat /\ End(first) \in Nat /\ R \in Nat
      BY PathTypes, Starts, PathConstants
    <3> QED
      BY <1>1, <2>1, <2>2, <3>1 DEF ClockInv
  <2>4. ASSUME NEW b \in Known, NEW s \in Nat, Placed(b, s)
        PROVE  Placed(b, s)'
    <3>1. b.from \in Dev /\ b.to \in Dev
      BY PathTypes DEF Burst
    <3>2. ASSUME first < s, NEW d \in Dev
          PROVE  entry'[d][s] = entry[d][s] /\ tx_list'[d][s] = tx_list[d][s]
      <4>1. s \in Slots
        BY <2>4, <3>2, PathTypes, PathConstants DEF Placed, Slots
      <4> QED
        BY <2>1, <3>2, <4>1, PathTypes, ShiftedAt
    <3>3. first \in Nat /\ ScheduleSize \in Nat
      BY PathTypes, PathConstants
    <3>4. s < first' + ScheduleSize
      BY <2>1, <2>4, <3>3 DEF Placed
    <3>5. first' <= s => entry'[b.from][s][b.ch] = b.to
      BY <2>1, <2>4, <3>1, <3>2, <3>3 DEF Placed
    <3>6. first' < s => Booked(b, b.from, s)' /\ Booked(b, b.to, s)'
      <4>1. first' < s => first < s
        BY <2>1, <3>3
      <4>2. first' < s => Booked(b, b.from, s) /\ Booked(b, b.to, s)
        BY <2>4, <4>1 DEF Placed
      <4>3. first' < s => tx_list'[b.from][s] = tx_list[b.from][s]
                         /\ tx_list'[b.to][s] = tx_list[b.to][s]
        BY <3>1, <3>2, <4>1
      <4> QED
        BY <4>2, <4>3 DEF Booked, Place
    <3> QED
      BY <2>4, <3>4, <3>5, <3>6 DEF Placed, Start, End
  <2>5. PlaceInv'
    BY <1>3, <2>4 DEF PlaceInv, PathInv
  <2> QED
    BY <1>2, <1>3, <2>3, <2>5 DEF PathInv
<1>5. CASE CompleteReconfigure
  <2>1. now = Start(first) /\ reconfiguring' = FALSE /\ UNCHANGED <<first, entry, tx_list>>
    BY <1>5 DEF CompleteReconfigure, tables
  <2>2. Start(first)' = Start(first) /\ End(first)' = End(first)
    BY <2>1 DEF Start, End
  <2>3. ClockInv'
    <3>1. Start(first) \in Nat /\ End(first) = Start(first) + D /\ D \in Nat
      BY PathTypes, Starts, PathConstants
    <3> QED
      BY <1>1, <2>1, <2>2, <3>1 DEF ClockInv
  <2>4. PlaceInv'
    BY <1>3, <2>1, PlaceKept DEF PathInv, tables
  <2> QED
    BY <1>2, <1>3, <2>3, <2>4 DEF PathInv
<1> QED
  BY <1>4, <1>5 DEF Reconfigure

LEMMA PathTickPathInv ==
  ASSUME PathInv, PathTick
  PROVE  PathInv'
<1>1. /\ Tick /\ UNCHANGED <<next_transmit, bursts, fibres, marked>>
      /\ now' = now + 1 /\ pending' \subseteq pending
      /\ UNCHANGED <<reconfiguring, first, passing>> /\ UNCHANGED tables
      /\ ~(now = Start(first) /\ reconfiguring) /\ ~(now = End(first) /\ ~reconfiguring)
  BY DEF PathTick, Tick, tables
<1>2. IInv'
  BY <1>1, ClockIInv DEF PathInv
<1>3. Known' \subseteq Known
  BY <1>1 DEF Known
<1>4. ClockInv'
  <2>1. Start(first)' = Start(first) /\ End(first)' = End(first)
    BY <1>1 DEF Start, End
  <2>2. now \in Nat /\ Start(first) \in Nat /\ End(first) \in Nat /\ R \in Nat
    BY PathTypes, Starts, PathConstants
  <2> QED
    BY <1>1, <2>1, <2>2 DEF ClockInv, PathInv
<1>5. UnderWay'
  BY <1>1 DEF UnderWay, PathInv
<1>6. PathTypeOK'
  BY <1>1, <1>2 DEF PathTypeOK, PathInv, IInv
<1> QED
  BY <1>1, <1>2, <1>3, <1>4, <1>5, <1>6, KnownKept, PlaceKept DEF PathInv

LEMMA StutterPathInv ==
  ASSUME PathInv, UNCHANGED pathVars
  PROVE  PathInv'
<1>1. /\ UNCHANGED vars /\ UNCHANGED <<next_transmit, bursts, fibres, marked>>
      /\ UNCHANGED <<now, reconfiguring, first, pending, passing>> /\ UNCHANGED tables
  BY DEF pathVars, switchVars, vars, tables
<1>2. IInv'
  BY <1>1, ClockIInv DEF PathInv
<1>3. Known' = Known
  BY <1>1 DEF Known
<1>4. UnderWay'
  BY <1>1 DEF UnderWay, PathInv
<1>5. PathTypeOK'
  BY <1>1, <1>2 DEF PathTypeOK, PathInv, IInv
<1> QED
  BY <1>1, <1>2, <1>3, <1>4, <1>5, ClockKept, KnownKept, PlaceKept DEF PathInv

\* What is known of the bursts holds through every step, for any fibres.
THEOREM PathInvariance == PathSpec => []PathInv
<1>1. PathInv /\ [PathNext]_pathVars => PathInv'
  <2> SUFFICES ASSUME PathInv, [PathNext]_pathVars PROVE PathInv'
    OBVIOUS
  <2>1. ASSUME NEW from \in Dev, NEW to \in Dev, NEW id \in Id, NEW ch \in Channel,
               NEW send \in 0..MaxTime, NEW control_full \in BOOLEAN,
               Announce(from, to, id, ch, send, control_full)
        PROVE  PathInv'
    BY <2>1, AnnouncePathInv
  <2>2. ASSUME NEW b \in pending, Launch(b) \/ Arrive(b) PROVE PathInv'
    BY <2>2, LaunchPathInv, ArrivePathInv
  <2>3. ASSUME NEW p \in passing, Forward(p) \/ PassedThrough(p) PROVE PathInv'
    BY <2>3, ForwardPathInv, PassedThroughPathInv
  <2>4. ASSUME NEW c \in fibres, Leave(c) PROVE PathInv'
    BY <2>4, LeavePathInv
  <2>5. CASE Reconfigure \/ PathTick \/ UNCHANGED pathVars
    BY <2>5, ReconfigurePathInv, PathTickPathInv, StutterPathInv
  <2> QED
    BY <2>1, <2>2, <2>3, <2>4, <2>5 DEF PathNext
<1> QED
  BY <1>1, InitPathInv, PTL DEF PathSpec

\* Every burst marked is under way, and what crosses a fibre goes the way of the
\* tables (PassThrough and PassThroughFinished of device and channel).
THEOREM PathTypeCorrect == PathSpec => []PathTypeOK
BY PathInvariance, PTL DEF PathInv

LEMMA GoodListsHold ==
  ASSUME IInv
  PROVE  WithinSlot
<1> SUFFICES ASSUME NEW d \in Dev, NEW s \in Slots, NEW ch \in Channel
             PROVE  \A i \in DOMAIN tx_list[d][s][ch] :
                      /\ Start(s) <= tx_list[d][s][ch][i].arrival
                      /\ tx_list[d][s][ch][i].exit <= End(s)
  BY DEF WithinSlot
<1>1. GoodList(tx_list[d][s][ch], s)
  BY DEF IInv, GoodLists
<1>2. DOMAIN tx_list[d][s][ch] = 1..Len(tx_list[d][s][ch])
  BY <1>1, LenProperties DEF GoodList
<1> QED
  BY <1>1, <1>2 DEF GoodList

\* The announcements of the endpoints keep the places in their slots as well.
THEOREM PathWithinSlotHolds == PathSpec => []WithinSlot
<1>1. PathInv => WithinSlot
  BY GoodListsHold DEF PathInv
<1> QED
  BY <1>1, PathInvariance, PTL

\* A burst finds the entry of its place, once the slot has begun.
LEMMA EntryFound ==
  ASSUME PathInv, AlikeFibres, ~reconfiguring, NEW b \in Known, b.ok, b.head = now
  PROVE  /\ b.arrival = now /\ b.exit = now + Length[b.id]
         /\ entry[b.from][first][b.ch] = b.to /\ b.to # NoDev
<1>1. b \in Burst /\ b.from \in Dev /\ b.to \in Dev /\ b.id \in Id
  BY PathTypes DEF Burst
<1>2. b.arrival = now /\ b.exit = now + Length[b.id]
  BY <1>1, PathTypes, PathConstants DEF PathInv, KnownInv, AlikeFibres, Burst
<1>3. PICK s \in Nat : Placed(b, s)
  BY DEF PathInv, PlaceInv
<1>4. s = first
  <2>1. Length[b.id] \in Nat /\ Length[b.id] > 0 /\ now \in Nat /\ End(s) \in Nat
    BY <1>1, PathConstants, PathTypes, Starts
  <2>2. Start(s) <= now /\ now < End(s)
    BY <1>2, <1>3, <2>1 DEF Placed
  <2> QED
    BY <2>2, PathTypes, SlotIsFirst DEF PathInv
<1> QED
  BY <1>1, <1>2, <1>3, <1>4, PathTypes, SwitchAssumption DEF Placed

\* An accepted burst leaves by the device it was accepted for, if the arrival Send
\* works out is the one of the burst.
THEOREM RouteHonouredHolds ==
  ASSUME AlikeFibres
  PROVE  PathSpec => RouteHonoured
<1> DEFINE Honoured ==
      \A b \in pending \ pending' :
        b.ok /\ b.head >= now /\ now' = now /\ now > Start(first) =>
          (announced' # announced \/ \E p \in passing' : p.id = b.id /\ p.dst = b.to)
<1>1. PathInv /\ [PathNext]_pathVars => [Honoured]_vars
  <2> SUFFICES ASSUME PathInv, PathNext, NEW b \in pending \ pending',
                      b.ok, b.head >= now, now' = now, now > Start(first),
                      announced' = announced
               PROVE  \E p \in passing' : p.id = b.id /\ p.dst = b.to
    BY DEF pathVars, switchVars
  <2>1. CASE \E from, to \in Dev, id \in Id, ch \in Channel, send \in 0..MaxTime,
                control_full \in BOOLEAN : Announce(from, to, id, ch, send, control_full)
    <3>1. announced' = announced + 1
      BY <2>1 DEF Announce, ScheduleMessage
    <3> QED
      BY <3>1, PathTypes DEF TypeOK
  <2>2. ASSUME NEW c \in pending, Launch(c) PROVE FALSE
    BY <2>2 DEF Launch, switchVars, vars
  <2>3. ASSUME NEW c \in pending, Arrive(c)
        PROVE  \E p \in passing' : p.id = b.id /\ p.dst = b.to
    <3>1. c = b /\ b.head = now /\ ReceiveBurst(b)
      BY <2>3 DEF Arrive, ReceiveBurst
    <3>2. ~reconfiguring
      BY PathTypes, Starts DEF PathInv, ClockInv
    <3>3. entry[b.from][first][b.ch] = b.to /\ b.to # NoDev
      BY <3>1, <3>2, EntryFound DEF Known
    <3> DEFINE to == entry[b.from][first][b.ch]
               pass == [id |-> b.id, src |-> b.from, dst |-> to, ch |-> b.ch,
                        finish |-> now + Propagation + (b.exit - b.arrival)]
    <3>4. to # NoDev /\ ~reconfiguring => passing' = passing \cup {pass}
      BY <3>1 DEF ReceiveBurst
    <3>5. to = b.to /\ pass.id = b.id /\ pass.dst = to
      BY <3>3
    <3> HIDE DEF to, pass
    <3>6. pass \in passing'
      BY <3>2, <3>3, <3>4, <3>5
    <3> QED
      BY <3>5, <3>6
  <2>4. ASSUME NEW p \in passing, Forward(p) \/ PassedThrough(p) PROVE FALSE
    BY <2>4 DEF Forward, PassedThrough, Finish, switchVars, vars
  <2>5. ASSUME NEW c \in fibres, Leave(c) PROVE FALSE
    BY <2>5 DEF Leave, switchVars, vars
  <2>6. CASE Reconfigure
    BY <2>6 DEF Reconfigure, BeginReconfigure, CompleteReconfigure
  <2>7. CASE PathTick
    BY <2>7, PathTypes DEF PathTick, Tick
  <2> QED
    BY <2>1, <2>2, <2>3, <2>4, <2>5, <2>6, <2>7 DEF PathNext
<1>2. RouteHonoured <=> [][Honoured]_vars
  BY DEF RouteHonoured
<1> HIDE DEF Honoured
<1> QED
  BY <1>1, <1>2, PathInvariance, PTL DEF PathSpec

-----------------------------------------------------------------------------
(***************************************************************************)
(* Kept apart.                                                             *)
(***************************************************************************)
LEMMA KnownTypes ==
  ASSUME PathInv, NEW b \in Known
  PROVE  /\ b \in Burst /\ b.id \in Id /\ b.from \in Dev /\ b.to \in Dev /\ b.ch \in Channel
         /\ b.head \in Nat /\ b.arrival \in Nat /\ b.exit \in Nat
         /\ Length[b.id] \in Nat /\ Length[b.id] > 0
         /\ b.exit = b.arrival + Length[b.id]
<1>1. b \in Burst /\ b.id \in Id
  BY PathTypes DEF Burst
<1> QED
  BY <1>1, PathConstants DEF Burst, PathInv, KnownInv

LEMMA AlikeArrival ==
  ASSUME PathInv, AlikeFibres, NEW b \in Known
  PROVE  b.arrival = b.head /\ b.exit = b.head + Length[b.id]
BY KnownTypes, PathConstants DEF PathInv, KnownInv, AlikeFibres

\* What ScheduleMessage lets through is beside a place that is booked, or inside it.
LEMMA NestedInBooked ==
  ASSUME PathInv, NEW c \in Known, NEW b \in Burst, b.arrival <= b.exit,
         b.ch = c.ch, NEW d \in Dev, NEW t \in Slots,
         Booked(c, d, t), Clear(tx_list[d][t][b.ch], b.arrival, b.exit)
  PROVE  Disjoint(b, c) \/ Inside(b, c)
<1> DEFINE list == tx_list[d][t][b.ch]
<1>1. PICK i \in 1..Len(list) : list[i] = Place(c)
  BY DEF Booked
<1>2. b.ch \in Channel /\ b.arrival \in Nat /\ b.exit \in Nat
  BY DEF Burst
<1>3. DOMAIN list = 1..Len(list)
  BY <1>2, LenProperties DEF PathInv, IInv, GoodLists
<1>4. ~Conflicts(list[i], b.arrival, b.exit)
  BY <1>1, <1>3 DEF Clear
<1> HIDE DEF list
<1>5. ~Conflicts(c, b.arrival, b.exit)
  BY <1>1, <1>4 DEF Conflicts, Place
<1>6. c.arrival \in Nat /\ c.exit \in Nat /\ c.arrival <= c.exit
  BY KnownTypes
<1>7. Disjoint(c, b) \/ Inside(b, c)
  BY <1>2, <1>5, <1>6, ClearIsNested
<1> QED
  BY <1>7 DEF Disjoint

\* What was excused stays so: a place that was lost is remembered for good.
LEMMA ApartKept ==
  ASSUME BookedApart, Known' \subseteq Known, forgotten \subseteq forgotten'
  PROVE  BookedApart'
<1>1. ASSUME NEW b, NEW c, Excused(b, c) PROVE Excused(b, c)'
  BY <1>1 DEF Excused, Inside, Shared, Place
<1>2. \A b, c \in Known' :
        b # c /\ b.ch = c.ch /\ Shared(b, c) # {} => Excused(b, c) \/ Disjoint(b, c)
  BY DEF BookedApart, Known
<1>3. \A b, c : Shared(b, c)' = Shared(b, c) /\ (Disjoint(b, c)' <=> Disjoint(b, c))
  BY DEF Shared, Disjoint
<1> QED
  BY <1>1, <1>2, <1>3 DEF BookedApart, Known

\* A burst that was given a place lies beside the others it shares a device with, or
\* inside one, or beyond a place that was lost.
LEMMA AcceptedApart ==
  ASSUME PathInv, KeptInv, NEW b \in Burst, NEW c \in Known, c.ok,
         b.arrival <= b.exit, b.arrival >= now + Lead,
         NEW t \in Schedulable(b.from, b.to, b.ch, b.arrival, b.exit), b.ch = c.ch
  PROVE  Excused(b, c) \/ Disjoint(b, c)
<1>1. /\ t \in Slots /\ t \in Nat /\ first <= t /\ Start(t) <= b.arrival /\ b.exit <= End(t)
      /\ Clear(tx_list[b.from][t][b.ch], b.arrival, b.exit)
      /\ Clear(tx_list[b.to][t][b.ch], b.arrival, b.exit)
  BY FirstIsASlot, PathTypes, PathConstants DEF Schedulable, SlotsFor, Slots
<1>2. PICK s \in Nat : Placed(c, s)
  BY DEF PathInv, PlaceInv
<1>3. /\ c \in Burst /\ c.from \in Dev /\ c.to \in Dev /\ c.arrival \in Nat /\ c.exit \in Nat
      /\ b.arrival \in Nat /\ b.exit \in Nat /\ now \in Nat /\ Lead \in Nat /\ first \in Nat
  BY KnownTypes, PathTypes, PathConstants DEF Burst
<1>4. CASE s # t
  BY <1>1, <1>2, <1>3, <1>4, SlotsApart DEF Placed
<1>5. CASE c.exit < now + Lead
  BY <1>3, <1>5 DEF Disjoint
<1>6. CASE s = t /\ ~(c.exit < now + Lead)
  <2>1. ASSUME NEW d \in Shared(b, c), <<d, Place(c)>> \notin forgotten
        PROVE  Disjoint(b, c) \/ Inside(b, c)
    <3>1. d \in {c.from, c.to} /\ d \in {b.from, b.to} /\ d \in Dev
      BY <1>3 DEF Shared
    <3>2. Booked(c, d, t)
      <4>1. CASE first < t
        BY <1>2, <1>6, <3>1, <4>1 DEF Placed
      <4>2. CASE first = t
        <5>1. Start(first) <= c.arrival /\ c.exit <= End(first) /\ now + Lead <= c.exit
          BY <1>2, <1>3, <1>6, <4>2 DEF Placed
        <5> QED
          BY <2>1, <3>1, <4>2, <5>1 DEF KeptInv
      <4> QED
        BY <1>1, <1>3, <4>1, <4>2
    <3>3. Clear(tx_list[d][t][b.ch], b.arrival, b.exit)
      BY <1>1, <3>1
    <3> QED
      BY <1>1, <3>1, <3>2, <3>3, NestedInBooked
  <2> QED
    BY <2>1 DEF Excused
<1> QED
  BY <1>4, <1>5, <1>6

LEMMA AnnounceApart ==
  ASSUME PathInv, BookedApart, KeptInv, Orderly,
         NEW from \in Dev, NEW to \in Dev, NEW id \in Id, NEW ch \in Channel,
         NEW send \in 0..MaxTime, NEW control_full \in BOOLEAN,
         Announce(from, to, id, ch, send, control_full)
  PROVE  BookedApart' /\ KeptInv'
<1> DEFINE head == send + FibreDelay[from]
           arrival == send + FibreDelay[to]
           exit == arrival + Length[id]
           slots == Schedulable(from, to, ch, arrival, exit)
           item == [id |-> id, arrival |-> arrival, exit |-> exit]
           ok == slots # {} /\ ~control_full
           burst == [id |-> id, from |-> from, to |-> to, ch |-> ch,
                     arrival |-> arrival, exit |-> exit, head |-> head, ok |-> ok]
<1> PICK new : new = burst
  OBVIOUS
<1>1. /\ head \in Nat /\ arrival \in Nat /\ exit \in Nat /\ ok \in BOOLEAN
      /\ arrival >= now + Lead /\ arrival <= exit
  <2>1. /\ send \in Nat /\ FibreDelay[from] \in Nat /\ FibreDelay[to] = FibreDelay[from]
        /\ Length[id] \in Nat
    BY PathConstants, SwitchAssumption DEF Orderly, AlikeFibres
  <2>2. head >= now + Lead
    BY DEF Announce
  <2> QED
    BY <2>1, <2>2, PathConstants
<1>2. /\ Known' \subseteq Known \cup {new}
      /\ UNCHANGED <<now, first, forgotten>>
  BY DEF Announce, Announced, ScheduleMessage, Known
<1>3. /\ new \in Burst
      /\ new.id = id /\ new.from = from /\ new.to = to /\ new.ch = ch
      /\ new.arrival = arrival /\ new.exit = exit /\ new.ok = ok
  <2> HIDE DEF head, arrival, exit, ok
  <2> QED
    BY <1>1 DEF Burst
<1> HIDE DEF burst
<1>4. ASSUME NEW c \in Known, new.ch = c.ch, Shared(new, c) # {}
      PROVE  /\ Excused(new, c) \/ Disjoint(new, c)
             /\ Excused(c, new) \/ Disjoint(c, new)
  <2>1. CASE ~new.ok \/ ~c.ok
    BY <2>1 DEF Excused
  <2>2. CASE new.ok /\ c.ok
    <3>1. PICK t \in slots : TRUE
      BY <1>3, <2>2
    <3>2. t \in Schedulable(new.from, new.to, new.ch, new.arrival, new.exit)
      BY <1>3, <3>1
    <3>3. Excused(new, c) \/ Disjoint(new, c)
      <4>1. new.arrival <= new.exit /\ new.arrival >= now + Lead /\ new \in Burst /\ c.ok
        BY <1>1, <1>3, <2>2
      <4> QED
        BY <1>4, <3>2, <4>1, AcceptedApart
    <3> QED
      BY <3>3 DEF Excused, Shared, Disjoint
  <2> QED
    BY <2>1, <2>2
<1>5. BookedApart'
  <2>1. \A b, c : /\ Shared(b, c)' = Shared(b, c) /\ Shared(b, c) = Shared(c, b)
                  /\ Disjoint(b, c)' <=> Disjoint(b, c)
                  /\ Excused(b, c)' <=> Excused(b, c)
    BY <1>2 DEF Shared, Disjoint, Excused, Inside, Place
  <2>2. ASSUME NEW b \in Known', NEW c \in Known', b # c, b.ch = c.ch, Shared(b, c) # {}
        PROVE  Excused(b, c) \/ Disjoint(b, c)
    <3>1. CASE b \in Known /\ c \in Known
      BY <2>2, <3>1 DEF BookedApart, Known
    <3>2. CASE b = new /\ c \in Known
      BY <1>4, <2>2, <3>2
    <3>3. CASE b \in Known /\ c = new
      BY <1>4, <2>1, <2>2, <3>3
    <3> QED
      BY <1>2, <2>2, <3>1, <3>2, <3>3
  <2> QED
    BY <2>1, <2>2 DEF BookedApart, Known
<1>6. (slots = {} /\ UNCHANGED <<entry, tx_list>>) \/ \E s \in slots : Booking(s, from, to, ch, item)
  <2>1. ScheduleMessage(from, to, id, ch, arrival, Length[id], head, control_full)
    BY DEF Announce, Announced
  <2> HIDE DEF head
  <2> QED
    BY <2>1, ScheduleTables DEF PathInv
<1>7. ASSUME NEW b \in Known', b.ok, Start(first) <= b.arrival, b.exit <= End(first),
             now + Lead <= b.exit, NEW d \in {b.from, b.to}
      PROVE  Booked(b, d, first)' \/ <<d, Place(b)>> \in forgotten
  <2>1. CASE slots = {} /\ UNCHANGED <<entry, tx_list>>
    <3>1. b \in Known
      BY <1>2, <1>3, <1>7, <2>1
    <3>2. Booked(b, d, first) \/ <<d, Place(b)>> \in forgotten
      BY <1>7, <3>1 DEF KeptInv
    <3> QED
      BY <1>2, <2>1, <3>2 DEF Booked, Place
  <2>2. ASSUME NEW t \in slots, Booking(t, from, to, ch, item)
        PROVE  Booked(b, d, first)' \/ <<d, Place(b)>> \in forgotten
    <3>1. t \in Slots /\ t \in Nat /\ Start(t) <= arrival /\ exit <= End(t)
      BY FirstIsASlot, PathTypes DEF Schedulable, SlotsFor
    <3> HIDE DEF slots
    <3>2. CASE b = new
      <4>1. item = Place(new)
        BY <1>3 DEF Place
      <4>2. /\ Booking(t, new.from, new.to, new.ch, Place(new))
            /\ Start(t) <= new.arrival /\ new.exit <= End(t) /\ new \in Burst
            /\ IInv /\ UNCHANGED first
        BY <1>2, <1>3, <2>2, <3>1, <4>1 DEF PathInv
      <4>3. Booked(new, new.from, t)' /\ Booked(new, new.to, t)'
        BY <3>1, <4>2, BookingIsPlace
      <4>4. t = first
        <5>1. CASE t # first
          <6>1. Disjoint(new, new)
            BY <1>3, <1>7, <3>1, <3>2, <5>1, PathTypes, SlotsApart
          <6> QED
            BY <1>1, <1>3, <6>1 DEF Disjoint
        <5> QED
          BY <5>1
      <4> QED
        BY <1>2, <1>7, <3>2, <4>3, <4>4
    <3>3. CASE b \in Known
      <4>1. Booked(b, d, first) \/ <<d, Place(b)>> \in forgotten
        BY <1>7, <3>3 DEF KeptInv
      <4>2. b \in Burst /\ d \in Dev /\ first \in Slots /\ IInv
        BY <1>7, <3>3, KnownTypes, PathTypes DEF PathInv
      <4>3. item \in Reservation
        BY <1>1 DEF Reservation
      <4> HIDE DEF item
      <4>4. Booked(b, d, first) => (Booked(b, d, first)')
        <5> PICK f : f = first
          OBVIOUS
        <5>1. Booked(b, d, f) => Booked(b, d, f)'
          BY <2>2, <4>2, <4>3, BookedStays
        <5> QED
          BY <1>2, <5>1 DEF Booked
      <4> QED
        BY <4>1, <4>4
    <3> QED
      BY <1>2, <3>2, <3>3
  <2> QED
    BY <1>6, <2>1, <2>2
<1>8. KeptInv'
  <2>1. Start(first)' = Start(first) /\ End(first)' = End(first) /\ now' = now /\ forgotten' = forgotten
    BY <1>2 DEF Start, End
  <2>2. \A b : Place(b)' = Place(b)
    BY DEF Place
  <2> QED
    BY <1>7, <2>1, <2>2 DEF KeptInv
<1> QED
  BY <1>5, <1>8

-----------------------------------------------------------------------------
\* A step that leaves the lists and the slots alone keeps what is in them.
LEMMA KeptKept ==
  ASSUME KeptInv, Known' \subseteq Known, UNCHANGED <<first, tx_list, forgotten>>,
         now' = now \/ (now \in Nat /\ now' = now + 1), PathInv
  PROVE  KeptInv'
<1>1. /\ Start(first)' = Start(first) /\ End(first)' = End(first)
      /\ \A b : Place(b)' = Place(b)
      /\ \A b, d : Booked(b, d, first)' <=> Booked(b, d, first)
  BY DEF Start, End, Place, Booked
<1>2. ASSUME NEW b \in Known, now' + Lead <= b.exit PROVE now + Lead <= b.exit
  BY <1>2, KnownTypes, PathTypes, PathConstants
<1> QED
  BY <1>1, <1>2 DEF KeptInv

\* PassThroughFinish takes a place from a list only when its own burst has passed, or
\* with the copy; then it is one of the lost.
LEMMA FinishKept ==
  ASSUME PathInv, WayInv, KeptInv, Orderly, NEW p \in passing, PassedThrough(p)
  PROVE  KeptInv'
<1> DEFINE old == tx_list[p.dst][first][p.ch]
           copy == WithoutId(tx_list[p.src][first][p.ch], p.id)
           lost == {r \in ToSet(old) \ ToSet(copy) : r.id # p.id}
<1>1. /\ p.finish = now
      /\ tx_list' = [tx_list EXCEPT ![p.dst][first][p.ch] = copy]
      /\ forgotten' = forgotten \cup ({p.dst} \X lost)
      /\ Known' = Known /\ UNCHANGED <<now, first>>
  BY DEF PassedThrough, Finish, Known
<1>2. /\ p.dst \in Dev /\ p.src \in Dev /\ p.ch \in Channel /\ first \in Slots
      /\ tx_list \in [Dev -> [Slots -> [Channel -> Seq(Reservation)]]]
  BY PathTypes DEF Pass, TypeOK
<1>3. old \in Seq(Reservation) /\ Len(old) \in Nat /\ DOMAIN old = 1..Len(old)
  BY <1>2, LenProperties
<1>4. copy \in Seq(Reservation) /\ DOMAIN copy = 1..Len(copy)
  <2>1. tx_list'[p.dst][first][p.ch] = copy
    BY <1>1, <1>2
  <2>2. IInv'
    BY PassThroughFinishIInv DEF PassedThrough, PassThroughFinish, PathInv
  <2>3. tx_list'[p.dst][first][p.ch] \in Seq(Reservation)
    <3>1. Slots' = Slots
      BY <1>1 DEF Slots
    <3> QED
      BY <1>2, <2>2, <3>1 DEF IInv, TypeOK
  <2> HIDE DEF copy
  <2> QED
    BY <2>1, <2>3, LenProperties
<1> HIDE DEF old, copy
<1>5. ASSUME NEW b \in Known, b.ok, now + Lead <= b.exit PROVE b.id # p.id
  <2>1. PICK x \in bursts : Passes(x, p)
    BY DEF WayInv
  <2>2. SUFFICES ASSUME b.id = p.id PROVE FALSE
    OBVIOUS
  <2>3. x = b
    BY <2>1, <2>2 DEF Passes, PathInv, KnownInv, Known
  <2>4. now = b.head + Propagation + Length[b.id] /\ b.exit = b.head + Length[b.id]
    BY <1>1, <2>1, <2>3, AlikeArrival DEF Passes, Orderly
  <2>5. /\ b.head \in Nat /\ Length[b.id] \in Nat /\ Propagation \in Nat /\ Lead \in Nat
        /\ Lead + Propagation > 0
    BY KnownTypes, PathConstants DEF Orderly, SomeDelay
  <2> QED
    BY <1>5, <2>4, <2>5
<1>6. ASSUME NEW b \in Known, b.id # p.id, NEW d \in {b.from, b.to}, Booked(b, d, first)
      PROVE  (Booked(b, d, first)') \/ <<d, Place(b)>> \in forgotten'
  <2>1. d \in Dev /\ b.ch \in Channel
    BY KnownTypes
  <2>2. CASE d = p.dst /\ b.ch = p.ch
    <3>1. PICK i \in 1..Len(old) : old[i] = Place(b)
      BY <1>6, <2>2 DEF Booked, old
    <3>2. Place(b) \in ToSet(old) /\ Place(b).id # p.id
      BY <1>3, <1>6, <3>1 DEF ToSet, Place
    <3>3. CASE Place(b) \in ToSet(copy)
      <4>1. \E j \in 1..Len(copy) : copy[j] = Place(b)
        BY <1>4, <3>3 DEF ToSet
      <4>2. tx_list'[d][first'][b.ch] = copy
        BY <1>1, <1>2, <2>2
      <4>3. Place(b)' = Place(b)
        BY DEF Place
      <4> QED
        BY <4>1, <4>2, <4>3 DEF Booked
    <3>4. CASE Place(b) \notin ToSet(copy)
      <4>1. Place(b) \in lost
        BY <3>2, <3>4
      <4> HIDE DEF lost
      <4> QED
        BY <1>1, <2>2, <4>1
    <3> QED
      BY <3>3, <3>4
  <2>3. CASE ~(d = p.dst /\ b.ch = p.ch)
    <3>1. tx_list'[d][first'][b.ch] = tx_list[d][first][b.ch]
      BY <1>1, <1>2, <2>1, <2>3
    <3> QED
      BY <1>6, <3>1 DEF Booked, Place
  <2> QED
    BY <2>2, <2>3
<1>7. /\ Start(first)' = Start(first) /\ End(first)' = End(first)
      /\ \A b : Place(b)' = Place(b)
  BY <1>1 DEF Start, End, Place
<1>8. ASSUME NEW b \in Known, b.ok, Start(first) <= b.arrival, b.exit <= End(first),
             now + Lead <= b.exit, NEW d \in {b.from, b.to}
      PROVE  (Booked(b, d, first)') \/ <<d, Place(b)>> \in forgotten'
  <2>1. Booked(b, d, first) \/ <<d, Place(b)>> \in forgotten
    BY <1>8 DEF KeptInv
  <2>2. CASE Booked(b, d, first)
    BY <1>5, <1>6, <1>8, <2>2
  <2>3. CASE <<d, Place(b)>> \in forgotten
    BY <1>1, <2>3
  <2> QED
    BY <2>1, <2>2, <2>3
<1> QED
  BY <1>1, <1>7, <1>8 DEF KeptInv

\* The slot that begins has all its places: nothing was erased from it before.
LEMMA BeginKept ==
  ASSUME PathInv, Reconfigure, BeginReconfigure
  PROVE  KeptInv'
<1>1. /\ first' = first + 1 /\ tx_list' = Shifted(tx_list, <<>>)
      /\ Known' = Known
  BY DEF Reconfigure, BeginReconfigure, Known
<1> PICK f : f = first + 1
  OBVIOUS
<1>3. /\ first \in Nat /\ f \in Nat /\ first < f /\ first' = f
      /\ Start(first)' = Start(f) /\ End(first)' = End(f)
  BY <1>1, PathTypes DEF Start, End
<1>4. ASSUME NEW b \in Known, b.ok, Start(f) <= b.arrival, b.exit <= End(f),
             NEW d \in {b.from, b.to}
      PROVE  Booked(b, d, first)'
  <2>1. PICK s \in Nat : Placed(b, s)
    BY <1>4 DEF PathInv, PlaceInv
  <2>2. b \in Burst /\ d \in Dev
    BY <1>4, KnownTypes
  <2>3. s = f
    <3>1. SUFFICES ASSUME s # f PROVE FALSE
      OBVIOUS
    <3>2. Disjoint(b, b)
      BY <1>3, <1>4, <2>1, <2>2, <3>1, SlotsApart DEF Placed
    <3> QED
      BY <3>2, KnownTypes DEF Disjoint
  <2>4. Booked(b, d, f)
    BY <1>3, <1>4, <2>1, <2>3 DEF Placed
  <2>5. f \in Slots
    BY <1>3, <2>1, <2>3, PathConstants DEF Placed, Slots
  <2>6. tx_list'[d][f] = tx_list[d][f]
    BY <1>1, <1>3, <2>2, <2>5, PathTypes, ShiftedAt
  <2> QED
    BY <1>3, <2>4, <2>6 DEF Booked, Place
<1> QED
  BY <1>1, <1>3, <1>4 DEF KeptInv

\* What is in the switch and the fibres goes on as long as its burst is under way.
LEMMA WayKept ==
  ASSUME WayInv, now' = now,
         passing' \subseteq passing, fibres' \subseteq fibres,
         \A b \in bursts : (\E x \in passing' \cup fibres' : x.id = b.id) => b \in bursts'
  PROVE  WayInv'
<1>1. ASSUME NEW p \in passing' PROVE \E b \in bursts' : Passes(b, p)'
  <2>1. PICK b \in bursts : Passes(b, p)
    BY DEF WayInv
  <2>2. b \in bursts'
    BY <2>1 DEF Passes
  <2> QED
    BY <2>1, <2>2 DEF Passes
<1>2. ASSUME NEW c \in fibres' PROVE \E b \in bursts' : Crosses(b, c)'
  <2>1. PICK b \in bursts : Crosses(b, c)
    BY DEF WayInv
  <2>2. b \in bursts'
    BY <2>1 DEF Crosses
  <2> QED
    BY <2>1, <2>2 DEF Crosses
<1> QED
  BY <1>1, <1>2 DEF WayInv

LEMMA LaunchWay ==
  ASSUME PathInv, WayInv, NEW b \in pending, Launch(b)
  PROVE  WayInv'
<1>1. /\ bursts' = bursts \cup {b} /\ now + FibreDelay[b.from] = b.head
      /\ now' = now /\ passing' = passing
  BY DEF Launch, switchVars, vars
<1> PICK new : new =
      [id |-> b.id, dev |-> b.from, ch |-> b.ch, up |-> TRUE,
       finish |-> now + Length[b.id] + FibreDelay[b.from]]
  OBVIOUS
<1>2. fibres' = fibres \cup {new}
  BY DEF Launch, Enter
<1>3. now \in Nat /\ FibreDelay[b.from] \in Nat /\ b.head \in Nat /\ Length[b.id] \in Nat
  BY PathTypes, KnownTypes, PathConstants DEF Known
<1>4. Crosses(b, new)'
  BY <1>1, <1>3, PathConstants DEF Crosses
<1>5. \A p \in passing' : \E x \in bursts' : Passes(x, p)'
  BY <1>1 DEF WayInv, Passes
<1>6. \A c \in fibres' : \E x \in bursts' : Crosses(x, c)'
  BY <1>1, <1>2, <1>4 DEF WayInv, Crosses
<1> QED
  BY <1>1, <1>5, <1>6 DEF WayInv

LEMMA ArriveWay ==
  ASSUME PathInv, WayInv, AlikeFibres, NEW b \in pending, Arrive(b)
  PROVE  WayInv'
<1>1. /\ b \in bursts /\ b \in Known /\ ReceiveBurst(b) /\ b.head = now
      /\ now' = now /\ bursts' = bursts /\ fibres' = fibres
  BY DEF Arrive, ReceiveBurst, Known
<1>2. CASE passing' = passing
  BY <1>1, <1>2, WayKept
<1>3. CASE passing' # passing
  <2> DEFINE to == entry[b.from][first][b.ch]
  <2> PICK pass : pass = [id |-> b.id, src |-> b.from, dst |-> to, ch |-> b.ch,
                          finish |-> now + Propagation + (b.exit - b.arrival)]
    OBVIOUS
  <2>1. ~reconfiguring /\ passing' = passing \cup {pass}
    BY <1>1, <1>3 DEF ReceiveBurst
  <2>2. b.ok => to = b.to
    BY <1>1, <2>1, EntryFound
  <2>3. /\ now \in Nat /\ Propagation \in Nat /\ Length[b.id] \in Nat
        /\ b.arrival \in Nat /\ b.exit = b.arrival + Length[b.id]
    BY <1>1, PathTypes, KnownTypes, PathConstants
  <2>4. now + Propagation + (b.exit - b.arrival) = b.head + Propagation + Length[b.id]
    BY <1>1, <2>3
  <2>5. Passes(b, pass)'
    <3> HIDE DEF to
    <3> QED
      BY <1>1, <2>2, <2>3, <2>4 DEF Passes
  <2>6. \A p \in passing' : \E x \in bursts' : Passes(x, p)'
    BY <1>1, <2>1, <2>5 DEF WayInv, Passes
  <2>7. \A c \in fibres' : \E x \in bursts' : Crosses(x, c)'
    BY <1>1 DEF WayInv, Crosses
  <2> QED
    BY <2>6, <2>7 DEF WayInv
<1> QED
  BY <1>2, <1>3

LEMMA ForwardWay ==
  ASSUME PathInv, WayInv, NEW p \in passing, Forward(p)
  PROVE  WayInv'
<1>1. /\ now + Length[p.id] = p.finish
      /\ now' = now /\ passing' = passing /\ bursts' = bursts
  BY DEF Forward, switchVars, vars
<1>2. PICK b \in bursts : Passes(b, p)
  BY DEF WayInv
<1> PICK new : new =
      [id |-> p.id, dev |-> p.dst, ch |-> p.ch, up |-> FALSE,
       finish |-> now + Length[p.id] + FibreDelay[p.dst]]
  OBVIOUS
<1>3. fibres' = fibres \cup {new}
  BY DEF Forward, Enter
<1>4. /\ now \in Nat /\ b.head \in Nat /\ Length[b.id] \in Nat /\ Propagation \in Nat
      /\ p.dst \in Dev /\ FibreDelay[p.dst] \in Nat
  BY PathTypes, KnownTypes, PathConstants DEF Known, Pass
<1>5. Crosses(b, new)'
  BY <1>1, <1>2, <1>4, PathConstants DEF Crosses, Passes
<1>6. \A x \in passing' : \E y \in bursts' : Passes(y, x)'
  BY <1>1 DEF WayInv, Passes
<1>7. \A c \in fibres' : \E y \in bursts' : Crosses(y, c)'
  BY <1>1, <1>2, <1>3, <1>5 DEF WayInv, Crosses
<1> QED
  BY <1>1, <1>6, <1>7 DEF WayInv

LEMMA LeaveWay ==
  ASSUME WayInv, NEW c \in fibres, Leave(c)
  PROVE  WayInv'
<1> DEFINE rest == fibres \ {c}
           over == \A x \in rest \cup passing : x.id # c.id
<1>1. /\ fibres' = rest /\ passing' = passing /\ now' = now
      /\ bursts' = IF over THEN {b \in bursts : b.id # c.id} ELSE bursts
  BY DEF Leave, switchVars, vars
<1>2. ASSUME NEW b \in bursts, NEW x \in passing' \cup fibres', x.id = b.id
      PROVE  b \in bursts'
  BY <1>1, <1>2
<1> QED
  BY <1>1, <1>2, WayKept DEF WayInv

LEMMA PathTickWay ==
  ASSUME PathInv, WayInv, PathTick
  PROVE  WayInv'
<1>1. /\ \A p \in passing : p.finish # now
      /\ \A c \in fibres : c.finish # now
      /\ now' = now + 1 /\ UNCHANGED <<passing, bursts, fibres>>
  BY DEF PathTick, Tick
<1>2. ASSUME NEW p \in passing, NEW b \in bursts, Passes(b, p) PROVE Passes(b, p)'
  <2>1. now \in Nat /\ p.finish \in Nat /\ b.head \in Nat /\ p.finish # now
    BY <1>1, PathTypes DEF Pass, Burst
  <2> QED
    BY <1>1, <1>2, <2>1 DEF Passes
<1>3. ASSUME NEW c \in fibres, NEW b \in bursts, Crosses(b, c) PROVE Crosses(b, c)'
  <2>1. now \in Nat /\ c.finish \in Nat /\ b.head \in Nat /\ Propagation \in Nat /\ c.finish # now
    BY <1>1, PathTypes, PathConstants DEF Crossing, Burst
  <2> QED
    BY <1>1, <1>3, <2>1 DEF Crosses
<1> QED
  BY <1>1, <1>2, <1>3 DEF WayInv

\* With fibres of one length, and an instant between a burst that passes and the next
\* one announced, the places of accepted bursts stay apart at every device they share
\* but for the ways of Excused, and what crosses the switch and the fibres is on time.
THEOREM OrderlyInvariance ==
  ASSUME Orderly
  PROVE  PathSpec => [](PathInv /\ OrderlyInv)
<1>1. PathInit => OrderlyInv
  BY DEF PathInit, Init, OrderlyInv, BookedApart, KeptInv, WayInv, Known
<1>2. PathInv /\ OrderlyInv /\ [PathNext]_pathVars => OrderlyInv'
  <2> SUFFICES ASSUME PathInv, BookedApart, KeptInv, WayInv, [PathNext]_pathVars
               PROVE  BookedApart' /\ KeptInv' /\ WayInv'
    BY DEF OrderlyInv
  <2>1. ASSUME NEW from \in Dev, NEW to \in Dev, NEW id \in Id, NEW ch \in Channel,
               NEW send \in 0..MaxTime, NEW control_full \in BOOLEAN,
               Announce(from, to, id, ch, send, control_full)
        PROVE  BookedApart' /\ KeptInv' /\ WayInv'
    <3>1. now' = now /\ passing' = passing /\ fibres' = fibres /\ bursts' = bursts
      BY <2>1 DEF Announce, ScheduleMessage
    <3>2. WayInv'
      BY <3>1, WayKept
    <3> QED
      BY <2>1, <3>2, AnnounceApart
  <2>2. ASSUME NEW b \in pending, Launch(b) PROVE BookedApart' /\ KeptInv' /\ WayInv'
    <3>1. Known' \subseteq Known /\ now' = now /\ UNCHANGED <<first, tx_list, forgotten>>
      BY <2>2 DEF Launch, switchVars, vars, tables, Known
    <3> QED
      BY <2>2, <3>1, ApartKept, KeptKept, LaunchWay
  <2>3. ASSUME NEW b \in pending, Arrive(b) PROVE BookedApart' /\ KeptInv' /\ WayInv'
    <3>1. Known' \subseteq Known /\ now' = now /\ UNCHANGED <<first, tx_list, forgotten>>
      BY <2>3 DEF Arrive, ReceiveBurst, tables, Known
    <3> QED
      BY <2>3, <3>1, ApartKept, KeptKept, ArriveWay DEF Orderly
  <2>4. ASSUME NEW p \in passing, Forward(p) PROVE BookedApart' /\ KeptInv' /\ WayInv'
    <3>1. Known' \subseteq Known /\ now' = now /\ UNCHANGED <<first, tx_list, forgotten>>
      BY <2>4 DEF Forward, switchVars, vars, tables, Known
    <3> QED
      BY <2>4, <3>1, ApartKept, KeptKept, ForwardWay
  <2>5. ASSUME NEW p \in passing, PassedThrough(p) PROVE BookedApart' /\ KeptInv' /\ WayInv'
    <3>1. /\ Known' \subseteq Known /\ now' = now /\ passing' \subseteq passing
          /\ fibres' = fibres /\ bursts' = bursts /\ forgotten \subseteq forgotten'
      BY <2>5 DEF PassedThrough, Finish, Known
    <3>2. KeptInv'
      BY <2>5, FinishKept
    <3> QED
      BY <3>1, <3>2, ApartKept, WayKept
  <2>6. ASSUME NEW c \in fibres, Leave(c) PROVE BookedApart' /\ KeptInv' /\ WayInv'
    <3>1. Known' \subseteq Known /\ now' = now /\ UNCHANGED <<first, tx_list, forgotten>>
      BY <2>6 DEF Leave, switchVars, vars, tables, Known
    <3> QED
      BY <2>6, <3>1, ApartKept, KeptKept, LeaveWay
  <2>7. CASE Reconfigure
    <3>1. /\ Known' \subseteq Known /\ UNCHANGED <<now, passing, fibres, bursts, forgotten>>
      BY <2>7 DEF Reconfigure, BeginReconfigure, CompleteReconfigure, Known
    <3>2. BookedApart' /\ WayInv'
      BY <3>1, ApartKept, WayKept
    <3>3. CASE BeginReconfigure
      BY <2>7, <3>2, <3>3, BeginKept
    <3>4. CASE CompleteReconfigure
      <4>1. UNCHANGED <<first, tx_list, forgotten>>
        BY <3>4 DEF CompleteReconfigure, tables
      <4> QED
        BY <3>1, <3>2, <4>1, KeptKept
    <3> QED
      BY <2>7, <3>3, <3>4 DEF Reconfigure
  <2>8. CASE PathTick
    <3>1. /\ Known' \subseteq Known /\ now' = now + 1
          /\ UNCHANGED <<first, tx_list, forgotten>>
      BY <2>8 DEF PathTick, Tick, tables, Known
    <3>2. now \in Nat
      BY PathTypes
    <3> QED
      BY <2>8, <3>1, <3>2, ApartKept, KeptKept, PathTickWay
  <2>9. CASE UNCHANGED pathVars
    <3>1. /\ Known' \subseteq Known /\ UNCHANGED <<now, first, tx_list, forgotten>>
          /\ UNCHANGED <<passing, fibres, bursts>>
      BY <2>9 DEF pathVars, switchVars, vars, tables, Known
    <3> QED
      BY <3>1, ApartKept, KeptKept, WayKept
  <2> QED
    BY <2>1, <2>2, <2>3, <2>4, <2>5, <2>6, <2>7, <2>8, <2>9 DEF PathNext
<1> QED
  BY <1>1, <1>2, PathInvariance, PTL DEF PathSpec

\* Bursts of any lengths that were accepted for one channel of a device are apart,
\* but for a place inside another and for a place that a copy has lost.
THEOREM BookedApartHolds ==
  ASSUME Orderly
  PROVE  PathSpec => []BookedApart
<1>1. OrderlyInv => BookedApart
  BY DEF OrderlyInv
<1> QED
  BY <1>1, OrderlyInvariance, PTL

\* Bursts that go the same way through a fibre on one channel do not overlap: on the
\* way up by m_next_transmit of the endpoint, also those without a place, on the way
\* down by their places.
THEOREM SameDirectionApartHolds ==
  ASSUME Orderly
  PROVE  PathSpec => []SameDirectionApart
<1>1. PathInv /\ OrderlyInv => SameDirectionApart
  <2> SUFFICES ASSUME PathInv, BookedApart, WayInv, NEW c \in fibres, NEW d \in fibres,
                      c.id # d.id, c.dev = d.dev, c.ch = d.ch, c.up = d.up
               PROVE  \/ c.finish + Length[d.id] < d.finish
                      \/ d.finish + Length[c.id] < c.finish
                      \/ ~c.up /\ \E b, e \in bursts :
                                     b.id = c.id /\ e.id = d.id /\ Excused(b, e)
    BY DEF OrderlyInv, SameDirectionApart
  <2>1. PICK b \in bursts : Crosses(b, c)
    BY DEF WayInv
  <2>2. PICK e \in bursts : Crosses(e, d)
    BY DEF WayInv
  <2>3. /\ b \in Known /\ e \in Known /\ b # e /\ b.ch = e.ch
        /\ b.id = c.id /\ e.id = d.id
    BY <2>1, <2>2 DEF Known, Crosses
  <2>4. /\ b.head \in Nat /\ b.arrival = b.head /\ b.exit = b.head + Length[c.id]
        /\ e.head \in Nat /\ e.arrival = e.head /\ e.exit = e.head + Length[d.id]
        /\ Length[c.id] \in Nat /\ Length[d.id] \in Nat
    BY <2>3, KnownTypes, AlikeArrival DEF Orderly
  <2>5. CASE c.up
    <3>1. /\ b.from = e.from
          /\ c.finish = b.head + Length[c.id] /\ d.finish = e.head + Length[d.id]
      BY <2>1, <2>2, <2>3, <2>5 DEF Crosses
    <3>2. b.head + Length[c.id] < e.head \/ e.head + Length[d.id] < b.head
      BY <2>3, <3>1 DEF PathInv, KnownInv
    <3> QED
      BY <2>4, <3>1, <3>2
  <2>6. CASE ~c.up /\ ~Excused(b, e)
    <3>1. /\ b.to = e.to /\ c.dev \in Dev
          /\ c.finish = b.head + Propagation + Length[c.id] + FibreDelay[c.dev]
          /\ d.finish = e.head + Propagation + Length[d.id] + FibreDelay[c.dev]
      BY <2>1, <2>2, <2>3, <2>6, PathTypes DEF Crosses, Excused, Crossing
    <3>2. Disjoint(b, e)
      BY <2>3, <2>6, <3>1 DEF BookedApart, Known, Shared
    <3>3. FibreDelay[c.dev] \in Nat /\ Propagation \in Nat
      BY <3>1, PathConstants
    <3> QED
      BY <2>4, <3>1, <3>2, <3>3 DEF Disjoint
  <2> QED
    BY <2>3, <2>5, <2>6
<1> QED
  BY <1>1, OrderlyInvariance, PTL

\* Two bursts whose places keep them apart meet in a fibre only when the head of the
\* one that comes up is sent while the tail of the one before is on its way down.
THEOREM OnlyTailsMeetHolds ==
  ASSUME Orderly
  PROVE  PathSpec => []OnlyTailsMeet
<1>1. PathInv /\ OrderlyInv => OnlyTailsMeet
  <2> SUFFICES ASSUME PathInv, BookedApart, WayInv, NEW c \in fibres, NEW d \in fibres,
                      c.dev = d.dev, c.ch = d.ch, c.up, ~d.up
               PROVE  \E b, e \in bursts :
                        b.id = c.id /\ e.id = d.id /\ (Excused(b, e) \/ e.exit < b.arrival)
    BY DEF OrderlyInv, OnlyTailsMeet
  <2>1. PICK b \in bursts : Crosses(b, c)
    BY DEF WayInv
  <2>2. PICK e \in bursts : Crosses(e, d)
    BY DEF WayInv
  <2>3. /\ b.id = c.id /\ b.ch = c.ch /\ b.from = c.dev
        /\ now <= c.finish /\ c.finish = b.head + Length[b.id]
        /\ e.id = d.id /\ e.ch = d.ch /\ e.head + Propagation <= now
        /\ e.ok => e.to = d.dev
    BY <2>1, <2>2 DEF Crosses
  <2>4. b \in Known /\ e \in Known
    BY DEF Known
  <2>5. CASE Excused(b, e)
    BY <2>3, <2>5
  <2>6. CASE ~Excused(b, e)
    <3>1. e.to = b.from
      BY <2>3, <2>6 DEF Excused
    <3>2. b # e
      BY <2>4, <3>1 DEF PathInv, KnownInv
    <3>3. Disjoint(b, e)
      BY <2>3, <2>4, <2>6, <3>1, <3>2 DEF BookedApart, Known, Shared
    <3>4. /\ b.head \in Nat /\ b.arrival = b.head /\ b.exit = b.head + Length[b.id]
          /\ e.head \in Nat /\ e.arrival = e.head /\ Length[b.id] \in Nat
          /\ Propagation \in Nat /\ now \in Nat
      BY <2>4, AlikeArrival, KnownTypes, PathTypes, PathConstants DEF Orderly
    <3>5. e.exit < b.arrival
      BY <2>3, <3>3, <3>4 DEF Disjoint
    <3> QED
      BY <2>3, <3>5
  <2> QED
    BY <2>5, <2>6
<1> QED
  BY <1>1, OrderlyInvariance, PTL

\* Of bursts whose places keep them apart, the switch marks one only for the tail of
\* another, kept for the propagation delay after its place (PassThrough, m_channels).
THEOREM SwitchMarksTailsHolds ==
  ASSUME Orderly
  PROVE  PathSpec => SwitchMarksTails
<1> DEFINE Tails ==
      dropped' \ dropped # {} =>
        \E p, q \in passing' : \E b, e \in bursts :
          /\ b.id = p.id /\ e.id = q.id
          /\ p.ch = q.ch /\ q.src = p.dst
          /\ \/ Excused(b, e)
             \/ e.exit < b.arrival /\ b.arrival <= e.exit + Propagation
<1>1. PathInv /\ OrderlyInv /\ [PathNext]_pathVars => [Tails]_pathVars
  <2> SUFFICES ASSUME PathInv, BookedApart, WayInv, PathNext, NEW x \in dropped' \ dropped
               PROVE  \E p, q \in passing' : \E b, e \in bursts :
                        /\ b.id = p.id /\ e.id = q.id
                        /\ p.ch = q.ch /\ q.src = p.dst
                        /\ \/ Excused(b, e)
                           \/ e.exit < b.arrival /\ b.arrival <= e.exit + Propagation
    BY DEF OrderlyInv
  <2>1. PICK b \in pending : Arrive(b)
    <3>1. ASSUME NEW from \in Dev, NEW to \in Dev, NEW id \in Id, NEW ch \in Channel,
                 NEW send \in 0..MaxTime, NEW control_full \in BOOLEAN,
                 Announce(from, to, id, ch, send, control_full)
          PROVE  dropped' = dropped
      BY <3>1 DEF Announce, ScheduleMessage
    <3>2. ASSUME NEW b \in pending, Launch(b)
          PROVE  dropped' = dropped
      BY <3>2 DEF Launch, switchVars, vars
    <3>3. ASSUME NEW p \in passing, Forward(p) \/ PassedThrough(p)
          PROVE  dropped' \subseteq dropped
      BY <3>3 DEF Forward, switchVars, vars, PassedThrough, Finish
    <3>4. ASSUME NEW c \in fibres, Leave(c)
          PROVE  dropped' = dropped
      BY <3>4 DEF Leave, switchVars, vars
    <3>5. ASSUME Reconfigure
          PROVE  dropped' = dropped
      BY <3>5 DEF Reconfigure, BeginReconfigure, CompleteReconfigure
    <3>6. ASSUME PathTick
          PROVE  dropped' = dropped
      BY <3>6 DEF PathTick, Tick
    <3> QED
      BY <3>1, <3>2, <3>3, <3>4, <3>5, <3>6 DEF PathNext
  <2> DEFINE to == entry[b.from][first][b.ch]
             pass == [id |-> b.id, src |-> b.from, dst |-> to, ch |-> b.ch,
                      finish |-> now + Propagation + (b.exit - b.arrival)]
  <2>2. /\ b \in bursts /\ b \in Known /\ b.head = now /\ ~reconfiguring
        /\ passing' = passing \cup {pass}
        /\ \E q \in passing : q.ch = b.ch /\ q.src = to
        /\ bursts' = bursts
    BY <2>1 DEF Arrive, ReceiveBurst, Known
  <2>3. b.ok => b.arrival = now /\ b.exit = now + Length[b.id] /\ to = b.to
    BY <2>2, EntryFound DEF Orderly
  <2>4. pass.id = b.id /\ pass.ch = b.ch /\ pass.dst = to
    OBVIOUS
  <2> HIDE DEF to, pass
  <2>5. PICK q \in passing : q.ch = b.ch /\ q.src = to
    BY <2>2
  <2>6. PICK e \in bursts : Passes(e, q)
    BY DEF WayInv
  <2>7. /\ e \in Known /\ e.id = q.id /\ e.from = to /\ e.ch = b.ch
        /\ e.head <= now /\ now <= e.head + Propagation + Length[e.id]
    BY <2>5, <2>6 DEF Passes, Known
  <2>8. ASSUME ~Excused(b, e)
        PROVE  e.exit < b.arrival /\ b.arrival <= e.exit + Propagation
    <3>1. b.ok /\ to = b.to /\ b.arrival = now /\ b.exit = now + Length[b.id]
      BY <2>3, <2>8 DEF Excused
    <3>2. b # e
      BY <2>2, <2>7, <3>1 DEF PathInv, KnownInv
    <3>3. Disjoint(b, e)
      BY <2>2, <2>7, <2>8, <3>1, <3>2 DEF BookedApart, Known, Shared
    <3>4. /\ e.head \in Nat /\ e.arrival = e.head /\ e.exit = e.head + Length[e.id]
          /\ now \in Nat /\ Propagation \in Nat
          /\ Length[e.id] \in Nat /\ Length[b.id] \in Nat
      BY <2>2, <2>7, AlikeArrival, KnownTypes, PathTypes, PathConstants DEF Orderly
    <3> QED
      BY <2>7, <3>1, <3>3, <3>4 DEF Disjoint
  <2>9. pass \in passing' /\ q \in passing'
    BY <2>2
  <2> QED
    BY <2>2, <2>4, <2>5, <2>7, <2>8, <2>9
<1>2. SwitchMarksTails <=> [][Tails]_pathVars
  BY DEF SwitchMarksTails
<1> HIDE DEF Tails
<1> QED
  BY <1>1, <1>2, OrderlyInvariance, PTL DEF PathSpec
=============================================================================
