-------------------------- MODULE BurstTimingProofs --------------------------
(***************************************************************************)
(* Proofs about the instants at which control messages and bursts leave an *)
(* endpoint, for any number of messages, any delays and any schedule.      *)
(*                                                                         *)
(* All rests on one sum: a burst is planned for the clock of the node, and *)
(* the event runs as much later than that as the clock is behind.  The     *)
(* control messages ahead of a new one are counted when it is planned, and *)
(* none of them is ever late, because the simulator runs what is due       *)
(* before its clock moves.                                                 *)
(***************************************************************************)
EXTENDS BurstTiming, SequencesExt, SequenceTheorems, WellFoundedInduction, TLAPS

\* The search loops find a first match whenever there is one.
LEMMA SetHasMin ==
  ASSUME NEW S \in SUBSET Nat, S # {}
  PROVE  \E x \in S : \A y \in S : x <= y
<1>1. PICK x \in S : \A y \in S : ~ (<<y, x>> \in OpToRel(<, Nat))
  BY WFMin, NatLessThanWellFounded
<1>2. \A y \in S : ~(y < x)
  BY <1>1 DEF OpToRel
<1> QED BY <1>2


-----------------------------------------------------------------------------
(***************************************************************************)
(* The clock of a node, for any skew and any readings: the error is        *)
(* bounded by half a nanosecond per reading, and between two settings the  *)
(* clock does not go back.  All rests on Rounded being within one half of  *)
(* the quotient it stands for.                                             *)
(***************************************************************************)
\* Integer division by a positive number.
LEMMA Division ==
  ASSUME NEW a \in Nat, NEW b \in Nat \ {0}
  PROVE  /\ a \div b \in Nat
         /\ b * (a \div b) <= a
         /\ a < b * (a \div b) + b
OBVIOUS

\* Rounded is off by at most one half of Unit.
LEMMA RoundedIsNear ==
  ASSUME NEW x \in Int
  PROVE  /\ Rounded(x) \in Int
         /\ 2 * (Unit * Rounded(x) - x) <= Unit
         /\ -Unit <= 2 * (Unit * Rounded(x) - x)
<1>1. Unit \in Nat /\ Unit > 0
  BY ClockAssumption
<1>2. CASE x >= 0
  <2> DEFINE q == (2 * x + Unit) \div (2 * Unit)
  <2>1. /\ q \in Nat
        /\ (2 * Unit) * q <= 2 * x + Unit
        /\ 2 * x + Unit < (2 * Unit) * q + 2 * Unit
    <3>1. 2 * x + Unit \in Nat /\ 2 * Unit \in Nat \ {0}
      BY <1>1, <1>2
    <3> QED
      BY <3>1, Division
  <2>2. Rounded(x) = q
    BY <1>2 DEF Rounded
  <2> HIDE DEF q
  <2>3. (2 * Unit) * q = 2 * (Unit * q) /\ Unit * q \in Int
    BY <1>1, <2>1
  <2> QED
    BY <1>1, <2>1, <2>2, <2>3
<1>3. CASE ~(x >= 0)
  <2> DEFINE q == (Unit - 2 * x) \div (2 * Unit)
  <2>1. /\ q \in Nat
        /\ (2 * Unit) * q <= Unit - 2 * x
        /\ Unit - 2 * x < (2 * Unit) * q + 2 * Unit
    <3>1. Unit - 2 * x \in Nat /\ 2 * Unit \in Nat \ {0}
      BY <1>1, <1>3
    <3> QED
      BY <3>1, Division
  <2>2. Rounded(x) = -q
    BY <1>3 DEF Rounded
  <2> HIDE DEF q
  <2>3. (2 * Unit) * q = 2 * (Unit * q) /\ Unit * (-q) = -(Unit * q) /\ Unit * q \in Int
    BY <1>1, <2>1
  <2> QED
    BY <1>1, <2>1, <2>2, <2>3
<1> QED
  BY <1>2, <1>3

-----------------------------------------------------------------------------
\* The induction needs the order of the three instants besides the bound, and
\* that the clock shows what it was set to while no time has passed.
JustSet == lastGlobal = setGlobal => lastLocal = setLocal

IInv == ClockTypeOK /\ ErrorBounded /\ JustSet

LEMMA InitIInv == ClockInit => IInv
<1> SUFFICES ASSUME ClockInit PROVE IInv
  OBVIOUS
<1>1. ClockTypeOK
  BY ClockAssumption DEF ClockInit, ClockTypeOK
<1>2. Error = 0
  <2>1. lastLocal - setLocal = 0 /\ lastGlobal - setGlobal = 0
    BY ClockAssumption DEF ClockInit
  <2> QED
    BY <2>1, ClockAssumption DEF Error
<1>3. Unit * reads = 0
  BY ClockAssumption DEF ClockInit
<1> QED
  BY <1>1, <1>2, <1>3 DEF IInv, ErrorBounded, JustSet, ClockInit

\* A reading adds the error of one rounding.
LEMMA ReadingError ==
  ASSUME IInv, GetLocalTime
  PROVE  /\ Elapsed \in Int
         /\ Error' = Error + (Unit * Rounded((now - lastGlobal) * Skew)
                              - (now - lastGlobal) * Skew)
<1> DEFINE e == now - lastGlobal
           r == Rounded(e * Skew)
           a == lastLocal - setLocal
           g == lastGlobal - setGlobal
<1>1. /\ Unit \in Int /\ Skew \in Int /\ e \in Int /\ e * Skew \in Int
      /\ a \in Int /\ g \in Int
  BY ClockAssumption DEF IInv, ClockTypeOK
<1>2. r \in Int
  BY <1>1, RoundedIsNear
<1>3. /\ lastLocal' - setLocal' = a + e + r
      /\ lastGlobal' - setGlobal' = g + e
  <2>1. lastLocal' = lastLocal + (e + r)
    BY DEF GetLocalTime, Elapsed
  <2> HIDE DEF r
  <2> QED
    BY <1>2, <2>1 DEF GetLocalTime, IInv, ClockTypeOK
<1>4. Error' = Unit * (a + e + r) - (Unit + Skew) * (g + e)
  BY <1>3 DEF Error
<1>5. Error = Unit * a - (Unit + Skew) * g
  BY DEF Error
<1>6. Elapsed = e + r
  BY DEF Elapsed
<1> HIDE DEF e, r, a, g
<1>7. /\ Unit * (a + e + r) = Unit * a + Unit * e + Unit * r
      /\ (Unit + Skew) * (g + e) = (Unit + Skew) * g + Unit * e + e * Skew
  BY <1>1, <1>2
<1>8. /\ Unit * a \in Int /\ Unit * e \in Int /\ Unit * r \in Int
      /\ (Unit + Skew) * g \in Int
  BY <1>1, <1>2
<1>9. Error' = Error + (Unit * r - e * Skew)
  BY <1>1, <1>4, <1>5, <1>7, <1>8
<1> QED
  BY <1>1, <1>2, <1>6, <1>9 DEF e, r

LEMMA GetLocalTimeIInv == IInv /\ GetLocalTime => IInv'
<1> SUFFICES ASSUME IInv, GetLocalTime PROVE IInv'
  OBVIOUS
<1> DEFINE x == (now - lastGlobal) * Skew
           step == Unit * Rounded(x) - x
<1>1. x \in Int
  BY ClockAssumption DEF IInv, ClockTypeOK
<1>2. step \in Int /\ 2 * step <= Unit /\ -Unit <= 2 * step
  <2> HIDE DEF x
  <2> QED
    BY <1>1, RoundedIsNear, ClockAssumption
<1>3. Error' = Error + step
  BY ReadingError
<1>4. Error \in Int
  BY ClockAssumption DEF Error, IInv, ClockTypeOK
<1>5. reads' = reads + 1 /\ Unit * reads' = Unit * reads + Unit /\ Unit * reads \in Int
  BY ClockAssumption DEF GetLocalTime, IInv, ClockTypeOK
<1>6. ClockTypeOK'
  BY ReadingError, ClockAssumption DEF GetLocalTime, IInv, ClockTypeOK
<1> HIDE DEF step
<1>7. ErrorBounded'
  BY <1>2, <1>3, <1>4, <1>5, ClockAssumption DEF IInv, ErrorBounded
<1>8. JustSet'
  <2> SUFFICES ASSUME lastGlobal' = setGlobal' PROVE lastLocal' = setLocal'
    BY DEF JustSet
  <2>1. now = lastGlobal /\ lastGlobal = setGlobal
    BY DEF GetLocalTime, IInv, ClockTypeOK
  <2>2. 0 \in Int /\ (now - lastGlobal) = 0 /\ (now - lastGlobal) * Skew = 0
    BY <2>1, ClockAssumption DEF IInv, ClockTypeOK
  <2>3. Rounded(0) \in Int /\ 2 * (Unit * Rounded(0)) <= Unit /\ -Unit <= 2 * (Unit * Rounded(0))
    BY RoundedIsNear, ClockAssumption
  <2>4. Rounded(0) = 0
    BY <2>3, ClockAssumption
  <2>5. Elapsed = 0
    BY <2>2, <2>4 DEF Elapsed
  <2> QED
    BY <2>1, <2>5 DEF GetLocalTime, IInv, JustSet, ClockTypeOK
<1> QED
  BY <1>6, <1>7, <1>8 DEF IInv

LEMMA SetLocalTimeIInv ==
  ASSUME IInv, NEW time \in Settings, SetLocalTime(time)
  PROVE  IInv'
<1>1. ClockTypeOK'
  BY ClockAssumption DEF SetLocalTime, IInv, ClockTypeOK
<1>2. /\ lastLocal' - setLocal' = 0 /\ lastGlobal' - setGlobal' = 0
      /\ Unit * reads' = 0
  BY ClockAssumption DEF SetLocalTime, IInv, ClockTypeOK
<1>3. Error' = 0
  BY <1>2, ClockAssumption DEF Error
<1> QED
  BY <1>1, <1>2, <1>3 DEF IInv, ErrorBounded, JustSet, SetLocalTime

LEMMA ClockIInv == IInv /\ (Tick \/ UNCHANGED clockVars) => IInv'
BY DEF Tick, clockVars, IInv, ClockTypeOK, ErrorBounded, Error, JustSet

-----------------------------------------------------------------------------
\* What a reading adds, with the facts of its rounding.
LEMMA ElapsedFacts ==
  ASSUME IInv, NEW e, e = now - lastGlobal, NEW r, r = Rounded(e * Skew)
  PROVE  /\ e \in Nat /\ r \in Int /\ Elapsed = e + r
         /\ Unit \in Nat /\ Unit > 0 /\ Skew \in Int /\ -Unit <= Skew
         /\ e * Skew \in Int /\ Unit * r \in Int /\ e * Unit \in Int
         /\ 2 * (Unit * r - e * Skew) <= Unit /\ -Unit <= 2 * (Unit * r - e * Skew)
         /\ Unit * (e + r) = e * Unit + Unit * r
<1>1. /\ e \in Nat /\ Skew \in Int /\ Unit \in Nat /\ Unit > 0 /\ -Unit <= Skew
      /\ e * Skew \in Int
  BY ClockAssumption DEF IInv, ClockTypeOK
<1>2. r \in Int /\ 2 * (Unit * r - e * Skew) <= Unit /\ -Unit <= 2 * (Unit * r - e * Skew)
  BY <1>1, RoundedIsNear
<1>3. Elapsed = e + r
  BY DEF Elapsed
<1>4. Unit * r \in Int /\ e * Unit \in Int /\ Unit * (e + r) = e * Unit + Unit * r
  BY <1>1, <1>2
<1> QED
  BY <1>1, <1>2, <1>3, <1>4

\* A clock that is not slower than standing still does not go back.
LEMMA ElapsedIsNat ==
  ASSUME IInv
  PROVE  Elapsed \in Nat
<1> PICK e : e = now - lastGlobal
  OBVIOUS
<1> PICK r : r = Rounded(e * Skew)
  OBVIOUS
<1>1. /\ e \in Nat /\ r \in Int /\ Elapsed = e + r
      /\ Unit \in Nat /\ Unit > 0 /\ Skew \in Int /\ -Unit <= Skew
      /\ e * Skew \in Int /\ Unit * r \in Int /\ e * Unit \in Int
      /\ -Unit <= 2 * (Unit * r - e * Skew)
      /\ Unit * (e + r) = e * Unit + Unit * r
  BY ElapsedFacts
<1>2. e * Skew >= -(e * Unit)
  <2>1. e * (Skew + Unit) >= 0 /\ e * (Skew + Unit) = e * Skew + e * Unit
    BY <1>1
  <2> QED
    BY <1>1, <2>1
<1>3. 2 * (Unit * (e + r)) >= -Unit
  BY <1>1, <1>2
<1>4. ~(e + r <= -1)
  <2> SUFFICES ASSUME e + r <= -1 PROVE FALSE
    OBVIOUS
  <2>1. Unit * (e + r) <= -Unit
    BY <1>1
  <2> QED
    BY <1>1, <1>3, <2>1
<1> QED
  BY <1>1, <1>4

\* A clock that is not fast gains no more than the time that has passed.
LEMMA SlowClock ==
  ASSUME IInv, Skew <= 0
  PROVE  Elapsed <= now - lastGlobal
<1> PICK e : e = now - lastGlobal
  OBVIOUS
<1> PICK r : r = Rounded(e * Skew)
  OBVIOUS
<1>1. /\ e \in Nat /\ r \in Int /\ Elapsed = e + r
      /\ Unit \in Nat /\ Unit > 0 /\ Skew \in Int
      /\ e * Skew \in Int /\ Unit * r \in Int
      /\ 2 * (Unit * r - e * Skew) <= Unit
  BY ElapsedFacts
<1>2. e * Skew <= 0
  BY <1>1
<1>3. 2 * (Unit * r) <= Unit
  BY <1>1, <1>2
<1>4. ~(r >= 1)
  <2> SUFFICES ASSUME r >= 1 PROVE FALSE
    OBVIOUS
  <2>1. Unit * r >= Unit
    BY <1>1
  <2> QED
    BY <1>1, <1>3, <2>1
<1> QED
  BY <1>1, <1>4

\* A clock that runs at more than half the rate moves whenever time does, in
\* spite of the rounding.
LEMMA RunningClock ==
  ASSUME IInv, -Unit < 2 * Skew, lastGlobal < now
  PROVE  Elapsed > 0
<1> PICK e : e = now - lastGlobal
  OBVIOUS
<1> PICK r : r = Rounded(e * Skew)
  OBVIOUS
<1>1. /\ e \in Nat /\ r \in Int /\ Elapsed = e + r
      /\ Unit \in Nat /\ Unit > 0 /\ Skew \in Int
      /\ e * Skew \in Int /\ Unit * r \in Int /\ e * Unit \in Int
      /\ -Unit <= 2 * (Unit * r - e * Skew)
      /\ Unit * (e + r) = e * Unit + Unit * r
  BY ElapsedFacts
<1>2. e >= 1
  BY <1>1 DEF IInv, ClockTypeOK
<1>3. 2 * (e * Skew) >= e - e * Unit
  <2>1. e * (2 * Skew + Unit - 1) >= 0
    <3>1. PICK k \in Nat : k = 2 * Skew + Unit - 1
      BY <1>1
    <3>2. e * k >= 0
      BY <1>1
    <3> QED
      BY <3>1, <3>2
  <2>2. e * (2 * Skew + Unit - 1) = 2 * (e * Skew) + e * Unit - e
    BY <1>1
  <2> QED
    BY <1>1, <2>1, <2>2
<1>4. e * Unit >= Unit
  BY <1>1, <1>2
<1>5. 2 * (Unit * (e + r)) > 0
  BY <1>1, <1>2, <1>3, <1>4
<1>6. ~(e + r <= 0)
  <2> SUFFICES ASSUME e + r <= 0 PROVE FALSE
    OBVIOUS
  <2>1. Unit * (e + r) <= 0
    BY <1>1
  <2> QED
    BY <1>1, <1>5, <2>1
<1> QED
  BY <1>1, <1>6

-----------------------------------------------------------------------------
\* The bound and the order of the instants hold at every reading.
THEOREM ClockInvariance == ClockSpec => []IInv
<1>1. IInv /\ [ClockNext]_clockVars => IInv'
  BY GetLocalTimeIInv, SetLocalTimeIInv, ClockIInv DEF ClockNext
<1> QED
  BY <1>1, InitIInv, PTL DEF ClockSpec

\* The clock is never read before it was set, nor in the future.
THEOREM ClockTypeCorrect == ClockSpec => []ClockTypeOK
BY ClockInvariance, PTL DEF IInv

\* GetLocalTime is off by at most half a nanosecond per reading, for any skew.
THEOREM ErrorBoundedHolds == ClockSpec => []ErrorBounded
BY ClockInvariance, PTL DEF IInv

\* Between two calls of SetLocalTime the clock of a node never goes back.
THEOREM NeverBackHolds == ClockSpec => NeverBack
<1>1. ASSUME IInv, GetLocalTime
      PROVE  lastLocal' >= lastLocal
  BY <1>1, ElapsedIsNat DEF GetLocalTime, IInv, ClockTypeOK
<1>2. IInv /\ [ClockNext]_clockVars =>
        [<<setGlobal, setLocal>>' = <<setGlobal, setLocal>> => lastLocal' >= lastLocal]_clockVars
  <2> SUFFICES ASSUME IInv, ClockNext, <<setGlobal, setLocal>>' = <<setGlobal, setLocal>>
               PROVE  lastLocal' >= lastLocal
    BY DEF clockVars
  <2>1. CASE Tick
    BY <2>1 DEF Tick, IInv, ClockTypeOK
  <2>2. ASSUME NEW time \in Settings, SetLocalTime(time)
        PROVE  lastLocal' >= lastLocal
    <3>1. now = setGlobal /\ lastLocal' = setLocal
      BY <2>2 DEF SetLocalTime
    <3>2. lastGlobal = setGlobal
      BY <3>1 DEF IInv, ClockTypeOK
    <3> QED
      BY <3>1, <3>2 DEF IInv, JustSet, ClockTypeOK
  <2> QED
    BY <1>1, <2>1, <2>2 DEF ClockNext
<1> QED
  BY <1>2, ClockInvariance, PTL DEF ClockSpec, NeverBack

-----------------------------------------------------------------------------
(***************************************************************************)
(* Least and greatest members.                                             *)
(***************************************************************************)
LEMMA EarliestIsLeast ==
  ASSUME NEW S \in SUBSET Int, S # {}, NEW b \in Int, \A s \in S : b <= s
  PROVE  EarliestOf(S) \in S /\ \A s \in S : EarliestOf(S) <= s
<1> DEFINE T == {s - b : s \in S}
<1>1. T \in SUBSET Nat /\ T # {}
  <2>1. ASSUME NEW s \in S
        PROVE  s \in Int /\ s - b \in Nat
    <3>1. s \in Int
      OBVIOUS
    <3> QED
      BY <3>1
  <2>2. \A s \in S : s - b \in T
    OBVIOUS
  <2>3. \A t \in T : \E s \in S : t = s - b
    OBVIOUS
  <2> QED
    BY <2>1, <2>2, <2>3
<1> HIDE DEF T
<1>2. PICK t \in T : \A u \in T : t <= u
  BY <1>1, SetHasMin
<1>3. PICK x \in S : t = x - b
  BY DEF T
<1>4. \A s \in S : s - b \in T
  BY DEF T
<1>5. \A s \in S : x <= s
  BY <1>2, <1>3, <1>4
<1> QED
  BY <1>5 DEF EarliestOf

LEMMA LatestIsGreatest ==
  ASSUME NEW S \in SUBSET Int, S # {}, NEW b \in Int, \A s \in S : s <= b
  PROVE  LatestOf(S) \in S /\ \A s \in S : s <= LatestOf(S)
<1> DEFINE T == {b - s : s \in S}
<1>1. T \in SUBSET Nat /\ T # {}
  <2>1. ASSUME NEW s \in S
        PROVE  s \in Int /\ b - s \in Nat
    <3>1. s \in Int
      OBVIOUS
    <3> QED
      BY <3>1
  <2>2. \A s \in S : b - s \in T
    OBVIOUS
  <2>3. \A t \in T : \E s \in S : t = b - s
    OBVIOUS
  <2> QED
    BY <2>1, <2>2, <2>3
<1> HIDE DEF T
<1>2. PICK t \in T : \A u \in T : t <= u
  BY <1>1, SetHasMin
<1>3. PICK x \in S : t = b - x
  BY DEF T
<1>4. \A s \in S : b - s \in T
  BY DEF T
<1>5. \A s \in S : s <= x
  BY <1>2, <1>3, <1>4
<1> QED
  BY <1>5 DEF LatestOf

-----------------------------------------------------------------------------
(***************************************************************************)
(* The invariant.                                                          *)
(***************************************************************************)
\* What the last reading of the clock was behind the simulator's.
Behind == lastGlobal - lastLocal

\* A control message takes this long, from its start to that of the next one.
Turn == TxControl + PacketProcessing + ControlFrameGap

\* The device knows a timeslot that lies ahead, and none beyond its schedule.
Span == R + (R + D) * (ScheduleSize - 1)

SlotsOK == \A s \in slots : 0 <= s /\ s <= lastLocal + Span

\* Nothing is late: the clock of the simulator passes no event.
Timely ==
  /\ \A t \in timers : now <= t.at
  /\ data_until # None => now <= data_until
  /\ now <= reconfigure /\ reconfigure <= now + R + D
  /\ sending # Idle =>
       /\ sending.msg # None
       /\ sending.start <= now + PacketProcessing
       /\ ~sending.launched => now <= sending.start
       /\ sending.launched => sending.start <= now /\ now <= ControlDone
  /\ queue # <<>> => sending # Idle

\* Only messages that were handed to Send are sent or have timers.
Known ==
  /\ \A t \in timers : duration[t.msg] # None
  /\ \A b \in left : duration[b.msg] # None
  /\ \A m \in Message : sent_table[m] # None => duration[m] # None

TInv ==
  /\ IInv
  /\ TypeOK
  /\ 0 <= lastLocal /\ R <= next_transmit
  /\ SlotsOK /\ Timely /\ Known

LEMMA Constants ==
  /\ PacketProcessing \in Nat /\ ControlFrameGap \in Nat /\ DataFrameGap \in Nat
  /\ PacketDelay \in Nat /\ TotalPropagation \in Nat /\ OpticalProcessing \in Nat
  /\ FibreDelay \in Nat /\ QueueSize \in Nat
  /\ TxControl \in Nat /\ TxControl > 0 /\ R \in Nat /\ R > 0 /\ D \in Nat /\ D > 0
  /\ ScheduleSize \in Nat /\ ScheduleSize > 0
  /\ \A d \in Durations : d \in Nat /\ d > 0 /\ d # None
  /\ MaxMessages \in Nat /\ MaxAnswers \in Nat /\ MaxTries \in Nat
  /\ Span \in Nat /\ R <= Span
<1>1. /\ R \in Nat /\ R > 0 /\ D \in Nat /\ D > 0 /\ ScheduleSize \in Nat /\ ScheduleSize > 0
  BY TimingAssumption
<1>2. (R + D) * (ScheduleSize - 1) \in Nat
  <2>1. PICK k \in Nat : k = ScheduleSize - 1
    BY <1>1
  <2>2. PICK j \in Nat : j = R + D
    BY <1>1
  <2>3. j * k \in Nat
    BY <2>1, <2>2
  <2> QED
    BY <2>1, <2>2, <2>3
<1>3. Span \in Nat /\ R <= Span
  BY <1>1, <1>2 DEF Span
<1> QED
  BY <1>1, <1>3, TimingAssumption DEF None

LEMMA MessageType ==
  ASSUME NEW m \in Message
  PROVE  m \in Int /\ m # None /\ m # Answer
BY Constants DEF Message, None, Answer

LEMMA SlotsFacts ==
  ASSUME TInv
  PROVE  /\ EarliestOf(slots) \in slots /\ EarliestOf(slots) \in Int
         /\ \A s \in slots : EarliestOf(slots) <= s
         /\ LatestOf(slots) \in slots /\ LatestOf(slots) \in Int
         /\ \A s \in slots : s <= LatestOf(slots)
<1>1. slots \in SUBSET Int /\ slots # {} /\ lastLocal \in Int
  BY DEF TInv, TypeOK, ClockTypeOK
<1>2. \A s \in slots : 0 <= s /\ s <= lastLocal + Span
  BY DEF TInv, SlotsOK
<1>3. lastLocal + Span \in Int
  BY <1>1, Constants
<1>4. EarliestOf(slots) \in slots /\ \A s \in slots : EarliestOf(slots) <= s
  BY <1>1, <1>2, EarliestIsLeast
<1>5. LatestOf(slots) \in slots /\ \A s \in slots : s <= LatestOf(slots)
  BY <1>1, <1>2, <1>3, LatestIsGreatest
<1> QED
  BY <1>1, <1>4, <1>5

-----------------------------------------------------------------------------
(***************************************************************************)
(* Planning a burst.                                                       *)
(***************************************************************************)
DataTimer(m, send, at, h) ==
  [fn |-> "data", msg |-> m, send |-> send, at |-> at, horizon |-> h]
CheckTimer(m, send, at, h) ==
  [fn |-> "check", msg |-> m, send |-> send, at |-> at, horizon |-> h]

\* The events that are not those of m's entry.
Rest(m) == {t \in timers : t.msg # m \/ t.send # sent_table[m]}

\* A burst of length d planned for send waits for a timeslot, or is over before
\* the next reconfiguration, or starts after it.
Uncut(send, d) ==
  \/ send \in slots
  \/ \A s \in slots : send + d + TotalPropagation < s - R \/ s <= send + d + TotalPropagation

\* What Send, CheckSent and a NACK do when they plan a burst.
PlanStep(m, d, send, at, check, h) ==
  /\ GetLocalTime
  /\ at = now + (send - Local) /\ at <= check
  /\ Estimate <= send /\ next_transmit <= send
  /\ Uncut(send, d) /\ h = LatestOf(slots)
  /\ next_transmit' = NextTransmit(send, d)
  /\ tries[m] < MaxTries /\ tries' = [tries EXCEPT ![m] = @ + 1]
  /\ duration' = [duration EXCEPT ![m] = d]
  /\ \/ duration[m] = None
     \/ duration[m] = d /\ sent_table[m] # None
  /\ \/ /\ sent_table' = [sent_table EXCEPT ![m] = None]
        /\ timers' \subseteq Rest(m)
        /\ UNCHANGED controlVars
     \/ /\ sent_table' = [sent_table EXCEPT ![m] = send]
        /\ timers' \subseteq
             Rest(m) \cup {DataTimer(m, send, at, h), CheckTimer(m, send, check, h)}
        /\ ~Full /\ Enqueue([msg |-> m, send |-> send])
  /\ UNCHANGED <<slotVars, data_until, answers, entered, left>>

LEMMA TransmitTimeFacts ==
  ASSUME TInv, NEW d \in Durations
  PROVE  /\ TransmitTime(d) \in Int
         /\ Estimate <= TransmitTime(d) /\ next_transmit <= TransmitTime(d)
         /\ Uncut(TransmitTime(d), d)
<1>1. /\ Estimate \in Int /\ next_transmit \in Int /\ slots \subseteq Int
      /\ d \in Nat /\ TotalPropagation \in Nat /\ R \in Nat
  <2>1. Local \in Int
    BY ElapsedIsNat DEF TInv, IInv, ClockTypeOK, Local
  <2>2. Backlog \in Nat
    BY DEF Backlog, TInv, TypeOK
  <2>3. (TxControl + PacketProcessing + ControlFrameGap) * Backlog \in Int
    BY <2>2, Constants
  <2> QED
    BY <2>1, <2>3, Constants DEF Estimate, TInv, TypeOK
<1>2. Earliest \in Int /\ Estimate <= Earliest /\ next_transmit <= Earliest
  BY <1>1 DEF Earliest
<1>3. CASE Cut(d) = {}
  <2>1. TransmitTime(d) = Earliest
    BY <1>3 DEF TransmitTime
  <2>2. ASSUME NEW s \in slots
        PROVE  Earliest + d + TotalPropagation < s - R \/ s <= Earliest + d + TotalPropagation
    BY <1>1, <1>2, <1>3 DEF Cut
  <2> QED
    BY <1>2, <2>1, <2>2 DEF Uncut
<1>4. CASE Cut(d) # {}
  <2>1. Cut(d) \subseteq slots /\ Cut(d) \in SUBSET Int
    BY <1>1 DEF Cut
  <2>2. ASSUME NEW s \in Cut(d)
        PROVE  Earliest <= s
    <3>1. s \in Int /\ Earliest + d + TotalPropagation < s
      BY <1>1, <2>1 DEF Cut
    <3> QED
      BY <1>1, <1>2, <3>1
  <2>3. EarliestOf(Cut(d)) \in Cut(d)
    BY <1>2, <1>4, <2>1, <2>2, EarliestIsLeast
  <2>4. TransmitTime(d) = EarliestOf(Cut(d))
    BY <1>4 DEF TransmitTime
  <2> QED
    BY <1>1, <1>2, <2>1, <2>2, <2>3, <2>4 DEF Uncut
<1> QED
  BY <1>3, <1>4

LEMMA InternalSendPlans ==
  ASSUME TInv, NEW m \in Message, NEW d \in Durations,
         NEW table, table = [sent_table EXCEPT ![m] = None],
         NEW rest, rest \subseteq Rest(m),
         duration[m] = None \/ (duration[m] = d /\ sent_table[m] # None),
         duration' = [duration EXCEPT ![m] = d],
         InternalSend(m, d, table, rest),
         UNCHANGED <<slotVars, data_until, answers, entered, left>>
  PROVE  \E send, at, check, h \in Int : PlanStep(m, d, send, at, check, h)
<1> PICK send : send = TransmitTime(d)
  OBVIOUS
<1> PICK at : at = now + (send - Local)
  OBVIOUS
<1> PICK check : check = at + d + TotalPropagation + OpticalProcessing + PacketDelay
                           + PacketProcessing + 1
  OBVIOUS
<1> PICK h : h = LatestOf(slots)
  OBVIOUS
<1>1. send \in Int /\ Estimate <= send /\ next_transmit <= send /\ Uncut(send, d)
  BY TransmitTimeFacts
<1>2. at \in Int /\ check \in Int /\ at <= check /\ h \in Int
  <2>1. Local \in Int /\ now \in Int
    BY ElapsedIsNat DEF TInv, IInv, ClockTypeOK, Local
  <2> QED
    BY <1>1, <2>1, SlotsFacts, Constants
<1>3. /\ tries[m] < MaxTries /\ GetLocalTime
      /\ tries' = [tries EXCEPT ![m] = @ + 1]
      /\ next_transmit' = NextTransmit(send, d)
      /\ \/ /\ sent_table' = table /\ timers' = rest
            /\ UNCHANGED controlVars
         \/ /\ ~Full /\ Enqueue([msg |-> m, send |-> send])
            /\ sent_table' = [table EXCEPT ![m] = send]
            /\ timers' = rest \cup {DataTimer(m, send, at, h), CheckTimer(m, send, check, h)}
  BY DEF InternalSend, DataTimer, CheckTimer
<1>4. [table EXCEPT ![m] = send] = [sent_table EXCEPT ![m] = send]
  BY DEF TInv, TypeOK
<1>5. \/ /\ sent_table' = [sent_table EXCEPT ![m] = None]
         /\ timers' \subseteq Rest(m)
         /\ UNCHANGED controlVars
      \/ /\ sent_table' = [sent_table EXCEPT ![m] = send]
         /\ timers' \subseteq
              Rest(m) \cup {DataTimer(m, send, at, h), CheckTimer(m, send, check, h)}
         /\ ~Full /\ Enqueue([msg |-> m, send |-> send])
  BY <1>3, <1>4
<1>6. PlanStep(m, d, send, at, check, h)
  BY <1>1, <1>2, <1>3, <1>5 DEF PlanStep
<1> QED
  BY <1>1, <1>2, <1>6

\* A step of the three handlers that plans, of any of them.
Plans ==
  \E m \in Message, d \in Durations, send, at, check, h \in Int :
    PlanStep(m, d, send, at, check, h)

LEMMA SendPlans ==
  ASSUME TInv, NEW m \in Message, NEW d \in Durations, Send(m, d)
  PROVE  Plans
<1> PICK table : table = sent_table
  OBVIOUS
<1> PICK rest : rest = timers
  OBVIOUS
<1>1. /\ duration[m] = None /\ duration' = [duration EXCEPT ![m] = d]
      /\ InternalSend(m, d, table, rest)
      /\ UNCHANGED <<slotVars, data_until, answers, entered, left>>
  BY DEF Send
<1>2. sent_table[m] = None
  BY <1>1 DEF TInv, Known
<1>3. table = [sent_table EXCEPT ![m] = None]
  BY <1>2 DEF TInv, TypeOK
<1>4. rest \subseteq Rest(m)
  BY <1>1 DEF Rest, TInv, Known
<1> QED
  BY <1>1, <1>3, <1>4, InternalSendPlans DEF Plans

\* The duration of a message that was sent.
LEMMA KnownDuration ==
  ASSUME TInv, NEW m \in Message, duration[m] # None
  PROVE  duration[m] \in Durations
BY DEF TInv, TypeOK

LEMMA RepeatPlans ==
  ASSUME TInv, NEW m \in Message, sent_table[m] # None,
         NEW table, table = [sent_table EXCEPT ![m] = None],
         NEW rest, rest \subseteq Rest(m),
         InternalSend(m, duration[m], table, rest),
         UNCHANGED <<slotVars, data_until, duration, answers, entered, left>>
  PROVE  Plans
<1> PICK d : d = duration[m]
  OBVIOUS
<1>1. d \in Durations
  BY KnownDuration DEF TInv, Known
<1>2. duration' = [duration EXCEPT ![m] = d] /\ duration[m] = d
  BY DEF TInv, TypeOK
<1>3. InternalSend(m, d, table, rest)
  OBVIOUS
<1>4. UNCHANGED <<slotVars, data_until, answers, entered, left>>
  OBVIOUS
<1> QED
  BY <1>1, <1>2, <1>3, <1>4, InternalSendPlans DEF Plans

LEMMA ReceiveNACKPlans ==
  ASSUME TInv, NEW m \in Message, ReceiveNACK(m)
  PROVE  Plans
<1> PICK table : table = [sent_table EXCEPT ![m] = None]
  OBVIOUS
<1> PICK rest : rest = Others(m)
  OBVIOUS
<1>1. /\ sent_table[m] # None
      /\ InternalSend(m, duration[m], table, rest)
      /\ UNCHANGED <<slotVars, data_until, duration, answers, entered, left>>
  BY DEF ReceiveNACK
<1>2. rest \subseteq Rest(m)
  BY DEF Rest, Others
<1> QED
  BY <1>1, <1>2, RepeatPlans

\* CheckSent plans when the entry is still there.
LEMMA CheckSentPlans ==
  ASSUME TInv, CheckSent
  PROVE  \/ Plans
         \/ /\ timers' \subseteq timers
            /\ UNCHANGED <<clockVars, slotVars, next_transmit, controlVars, data_until,
                           duration, sent_table, tries, answers, entered, left>>
<1>1. PICK t \in timers :
        /\ IF sent_table[t.msg] = None
           THEN /\ timers' = timers \ {t}
                /\ UNCHANGED <<clockVars, next_transmit, controlVars, sent_table, tries>>
           ELSE InternalSend(t.msg, duration[t.msg], [sent_table EXCEPT ![t.msg] = None],
                             Others(t.msg) \ {t})
        /\ UNCHANGED <<slotVars, data_until, duration, answers, entered, left>>
  BY DEF CheckSent
<1>2. CASE sent_table[t.msg] = None
  BY <1>1, <1>2
<1>3. CASE sent_table[t.msg] # None
  <2>1. PICK m \in Message : m = t.msg
    BY DEF TInv, TypeOK, Timer
  <2> PICK table : table = [sent_table EXCEPT ![m] = None]
    OBVIOUS
  <2> PICK rest : rest = Others(m) \ {t}
    OBVIOUS
  <2>2. InternalSend(m, duration[m], table, rest) /\ sent_table[m] # None
    BY <1>1, <1>3, <2>1
  <2>3. rest \subseteq Rest(m)
    BY DEF Rest, Others
  <2>4. UNCHANGED <<slotVars, data_until, duration, answers, entered, left>>
    BY <1>1
  <2> QED
    BY <2>2, <2>3, <2>4, RepeatPlans
<1> QED
  BY <1>2, <1>3

-----------------------------------------------------------------------------
(***************************************************************************)
(* The clock, and the control messages in their queue.                     *)
(***************************************************************************)
\* A reading moves the clock forward and leaves the simulator's.
LEMMA ReadingFacts ==
  ASSUME TInv, GetLocalTime
  PROVE  /\ now' = now /\ lastGlobal' = now /\ lastLocal' = Local
         /\ lastLocal <= lastLocal' /\ lastLocal \in Int /\ lastLocal' \in Int
         /\ now \in Nat /\ lastGlobal \in Nat /\ lastGlobal <= now
         /\ IInv'
<1>1. Elapsed \in Nat
  BY ElapsedIsNat DEF TInv
<1>2. IInv'
  BY GetLocalTimeIInv DEF TInv
<1> QED
  BY <1>1, <1>2 DEF GetLocalTime, Local, TInv, IInv, ClockTypeOK

LEMMA TurnFacts ==
  ASSUME TInv
  PROVE  /\ Turn \in Nat /\ Turn > 0 /\ Backlog \in Nat /\ Turn * Backlog \in Nat
         /\ Estimate = Local + PacketProcessing + PacketDelay + Turn * Backlog
<1>1. Turn \in Nat /\ Turn > 0
  BY Constants DEF Turn
<1>2. Backlog \in Nat
  BY DEF Backlog, TInv, TypeOK
<1>3. Turn * Backlog \in Nat
  BY <1>1, <1>2
<1> QED
  BY <1>1, <1>2, <1>3 DEF Estimate, Turn

\* The burst leaves so late that its control message and all those ahead of it
\* have the time they need.
LEMMA PlanTimes ==
  ASSUME TInv, NEW m \in Message, NEW d \in Durations, NEW send \in Int, NEW at \in Int,
         NEW check \in Int, NEW h \in Int, PlanStep(m, d, send, at, check, h)
  PROVE  /\ now + PacketProcessing + PacketDelay + Turn * Backlog <= at
         /\ at = send + Behind' /\ Behind' \in Int
<1>1. Estimate <= send /\ at = now + (send - Local) /\ GetLocalTime
  BY DEF PlanStep
<1>2. /\ now' = now /\ lastGlobal' = now /\ lastLocal' = Local
      /\ lastLocal' \in Int /\ now \in Nat
  BY <1>1, ReadingFacts
<1>3. Behind' = now - Local
  BY <1>2 DEF Behind
<1> QED
  BY <1>1, <1>2, <1>3, TurnFacts, Constants

\* A slow clock falls behind more and more.
LEMMA BehindGrows ==
  ASSUME TInv, Skew <= 0, GetLocalTime
  PROVE  Behind <= Behind' /\ Behind \in Int /\ Behind' \in Int
<1>1. Elapsed <= now - lastGlobal /\ Elapsed \in Nat
  BY SlowClock, ElapsedIsNat DEF TInv
<1> QED
  BY <1>1, ReadingFacts DEF Behind, Local

LEMMA StartedType ==
  ASSUME TInv, NEW c \in Control
  PROVE  Started(c) \in Transmission /\ Started(c) # Idle
<1>1. c.msg \in Message \cup {Answer} /\ c.send \in Int /\ now + PacketProcessing \in Int
  BY Constants DEF Control, TInv, IInv, ClockTypeOK
<1>2. c.msg # None
  BY <1>1, MessageType DEF Answer, None
<1>3. Started(c).msg = c.msg /\ Idle.msg = None
  BY DEF Started, Idle
<1> QED
  BY <1>1, <1>2, <1>3 DEF Started, Transmission

LEMMA EnqueueFacts ==
  ASSUME TInv, NEW c \in Control, ~Full, Enqueue(c)
  PROVE  /\ queue' \in Seq(Control) /\ Len(queue') <= QueueSize
         /\ sending' \in Transmission
         /\ \/ sending = Idle /\ queue = <<>> /\ queue' = <<>> /\ sending' = Started(c)
            \/ sending # Idle /\ sending' = sending /\ queue' = Append(queue, c)
<1>1. /\ queue \in Seq(Control) /\ sending \in Transmission /\ QueueSize \in Nat
      /\ Len(queue) \in Nat
  BY Constants, LenProperties DEF TInv, TypeOK
<1>2. Len(queue) + 1 <= QueueSize
  BY <1>1 DEF Full
<1>3. CASE sending = Idle
  <2>1. queue = <<>>
    BY <1>3 DEF TInv, Timely
  <2>2. sending' = Started(Head(Append(queue, c))) /\ queue' = Tail(Append(queue, c))
    BY <1>3 DEF Enqueue
  <2>3. Append(<<>>, c) = <<c>> /\ Head(<<c>>) = c /\ Tail(<<c>>) = <<>>
    BY HeadTailProperties
  <2>4. sending' = Started(c) /\ queue' = <<>>
    BY <2>1, <2>2, <2>3
  <2>5. <<>> \in Seq(Control) /\ Len(<<>>) = 0
    OBVIOUS
  <2> QED
    BY <1>1, <1>3, <2>1, <2>4, <2>5, StartedType
<1>4. CASE sending # Idle
  <2>1. sending' = sending /\ queue' = Append(queue, c)
    BY <1>4 DEF Enqueue
  <2>2. Append(queue, c) \in Seq(Control) /\ Len(Append(queue, c)) = Len(queue) + 1
    BY <1>1, AppendProperties
  <2> QED
    BY <1>1, <1>2, <1>4, <2>1, <2>2
<1> QED
  BY <1>3, <1>4

\* What Timely says of the control messages.
ControlTimely ==
  /\ sending # Idle =>
       /\ sending.msg # None
       /\ sending.start <= now + PacketProcessing
       /\ ~sending.launched => now <= sending.start
       /\ sending.launched => sending.start <= now /\ now <= ControlDone
  /\ queue # <<>> => sending # Idle

LEMMA StartedTimely ==
  ASSUME TInv, NEW c \in Control, now' = now, sending' = Started(c)
  PROVE  ControlTimely'
<1>1. c.msg \in Message \cup {Answer} /\ now \in Int /\ PacketProcessing \in Nat
  BY Constants DEF Control, TInv, IInv, ClockTypeOK
<1>2. c.msg # None
  BY <1>1, MessageType DEF Answer, None
<1>3. /\ sending'.msg = c.msg /\ sending'.start = now + PacketProcessing
      /\ sending'.launched = FALSE
  BY DEF Started
<1>4. sending' # Idle
  BY StartedType
<1> QED
  BY <1>1, <1>2, <1>3, <1>4 DEF ControlTimely

LEMMA EnqueueTimely ==
  ASSUME TInv, NEW c \in Control, ~Full, Enqueue(c), now' = now
  PROVE  ControlTimely'
<1>1. CASE sending' = Started(c)
  BY <1>1, StartedTimely
<1>2. CASE sending # Idle /\ sending' = sending
  BY <1>2 DEF ControlTimely, TInv, Timely, ControlDone
<1> QED
  BY <1>1, <1>2, EnqueueFacts

-----------------------------------------------------------------------------
(***************************************************************************)
(* The invariant is kept.                                                  *)
(***************************************************************************)
LEMMA InitTInv == Init => TInv
<1> SUFFICES ASSUME Init PROVE TInv
  OBVIOUS
<1>1. /\ now = 0 /\ lastGlobal = 0 /\ lastLocal = 0 /\ setGlobal = 0 /\ setLocal = 0
      /\ reads = 1
  BY DEF Init
<1>2. IInv
  <2>1. ClockTypeOK
    BY <1>1, ClockAssumption, TimingAssumption DEF ClockTypeOK
  <2>2. Error = 0
    BY <1>1, ClockAssumption DEF Error
  <2>3. Unit * reads = Unit /\ Unit \in Nat
    BY <1>1, ClockAssumption
  <2> QED
    BY <1>1, <2>1, <2>2, <2>3 DEF IInv, ErrorBounded, JustSet
<1>3. PICK S \in Nat : S = ScheduleSize - 1
  BY Constants
<1>4. \A k \in 0..S : k * (R + D) \in Nat /\ k * (R + D) <= (R + D) * S
  <2> SUFFICES ASSUME NEW k \in 0..S PROVE k * (R + D) \in Nat /\ k * (R + D) <= (R + D) * S
    OBVIOUS
  <2>1. PICK p \in Nat : p = R + D
    BY Constants
  <2>2. PICK j \in Nat : S = k + j
    <3>1. S - k \in Nat /\ S = k + (S - k)
      BY <1>3
    <3> QED
      BY <3>1
  <2>3. p * S = k * p + p * j /\ p * j \in Nat /\ k * p \in Nat
    BY <2>1, <2>2
  <2> QED
    BY <2>1, <2>3
<1>5. slots = {R + k * (R + D) : k \in 0..S} /\ Span = R + (R + D) * S
  BY <1>3 DEF Init, Span
<1>6. \A s \in slots : s \in Int /\ 0 <= s /\ s <= lastLocal + Span
  <2> SUFFICES ASSUME NEW s \in slots PROVE s \in Int /\ 0 <= s /\ s <= lastLocal + Span
    OBVIOUS
  <2>1. PICK k \in 0..S : s = R + k * (R + D)
    BY <1>5
  <2>2. PICK p : p = k * (R + D)
    OBVIOUS
  <2>3. PICK q : q = (R + D) * S
    OBVIOUS
  <2>4. p \in Nat /\ p <= q
    BY <1>4, <2>2, <2>3
  <2>5. s = R + p /\ Span = R + q /\ R \in Nat /\ Span \in Nat
    BY <1>5, <2>1, <2>2, <2>3, Constants
  <2>6. s \in Int /\ 0 <= s /\ s <= Span
    <3>1. q \in Int
      <4>1. R + D \in Nat /\ S \in Nat
        BY Constants
      <4> QED
        BY <2>3, <4>1
    <3> QED
      BY <2>4, <2>5, <3>1
  <2> QED
    BY <1>1, <2>5, <2>6
<1>7. slots # {}
  <2>1. 0 \in 0..S
    BY <1>3
  <2>2. R + 0 * (R + D) \in slots
    BY <1>5, <2>1
  <2> QED
    BY <2>2
<1>8. Idle \in Transmission
  BY DEF Idle, Transmission, None
<1>9. TypeOK
  <2>1. ClockTypeOK
    BY <1>2 DEF IInv
  <2>2. reconfigure \in Nat /\ next_transmit \in Int /\ answers \in 0..MaxAnswers
    BY Constants DEF Init
  <2>3. queue \in Seq(Control) /\ Len(queue) <= QueueSize
    BY Constants DEF Init
  <2>4. /\ duration \in [Message -> Durations \cup {None}]
        /\ sent_table \in [Message -> Int] /\ tries \in [Message -> 0..MaxTries]
    BY Constants DEF Init, None
  <2>5. sending \in Transmission /\ data_until \in Nat \cup {None}
    BY <1>8 DEF Init
  <2>6. timers \subseteq Timer /\ entered \subseteq Entered /\ left \subseteq Left
    BY DEF Init
  <2> QED
    BY <1>6, <1>7, <2>1, <2>2, <2>3, <2>4, <2>5, <2>6 DEF TypeOK
<1>10. Timely /\ Known
  BY Constants DEF Init, Timely, Known
<1>11. 0 <= lastLocal /\ R <= next_transmit
  BY Constants DEF Init
<1>12. SlotsOK
  BY <1>6 DEF SlotsOK
<1> QED
  BY <1>2, <1>9, <1>10, <1>11, <1>12 DEF TInv

LEMMA PlanTypes ==
  ASSUME TInv, NEW m \in Message, NEW d \in Durations, NEW send \in Int, NEW at \in Int,
         NEW check \in Int, NEW h \in Int, PlanStep(m, d, send, at, check, h)
  PROVE  TypeOK'
<1>1. ClockTypeOK'
  BY ReadingFacts DEF PlanStep, IInv
<1>2. /\ slots' \subseteq Int /\ slots' # {} /\ reconfigure' \in Nat
      /\ data_until' \in Nat \cup {None} /\ answers' \in 0..MaxAnswers
      /\ entered' \subseteq Entered /\ left' \subseteq Left
  BY DEF PlanStep, slotVars, TInv, TypeOK, Entered, Left
<1>3. next_transmit' \in Int
  BY Constants DEF PlanStep, NextTransmit
<1>4. /\ duration' \in [Message -> Durations \cup {None}]
      /\ tries' \in [Message -> 0..MaxTries]
  BY Constants DEF PlanStep, TInv, TypeOK
<1>5. /\ DataTimer(m, send, at, h) \in Timer /\ CheckTimer(m, send, check, h) \in Timer
      /\ Rest(m) \subseteq Timer
  BY DEF DataTimer, CheckTimer, Timer, Rest, TInv, TypeOK
<1>6. timers' \subseteq Timer /\ sent_table' \in [Message -> Int]
  <2>1. timers' \subseteq Timer
    BY <1>5 DEF PlanStep
  <2>2. sent_table \in [Message -> Int] /\ None \in Int
    BY DEF TInv, TypeOK, None
  <2>3. sent_table' = [sent_table EXCEPT ![m] = None] \/ sent_table' = [sent_table EXCEPT ![m] = send]
    BY DEF PlanStep
  <2> QED
    BY <2>1, <2>2, <2>3
<1>7. queue' \in Seq(Control) /\ Len(queue') <= QueueSize /\ sending' \in Transmission
  <2> PICK c : c = [msg |-> m, send |-> send]
    OBVIOUS
  <2>1. CASE UNCHANGED controlVars
    BY <2>1 DEF controlVars, TInv, TypeOK
  <2>2. CASE ~Full /\ Enqueue(c)
    <3>1. c \in Control
      BY DEF Control
    <3> QED
      BY <2>2, <3>1, EnqueueFacts
  <2> QED
    BY <2>1, <2>2 DEF PlanStep
<1> QED
  BY <1>1, <1>2, <1>3, <1>4, <1>6, <1>7 DEF TypeOK

LEMMA PlanTimely ==
  ASSUME TInv, NEW m \in Message, NEW d \in Durations, NEW send \in Int, NEW at \in Int,
         NEW check \in Int, NEW h \in Int, PlanStep(m, d, send, at, check, h)
  PROVE  Timely' /\ Known' /\ SlotsOK' /\ 0 <= lastLocal' /\ (R <= next_transmit)'
<1>1. /\ now' = now /\ lastLocal \in Int /\ lastLocal' \in Int /\ lastLocal <= lastLocal'
      /\ now \in Nat
  BY ReadingFacts DEF PlanStep
<1>2. now <= at /\ at <= check
  <2>1. PICK w : w = Turn * Backlog
    OBVIOUS
  <2>2. w \in Nat /\ now + PacketProcessing + PacketDelay + w <= at
    BY <2>1, PlanTimes, TurnFacts
  <2>3. at <= check
    BY DEF PlanStep
  <2> QED
    BY <1>1, <2>2, <2>3, Constants
<1>3. ControlTimely'
  <2> PICK c : c = [msg |-> m, send |-> send]
    OBVIOUS
  <2>1. CASE UNCHANGED controlVars
    BY <1>1, <2>1 DEF controlVars, TInv, Timely, ControlTimely, ControlDone
  <2>2. CASE ~Full /\ Enqueue(c)
    <3>1. c \in Control
      BY DEF Control
    <3> QED
      BY <1>1, <2>2, <3>1, EnqueueTimely
  <2> QED
    BY <2>1, <2>2 DEF PlanStep
<1>4. \A t \in timers' : now <= t.at /\ (t \in timers \/ t.msg = m)
  <2>1. timers' \subseteq timers \cup {DataTimer(m, send, at, h), CheckTimer(m, send, check, h)}
    BY DEF PlanStep, Rest
  <2>2. /\ DataTimer(m, send, at, h).at = at /\ DataTimer(m, send, at, h).msg = m
        /\ CheckTimer(m, send, check, h).at = check /\ CheckTimer(m, send, check, h).msg = m
    BY DEF DataTimer, CheckTimer
  <2>3. \A t \in timers : now <= t.at
    BY DEF TInv, Timely
  <2>4. now <= check
    BY <1>1, <1>2
  <2> QED
    BY <1>2, <2>1, <2>2, <2>3, <2>4
<1>5. Timely'
  BY <1>1, <1>3, <1>4 DEF Timely, ControlTimely, PlanStep, slotVars, TInv
<1>6. /\ duration' = [duration EXCEPT ![m] = d] /\ d # None /\ left' = left
      /\ \A k \in Message : sent_table'[k] = sent_table[k] \/ k = m
      /\ duration \in [Message -> Durations \cup {None}]
      /\ timers \subseteq Timer /\ left \subseteq Left
  BY Constants DEF PlanStep, TInv, TypeOK
<1>7. \A k \in Message : duration[k] # None \/ k = m => duration'[k] # None
  BY <1>6
<1>8. Known'
  BY <1>4, <1>6, <1>7 DEF Known, TInv, Timer, Left
<1>9. SlotsOK'
  <2>1. slots' = slots /\ slots \subseteq Int /\ Span \in Nat
    BY Constants DEF PlanStep, slotVars, TInv, TypeOK
  <2>2. \A s \in slots : 0 <= s /\ s <= lastLocal + Span
    BY DEF TInv, SlotsOK
  <2>3. ASSUME NEW s \in slots
        PROVE  0 <= s /\ s <= lastLocal' + Span
    <3>1. PICK p \in Nat : p = Span
      BY <2>1
    <3>2. PICK x \in Int : x = lastLocal'
      BY <1>1
    <3>3. s \in Int /\ 0 <= s /\ s <= lastLocal + p
      BY <2>1, <2>2, <3>1
    <3>4. lastLocal \in Int /\ lastLocal <= x
      BY <1>1, <3>2
    <3>5. s <= x + p
      BY <3>3, <3>4
    <3> QED
      BY <3>1, <3>2, <3>3, <3>5
  <2>4. Span' = Span
    BY DEF Span
  <2> QED
    BY <2>1, <2>3, <2>4 DEF SlotsOK
<1>10. R <= next_transmit'
  BY <1>6, Constants DEF PlanStep, NextTransmit, TInv, TypeOK
<1>11. 0 <= lastLocal'
  BY <1>1 DEF TInv
<1> QED
  BY <1>5, <1>8, <1>9, <1>10, <1>11

LEMMA PlanTInv == TInv /\ Plans => TInv'
<1> SUFFICES ASSUME TInv, NEW m \in Message, NEW d \in Durations, NEW send \in Int, NEW at \in Int,
                    NEW check \in Int, NEW h \in Int, PlanStep(m, d, send, at, check, h)
             PROVE  TInv'
  BY DEF Plans
<1>1. IInv'
  BY ReadingFacts DEF PlanStep
<1> QED
  BY <1>1, PlanTypes, PlanTimely DEF TInv

\* Steps that leave the clocks alone and only take timers away.
LEMMA QuietTInv ==
  ASSUME TInv, UNCHANGED <<clockVars, slotVars, next_transmit, duration, tries>>,
         timers' \subseteq timers,
         queue' \in Seq(Control), Len(queue') <= QueueSize, sending' \in Transmission,
         ControlTimely',
         data_until' \in Nat \cup {None}, data_until' # None => now <= data_until',
         sent_table' \in [Message -> Int],
         \A m \in Message : sent_table'[m] = sent_table[m] \/ sent_table'[m] = None,
         answers' \in 0..MaxAnswers,
         entered' \subseteq Entered, left' \subseteq Left,
         \A b \in left' : duration[b.msg] # None
  PROVE  TInv'
<1>1. IInv' /\ ClockTypeOK' /\ now' = now /\ lastLocal' = lastLocal
  BY ClockIInv DEF TInv, IInv, clockVars
<1>2. TypeOK'
  BY <1>1 DEF TInv, TypeOK, slotVars
<1>3. 0 <= lastLocal' /\ (R <= next_transmit)' /\ SlotsOK'
  BY <1>1 DEF TInv, SlotsOK, slotVars, Span
<1>4. Timely'
  BY <1>1 DEF TInv, Timely, ControlTimely, slotVars
<1>5. Known'
  BY DEF TInv, Known
<1> QED
  BY <1>1, <1>2, <1>3, <1>4, <1>5 DEF TInv

LEMMA SendCTRLTInv == TInv /\ SendCTRL => TInv'
<1> SUFFICES ASSUME TInv, SendCTRL PROVE TInv'
  OBVIOUS
<1>1. /\ GetLocalTime /\ answers < MaxAnswers /\ answers' = answers + 1
      /\ UNCHANGED <<slotVars, next_transmit, data_until, messageVars, entered, left>>
  BY DEF SendCTRL
<1>2. /\ now' = now /\ lastLocal \in Int /\ lastLocal' \in Int /\ lastLocal <= lastLocal'
      /\ now \in Nat /\ IInv'
  BY <1>1, ReadingFacts
<1> PICK c : c = [msg |-> Answer, send |-> 0]
  OBVIOUS
<1>3. c \in Control
  BY DEF Control
<1>4. \/ UNCHANGED controlVars
      \/ ~Full /\ Enqueue(c)
  BY DEF SendCTRL
<1>5. /\ queue' \in Seq(Control) /\ Len(queue') <= QueueSize /\ sending' \in Transmission
      /\ ControlTimely'
  <2>1. CASE UNCHANGED controlVars
    BY <1>2, <2>1 DEF controlVars, TInv, TypeOK, Timely, ControlTimely, ControlDone
  <2>2. CASE ~Full /\ Enqueue(c)
    BY <1>2, <1>3, <2>2, EnqueueFacts, EnqueueTimely
  <2> QED
    BY <1>4, <2>1, <2>2
<1>6. answers' \in 0..MaxAnswers
  BY <1>1, Constants DEF TInv, TypeOK
<1>7. TypeOK'
  <2>1. ClockTypeOK'
    BY <1>2 DEF IInv
  <2> QED
    BY <1>1, <1>5, <1>6, <2>1 DEF TInv, TypeOK, slotVars, messageVars
<1>8. SlotsOK'
  <2>1. slots' = slots /\ slots \subseteq Int /\ Span' = Span
    BY <1>1 DEF slotVars, TInv, TypeOK, Span
  <2>2. ASSUME NEW s \in slots
        PROVE  0 <= s /\ s <= lastLocal' + Span
    <3>1. PICK p \in Nat : p = Span
      BY Constants
    <3>2. PICK x \in Int : x = lastLocal'
      BY <1>2
    <3>3. s \in Int /\ 0 <= s /\ s <= lastLocal + p
      BY <2>1, <3>1 DEF TInv, SlotsOK
    <3>4. lastLocal \in Int /\ lastLocal <= x
      BY <1>2, <3>2
    <3>5. s <= x + p
      BY <3>3, <3>4
    <3> QED
      BY <3>1, <3>2, <3>3, <3>5
  <2> QED
    BY <2>1, <2>2 DEF SlotsOK
<1>9. Timely' /\ Known'
  BY <1>1, <1>2, <1>5 DEF TInv, Timely, ControlTimely, Known, slotVars, messageVars
<1>10. 0 <= lastLocal' /\ (R <= next_transmit)'
  BY <1>1, <1>2 DEF TInv
<1> QED
  BY <1>2, <1>7, <1>8, <1>9, <1>10 DEF TInv

\* The control variables, left as they are, stay as they should be.
LEMMA ControlKept ==
  ASSUME TInv, UNCHANGED <<now, queue, sending>>
  PROVE  /\ queue' \in Seq(Control) /\ Len(queue') <= QueueSize /\ sending' \in Transmission
         /\ ControlTimely'
<1>1. ControlTimely
  BY DEF TInv, Timely, ControlTimely
<1> QED
  BY <1>1 DEF TInv, TypeOK, ControlTimely, ControlDone

LEMMA CheckSentTInv == TInv /\ CheckSent => TInv'
<1> SUFFICES ASSUME TInv, timers' \subseteq timers,
                    UNCHANGED <<clockVars, slotVars, next_transmit, controlVars, data_until,
                                duration, sent_table, tries, answers, entered, left>>
             PROVE  TInv'
  BY CheckSentPlans, PlanTInv
<1>1. UNCHANGED <<now, queue, sending>>
  BY DEF clockVars, controlVars
<1>2. /\ sent_table' = sent_table /\ data_until' = data_until /\ answers' = answers
      /\ entered' = entered /\ left' = left
  OBVIOUS
<1>3. /\ data_until \in Nat \cup {None} /\ (data_until # None => now <= data_until)
      /\ sent_table \in [Message -> Int] /\ answers \in 0..MaxAnswers
      /\ entered \subseteq Entered /\ left \subseteq Left
      /\ \A b \in left : duration[b.msg] # None
  BY DEF TInv, TypeOK, Timely, Known
<1> QED
  BY <1>1, <1>2, <1>3, ControlKept, QuietTInv

LEMMA ReceiveAWKTInv ==
  ASSUME TInv, NEW m \in Message, ReceiveAWK(m)
  PROVE  TInv'
<1>1. /\ sent_table' = [sent_table EXCEPT ![m] = None]
      /\ UNCHANGED <<clockVars, slotVars, next_transmit, controlVars, data_until, duration,
                     timers, tries, answers, entered, left>>
  BY DEF ReceiveAWK
<1>2. UNCHANGED <<now, queue, sending>>
  BY <1>1 DEF clockVars, controlVars
<1>3. /\ data_until \in Nat \cup {None} /\ (data_until # None => now <= data_until)
      /\ sent_table \in [Message -> Int] /\ answers \in 0..MaxAnswers
      /\ entered \subseteq Entered /\ left \subseteq Left
      /\ \A b \in left : duration[b.msg] # None
  BY DEF TInv, TypeOK, Timely, Known
<1>4. /\ sent_table' \in [Message -> Int]
      /\ \A k \in Message : sent_table'[k] = sent_table[k] \/ sent_table'[k] = None
  BY <1>1, <1>3 DEF None
<1>5. /\ UNCHANGED <<clockVars, slotVars, next_transmit, duration, tries>>
      /\ timers' \subseteq timers
      /\ data_until' = data_until /\ answers' = answers /\ entered' = entered /\ left' = left
  BY <1>1
<1> QED
  BY <1>2, <1>3, <1>4, <1>5, ControlKept, QuietTInv

LEMMA TransmitStartTInv == TInv /\ TransmitStart => TInv'
<1> SUFFICES ASSUME TInv, TransmitStart PROVE TInv'
  OBVIOUS
<1>1. /\ sending # Idle /\ ~sending.launched /\ sending.start = now
      /\ sending' = [sending EXCEPT !.launched = TRUE]
      /\ entered' = entered \cup
           IF sending.msg = Answer THEN {}
           ELSE {[msg |-> sending.msg, send |-> sending.send, at |-> now]}
      /\ UNCHANGED <<clockVars, slotVars, next_transmit, queue, data_until, messageVars,
                     answers, left>>
  BY DEF TransmitStart
<1>2. /\ data_until \in Nat \cup {None} /\ (data_until # None => now <= data_until)
      /\ sent_table \in [Message -> Int] /\ answers \in 0..MaxAnswers
      /\ entered \subseteq Entered /\ left \subseteq Left
      /\ \A b \in left : duration[b.msg] # None
      /\ sending \in Transmission /\ queue \in Seq(Control) /\ Len(queue) <= QueueSize
      /\ now \in Nat /\ sending.msg # None
  BY <1>1 DEF TInv, IInv, ClockTypeOK, TypeOK, Timely, Known
<1>3. sending' \in Transmission
  BY <1>1, <1>2 DEF Transmission
<1>4. entered' \subseteq Entered
  BY <1>1, <1>2 DEF Transmission, Entered
<1>5. ControlTimely'
  <2>1. /\ sending'.msg = sending.msg /\ sending'.start = now /\ sending'.launched = TRUE
        /\ now' = now
    BY <1>1, <1>2 DEF Transmission, clockVars
  <2>2. sending' # Idle
    BY <2>1 DEF Idle
  <2>3. now <= now + TxControl + ControlFrameGap /\ now <= now + PacketProcessing
    BY <1>2, Constants
  <2>4. ControlDone' = now + TxControl + ControlFrameGap
    BY <2>1 DEF ControlDone
  <2> QED
    BY <1>2, <2>1, <2>2, <2>3, <2>4 DEF ControlTimely
<1>6. /\ UNCHANGED <<clockVars, slotVars, next_transmit, duration, tries>>
      /\ timers' \subseteq timers /\ sent_table' = sent_table /\ queue' = queue
      /\ data_until' = data_until /\ answers' = answers /\ left' = left
  BY <1>1 DEF messageVars
<1> QED
  BY <1>2, <1>3, <1>4, <1>5, <1>6, QuietTInv

LEMMA ControlTransmitCompleteTInv == TInv /\ ControlTransmitComplete => TInv'
<1> SUFFICES ASSUME TInv, ControlTransmitComplete PROVE TInv'
  OBVIOUS
<1>1. /\ IF queue = <<>>
         THEN sending' = Idle /\ UNCHANGED queue
         ELSE sending' = Started(Head(queue)) /\ queue' = Tail(queue)
      /\ UNCHANGED <<clockVars, slotVars, next_transmit, data_until, messageVars,
                     answers, entered, left>>
  BY DEF ControlTransmitComplete
<1>2. /\ data_until \in Nat \cup {None} /\ (data_until # None => now <= data_until)
      /\ sent_table \in [Message -> Int] /\ answers \in 0..MaxAnswers
      /\ entered \subseteq Entered /\ left \subseteq Left
      /\ \A b \in left : duration[b.msg] # None
      /\ queue \in Seq(Control) /\ Len(queue) <= QueueSize
  BY DEF TInv, TypeOK, Timely, Known
<1>3. now' = now
  BY <1>1 DEF clockVars
<1>4. /\ queue' \in Seq(Control) /\ Len(queue') <= QueueSize /\ sending' \in Transmission
      /\ ControlTimely'
  <2>1. CASE queue = <<>>
    <3>1. sending' = Idle /\ queue' = <<>>
      BY <1>1, <2>1
    <3>2. Idle \in Transmission
      BY DEF Idle, Transmission, None
    <3>3. Idle' = Idle
      BY DEF Idle
    <3> QED
      BY <1>2, <2>1, <3>1, <3>2, <3>3 DEF ControlTimely
  <2>2. CASE queue # <<>>
    <3>1. Head(queue) \in Control /\ Tail(queue) \in Seq(Control) /\ Len(Tail(queue)) = Len(queue) - 1
      BY <1>2, <2>2, HeadTailProperties
    <3>2. PICK c \in Control : c = Head(queue)
      BY <3>1
    <3>3. sending' = Started(c) /\ queue' = Tail(queue)
      BY <1>1, <2>2, <3>2
    <3>4. Len(queue') <= QueueSize
      BY <1>2, <3>1, <3>3, Constants, LenProperties
    <3>5. ControlTimely' /\ sending' \in Transmission
      BY <1>3, <3>3, StartedTimely, StartedType
    <3> QED
      BY <3>1, <3>3, <3>4, <3>5
  <2> QED
    BY <2>1, <2>2
<1>5. /\ UNCHANGED <<clockVars, slotVars, next_transmit, duration, tries>>
      /\ timers' \subseteq timers /\ sent_table' = sent_table /\ entered' = entered
      /\ data_until' = data_until /\ answers' = answers /\ left' = left
  BY <1>1 DEF messageVars
<1> QED
  BY <1>2, <1>4, <1>5, QuietTInv

\* What DataTransmitStart does when timer t runs.
DataStep(t) ==
  /\ t \in timers /\ t.fn = "data" /\ t.at = now
  /\ timers' = timers \ {t}
  /\ \/ /\ data_until = None
        /\ data_until' = now + duration[t.msg] + DataFrameGap
        /\ left' = left \cup {[msg |-> t.msg, send |-> t.send, at |-> now, horizon |-> t.horizon]}
     \/ /\ data_until # None
        /\ UNCHANGED <<data_until, left>>
  /\ UNCHANGED <<clockVars, slotVars, next_transmit, controlVars, duration, sent_table, tries,
                 answers, entered>>

LEMMA DataTransmitStartStep ==
  ASSUME TInv, DataTransmitStart
  PROVE  \E t \in timers : DataStep(t)
BY DEF DataTransmitStart, DataStep

LEMMA DataTransmitStartTInv == TInv /\ DataTransmitStart => TInv'
<1> SUFFICES ASSUME TInv, NEW t \in timers, DataStep(t) PROVE TInv'
  BY DataTransmitStartStep
<1>1. /\ timers' = timers \ {t}
      /\ \/ /\ data_until' = now + duration[t.msg] + DataFrameGap
            /\ left' = left \cup
                 {[msg |-> t.msg, send |-> t.send, at |-> now, horizon |-> t.horizon]}
         \/ UNCHANGED <<data_until, left>>
      /\ UNCHANGED <<clockVars, slotVars, next_transmit, controlVars, duration, sent_table, tries,
                     answers, entered>>
  BY DEF DataStep
<1>2. /\ data_until \in Nat \cup {None} /\ (data_until # None => now <= data_until)
      /\ sent_table \in [Message -> Int] /\ answers \in 0..MaxAnswers
      /\ entered \subseteq Entered /\ left \subseteq Left /\ now \in Nat
      /\ \A b \in left : duration[b.msg] # None
  BY DEF TInv, IInv, ClockTypeOK, TypeOK, Timely, Known
<1>3. /\ t \in Timer /\ t.msg \in Message /\ duration[t.msg] # None
      /\ duration[t.msg] \in Nat
  <2>1. t \in Timer /\ t.msg \in Message /\ duration[t.msg] # None
    BY DEF TInv, TypeOK, Timer, Known
  <2> QED
    BY <2>1, KnownDuration, Constants
<1>4. /\ data_until' \in Nat \cup {None} /\ (data_until' # None => now <= data_until')
  BY <1>1, <1>2, <1>3, Constants
<1>5. left' \subseteq Left /\ \A b \in left' : duration[b.msg] # None
  <2>1. CASE UNCHANGED <<data_until, left>>
    BY <1>2, <2>1
  <2>2. CASE left' = left \cup
               {[msg |-> t.msg, send |-> t.send, at |-> now, horizon |-> t.horizon]}
    <3>1. [msg |-> t.msg, send |-> t.send, at |-> now, horizon |-> t.horizon] \in Left
      BY <1>2, <1>3 DEF Left, Timer
    <3> QED
      BY <1>2, <1>3, <2>2, <3>1
  <2> QED
    BY <1>1, <2>1, <2>2
<1>6. UNCHANGED <<now, queue, sending>>
  BY <1>1 DEF clockVars, controlVars
<1>7. /\ UNCHANGED <<clockVars, slotVars, next_transmit, duration, tries>>
      /\ timers' \subseteq timers /\ sent_table' = sent_table /\ entered' = entered
      /\ answers' = answers
  BY <1>1
<1> QED
  BY <1>2, <1>4, <1>5, <1>6, <1>7, ControlKept, QuietTInv

LEMMA DataTransmitCompleteTInv == TInv /\ DataTransmitComplete => TInv'
<1> SUFFICES ASSUME TInv, DataTransmitComplete PROVE TInv'
  OBVIOUS
<1>1. /\ data_until' = None
      /\ UNCHANGED <<clockVars, slotVars, next_transmit, controlVars, messageVars, answers,
                     entered, left>>
  BY DEF DataTransmitComplete
<1>2. /\ sent_table \in [Message -> Int] /\ answers \in 0..MaxAnswers
      /\ entered \subseteq Entered /\ left \subseteq Left
      /\ \A b \in left : duration[b.msg] # None
  BY DEF TInv, TypeOK, Known
<1>3. UNCHANGED <<now, queue, sending>>
  BY <1>1 DEF clockVars, controlVars
<1>4. /\ UNCHANGED <<clockVars, slotVars, next_transmit, duration, tries>>
      /\ timers' \subseteq timers /\ sent_table' = sent_table /\ entered' = entered
      /\ left' = left /\ answers' = answers
      /\ data_until' \in Nat \cup {None} /\ (data_until' # None => now <= data_until')
  BY <1>1 DEF messageVars
<1> QED
  BY <1>2, <1>3, <1>4, ControlKept, QuietTInv

\* The timeslots after a reconfiguration.
Moved == (slots \ {EarliestOf(slots)}) \cup {Local + Span}

LEMMA MovedFacts ==
  ASSUME TInv
  PROVE  /\ Moved \in SUBSET Int /\ Moved # {} /\ Local \in Int /\ lastLocal <= Local
         /\ \A s \in Moved : 0 <= s /\ s <= Local + Span
         /\ EarliestOf(Moved) \in Moved /\ \A s \in Moved : EarliestOf(Moved) <= s
<1>1. lastLocal \in Int /\ 0 <= lastLocal /\ slots \subseteq Int
  BY DEF TInv, TypeOK, ClockTypeOK
<1>2. Local \in Int /\ lastLocal <= Local
  BY <1>1, ElapsedIsNat DEF TInv, Local
<1>3. PICK p \in Nat : p = Span
  BY Constants
<1>4. PICK x \in Int : x = Local
  BY <1>2
<1>5. /\ lastLocal <= x /\ Moved = (slots \ {EarliestOf(slots)}) \cup {x + p}
      /\ \A s \in slots : 0 <= s /\ s <= lastLocal + p
  BY <1>2, <1>3, <1>4 DEF Moved, TInv, SlotsOK
<1>6. ASSUME NEW s \in Moved
      PROVE  s \in Int /\ 0 <= s /\ s <= x + p
  <2>1. CASE s \in slots
    BY <1>1, <1>3, <1>4, <1>5, <2>1
  <2>2. CASE s = x + p
    BY <1>1, <1>3, <1>4, <1>5, <2>2
  <2> QED
    BY <1>5, <2>1, <2>2
<1>7. Moved \in SUBSET Int /\ Moved # {}
  BY <1>5, <1>6
<1>8. \A s \in Moved : 0 <= s
  BY <1>6
<1>9. EarliestOf(Moved) \in Moved /\ \A s \in Moved : EarliestOf(Moved) <= s
  BY <1>7, <1>8, EarliestIsLeast
<1> QED
  BY <1>2, <1>3, <1>4, <1>6, <1>7, <1>9

\* What BeginReconfigure does, in these terms.
ReconfigureStep ==
  /\ reconfigure = now
  /\ GetLocalTime
  /\ reconfigure' = now + R + D
  /\ slots' = Moved
  /\ next_transmit' \in Int /\ next_transmit <= next_transmit'
  /\ UNCHANGED <<controlVars, data_until, messageVars, answers, entered, left>>

LEMMA ReconfigureFacts ==
  ASSUME TInv, BeginReconfigure
  PROVE  ReconfigureStep
<1>1. /\ reconfigure = now /\ GetLocalTime /\ reconfigure' = now + R + D
      /\ slots' = Moved
      /\ next_transmit' = IF next_transmit < EarliestOf(Moved) THEN EarliestOf(Moved)
                          ELSE next_transmit
      /\ UNCHANGED <<controlVars, data_until, messageVars, answers, entered, left>>
  <2>1. Local + Span = Local + R + (R + D) * (ScheduleSize - 1)
    <3>1. Local \in Int
      BY MovedFacts
    <3>2. PICK q : q = (R + D) * (ScheduleSize - 1)
      OBVIOUS
    <3>3. q \in Int
      <4>1. R + D \in Int /\ ScheduleSize - 1 \in Int
        BY Constants
      <4> QED
        BY <3>2, <4>1
    <3>4. Span = R + q /\ R \in Int
      BY <3>2, Constants DEF Span
    <3> QED
      BY <3>1, <3>2, <3>3, <3>4
  <2> QED
    BY <2>1 DEF BeginReconfigure, Moved
<1>2. EarliestOf(Moved) \in Int /\ next_transmit \in Int
  BY MovedFacts DEF TInv, TypeOK
<1> QED
  BY <1>1, <1>2 DEF ReconfigureStep

LEMMA BeginReconfigureTInv == TInv /\ BeginReconfigure => TInv'
<1> SUFFICES ASSUME TInv, ReconfigureStep PROVE TInv'
  BY ReconfigureFacts
<1>1. /\ reconfigure' = now + R + D /\ GetLocalTime /\ slots' = Moved
      /\ next_transmit' \in Int /\ next_transmit <= next_transmit'
      /\ UNCHANGED <<controlVars, data_until, messageVars, answers, entered, left>>
  BY DEF ReconfigureStep
<1>2. /\ now' = now /\ lastLocal' = Local /\ lastLocal \in Int /\ lastLocal' \in Int
      /\ lastLocal <= lastLocal' /\ now \in Nat /\ IInv'
  BY <1>1, ReadingFacts
<1>3. UNCHANGED <<now, queue, sending>>
  BY <1>1, <1>2 DEF controlVars
<1>4. TypeOK'
  <2>1. ClockTypeOK'
    BY <1>2 DEF IInv
  <2>2. reconfigure' \in Nat
    BY <1>1, <1>2, Constants
  <2>3. slots' \subseteq Int /\ slots' # {}
    BY <1>1, MovedFacts
  <2> QED
    BY <1>1, <1>3, <2>1, <2>2, <2>3, ControlKept DEF TInv, TypeOK, messageVars
<1>5. SlotsOK'
  <2>1. \A s \in Moved : 0 <= s /\ s <= Local + Span
    BY MovedFacts
  <2>2. slots' = Moved /\ lastLocal' = Local /\ Span' = Span
    BY <1>1, <1>2 DEF Span
  <2> QED
    BY <2>1, <2>2 DEF SlotsOK
<1>6. Timely' /\ Known'
  <2>1. now' <= reconfigure' /\ reconfigure' <= (now + R + D)'
    BY <1>1, <1>2, Constants
  <2>2. ControlTimely'
    BY <1>3, ControlKept
  <2>3. /\ timers' = timers /\ left' = left /\ duration' = duration /\ sent_table' = sent_table
        /\ data_until' = data_until
    BY <1>1 DEF messageVars
  <2> QED
    BY <1>2, <2>1, <2>2, <2>3 DEF TInv, Timely, ControlTimely, Known
<1>7. 0 <= lastLocal' /\ (R <= next_transmit)'
  BY <1>1, <1>2, Constants DEF TInv, TypeOK
<1> QED
  BY <1>2, <1>4, <1>5, <1>6, <1>7 DEF TInv

\* The clock moves only when nothing is due.
LEMMA AdvanceTInv == TInv /\ Advance => TInv'
<1> SUFFICES ASSUME TInv, Advance PROVE TInv'
  OBVIOUS
<1>1. /\ ~Due /\ Tick /\ now' = now + 1 /\ lastLocal' = lastLocal
      /\ UNCHANGED <<slotVars, next_transmit, controlVars, data_until, messageVars, answers,
                     entered, left>>
  BY DEF Advance, Tick
<1>2. IInv'
  BY <1>1, ClockIInv DEF TInv
<1>3. /\ now \in Nat /\ timers \subseteq Timer /\ data_until \in Nat \cup {None}
      /\ reconfigure \in Nat /\ sending \in Transmission
  BY DEF TInv, TypeOK, ClockTypeOK
<1>4. ASSUME NEW t \in timers PROVE now + 1 <= t.at
  <2>1. t.at # now /\ now <= t.at /\ t.at \in Int
    BY <1>1, <1>3 DEF Due, TInv, Timely, Timer
  <2> QED
    BY <1>3, <2>1
<1>5. data_until # None => now + 1 <= data_until
  <2>1. data_until # now /\ (data_until # None => now <= data_until)
    BY <1>1 DEF Due, TInv, Timely
  <2> QED
    BY <1>3, <2>1
<1>6. now + 1 <= reconfigure /\ reconfigure <= now + 1 + R + D
  <2>1. reconfigure # now /\ now <= reconfigure /\ reconfigure <= now + R + D
    BY <1>1 DEF Due, TInv, Timely
  <2> QED
    BY <1>3, <2>1, Constants
<1>7. ASSUME sending # Idle
      PROVE  /\ sending.msg # None
             /\ sending.start <= now + 1 + PacketProcessing
             /\ ~sending.launched => now + 1 <= sending.start
             /\ sending.launched => sending.start <= now + 1 /\ now + 1 <= ControlDone
  <2>1. /\ sending.msg # None /\ sending.start <= now + PacketProcessing
        /\ ~sending.launched => now <= sending.start /\ sending.start # now
        /\ sending.launched => sending.start <= now /\ now <= ControlDone /\ ControlDone # now
    BY <1>1, <1>7 DEF Due, TInv, Timely
  <2>2. sending.start \in Int /\ ControlDone \in Int /\ sending.launched \in BOOLEAN
    BY <1>3, Constants DEF Transmission, ControlDone
  <2>3. sending.start <= now + 1 + PacketProcessing
    BY <1>3, <2>1, <2>2, Constants
  <2>4. CASE sending.launched
    BY <1>3, <2>1, <2>2, <2>3, <2>4
  <2>5. CASE ~sending.launched
    BY <1>3, <2>1, <2>2, <2>3, <2>5
  <2> QED
    BY <2>4, <2>5
<1>8. Timely'
  <2>1. timers' = timers /\ data_until' = data_until /\ reconfigure' = reconfigure
    BY <1>1 DEF messageVars, slotVars
  <2>2. sending' = sending /\ queue' = queue /\ ControlDone' = ControlDone
    BY <1>1 DEF controlVars, ControlDone
  <2>3. queue # <<>> => sending # Idle
    BY DEF TInv, Timely
  <2>4. Idle' = Idle
    BY DEF Idle
  <2> QED
    BY <1>1, <1>4, <1>5, <1>6, <1>7, <2>1, <2>2, <2>3, <2>4 DEF Timely
<1>9. TypeOK'
  BY <1>1, <1>2 DEF IInv, TInv, TypeOK, slotVars, controlVars, messageVars
<1>10. SlotsOK' /\ Known' /\ 0 <= lastLocal' /\ (R <= next_transmit)'
  BY <1>1 DEF TInv, SlotsOK, Known, slotVars, messageVars, Span
<1> QED
  BY <1>2, <1>8, <1>9, <1>10 DEF TInv

LEMMA StutterTInv == TInv /\ UNCHANGED vars => TInv'
<1> SUFFICES ASSUME TInv, UNCHANGED vars PROVE TInv'
  OBVIOUS
<1>1. UNCHANGED clockVars /\ UNCHANGED <<now, lastLocal>>
  BY DEF vars, clockVars
<1>2. IInv'
  BY <1>1, ClockIInv DEF TInv
<1>3. TypeOK'
  BY <1>2 DEF IInv, TInv, TypeOK, vars, slotVars, controlVars, messageVars
<1>4. Timely'
  BY <1>1 DEF TInv, Timely, ControlDone, vars, slotVars, controlVars, messageVars
<1>5. SlotsOK' /\ Known' /\ 0 <= lastLocal' /\ (R <= next_transmit)'
  BY <1>1 DEF TInv, SlotsOK, Known, Span, vars, slotVars, messageVars
<1> QED
  BY <1>2, <1>3, <1>4, <1>5 DEF TInv

LEMMA StepTInv == TInv /\ [Next]_vars => TInv'
<1>1. ASSUME TInv, NEW m \in Message, NEW d \in Durations, Send(m, d) PROVE TInv'
  BY <1>1, SendPlans, PlanTInv
<1>2. ASSUME TInv, NEW m \in Message, ReceiveNACK(m) PROVE TInv'
  BY <1>2, ReceiveNACKPlans, PlanTInv
<1> QED
  BY <1>1, <1>2, ReceiveAWKTInv, SendCTRLTInv, CheckSentTInv, TransmitStartTInv,
     ControlTransmitCompleteTInv, DataTransmitStartTInv, DataTransmitCompleteTInv,
     BeginReconfigureTInv, AdvanceTInv, StutterTInv
     DEF Next

\* The types, and that nothing is late.
THEOREM TimingInvariant == Spec => []TInv
BY InitTInv, StepTInv, PTL DEF Spec

\* The device's state keeps its types, and m_control_queue its bound.
THEOREM TimingTypeCorrect == Spec => []TypeOK
BY TimingInvariant, PTL DEF TInv

\* The clock of the device is off by half a nanosecond per reading at most.
THEOREM TimingErrorBounded == Spec => []ErrorBounded
BY TimingInvariant, PTL DEF TInv, IInv

-----------------------------------------------------------------------------
(***************************************************************************)
(* The lead of a control message.                                          *)
(***************************************************************************)
\* A code that leaves no time between a control message and its burst leaves
\* their order to chance.
PositiveDelay == PacketDelay > 0

HasEntered(m, send, at) ==
  \E c \in entered : c.msg = m /\ c.send = send /\ c.at + PacketDelay <= at

StartsInTime(m, send, at) ==
  /\ sending # Idle /\ ~sending.launched
  /\ sending.msg = m /\ sending.send = send
  /\ sending.start + PacketDelay <= at

\* The control message in place i of the queue starts when those before it are
\* through.
WaitsInTime(m, send, at) ==
  \E i \in 1..Len(queue) :
    /\ queue[i].msg = m /\ queue[i].send = send
    /\ ControlDone + Turn * (i - 1) + PacketProcessing + PacketDelay <= at

Announced(m, send, at) ==
  HasEntered(m, send, at) \/ StartsInTime(m, send, at) \/ WaitsInTime(m, send, at)

LeadInv ==
  /\ LeadKept
  /\ \A t \in timers : t.fn = "data" => Announced(t.msg, t.send, t.at)

\* No control message is held up by a new one.
LEMMA EnqueueAnnounced ==
  ASSUME TInv, NEW c \in Control, ~Full, Enqueue(c),
         NEW m \in Message, NEW send \in Int, NEW at \in Int,
         Announced(m, send, at), entered' = entered
  PROVE  Announced(m, send, at)'
<1>1. CASE HasEntered(m, send, at)
  BY <1>1 DEF HasEntered, Announced
<1>2. CASE sending = Idle /\ queue = <<>>
  <2>1. ~StartsInTime(m, send, at) /\ ~WaitsInTime(m, send, at)
    BY <1>2 DEF StartsInTime, WaitsInTime
  <2> QED
    BY <1>1, <2>1 DEF Announced
<1>3. CASE sending # Idle /\ sending' = sending /\ queue' = Append(queue, c)
  <2>1. CASE StartsInTime(m, send, at)
    BY <1>3, <2>1 DEF StartsInTime, Announced, Idle
  <2>2. CASE WaitsInTime(m, send, at)
    <3>1. PICK i \in 1..Len(queue) :
            /\ queue[i].msg = m /\ queue[i].send = send
            /\ ControlDone + Turn * (i - 1) + PacketProcessing + PacketDelay <= at
      BY <2>2 DEF WaitsInTime
    <3>2. i \in 1..Len(queue') /\ queue'[i] = queue[i]
      <4>1. queue \in Seq(Control) /\ Len(queue) \in Nat
        BY LenProperties DEF TInv, TypeOK
      <4> QED
        BY <1>3, <4>1, AppendProperties
    <3>3. ControlDone' = ControlDone /\ Turn' = Turn
      BY <1>3 DEF ControlDone, Turn
    <3>4. ControlDone' + Turn' * (i - 1) + PacketProcessing + PacketDelay <= at
      BY <3>1, <3>3
    <3> QED
      BY <3>1, <3>2, <3>4 DEF WaitsInTime, Announced
  <2> QED
    BY <1>1, <2>1, <2>2 DEF Announced
<1> QED
  BY <1>2, <1>3, EnqueueFacts

\* A new control message is in time for its burst.
LEMMA NewAnnounced ==
  ASSUME TInv, NEW m \in Message, NEW send \in Int, NEW at \in Int,
         NEW c \in Control, c.msg = m, c.send = send, ~Full, Enqueue(c), now' = now,
         now + PacketProcessing + PacketDelay + Turn * Backlog <= at
  PROVE  Announced(m, send, at)'
<1>1. now \in Nat /\ Turn \in Nat /\ PacketProcessing \in Nat /\ PacketDelay \in Nat
  BY TurnFacts, Constants DEF TInv, IInv, ClockTypeOK
<1>2. CASE sending = Idle /\ queue = <<>> /\ sending' = Started(c)
  <2>1. Backlog = 0
    BY <1>2 DEF Backlog
  <2>2. Turn * 0 = 0
    BY <1>1
  <2>3. now + PacketProcessing + PacketDelay <= at
    BY <1>1, <2>1, <2>2
  <2>4. /\ sending' # Idle /\ ~sending'.launched /\ sending'.msg = m /\ sending'.send = send
        /\ sending'.start = now + PacketProcessing /\ Idle' = Idle
    BY <1>2, StartedType DEF Started, Idle
  <2> QED
    BY <2>3, <2>4 DEF StartsInTime, Announced
<1>3. CASE sending # Idle /\ sending' = sending /\ queue' = Append(queue, c)
  <2>1. queue \in Seq(Control) /\ Len(queue) \in Nat
    BY LenProperties DEF TInv, TypeOK
  <2>2. PICK n \in Nat : n = Len(queue)
    BY <2>1
  <2>3. Backlog = n + 1
    BY <1>3, <2>2 DEF Backlog
  <2>4. Len(queue') = n + 1 /\ queue'[n + 1] = c
    BY <1>3, <2>1, <2>2, AppendProperties
  <2>5. Turn * (n + 1) = Turn * n + Turn /\ Turn * n \in Nat
    BY <1>1, <2>2
  <2>6. ControlDone \in Int /\ ControlDone <= now + Turn
    <3>1. /\ sending.start \in Int /\ sending.start <= now + PacketProcessing
          /\ ControlDone = sending.start + TxControl + ControlFrameGap
      BY <1>3 DEF TInv, TypeOK, Transmission, Timely, ControlDone
    <3> QED
      BY <1>1, <3>1, Constants DEF Turn
  <2>7. ControlDone + Turn * n + PacketProcessing + PacketDelay <= at
    BY <1>1, <2>3, <2>5, <2>6
  <2>8. ControlDone' = ControlDone /\ Turn' = Turn /\ (n + 1) - 1 = n /\ n + 1 \in 1..Len(queue')
    BY <1>3, <2>2, <2>4 DEF ControlDone, Turn
  <2>9. ControlDone' + Turn' * ((n + 1) - 1) + PacketProcessing + PacketDelay <= at
    BY <2>7, <2>8
  <2> QED
    BY <2>4, <2>8, <2>9 DEF WaitsInTime, Announced
<1> QED
  BY <1>2, <1>3, EnqueueFacts

\* TransmitStart: the announcement reaches the fibre.
LEMMA TransmitStartAnnounced ==
  ASSUME TInv, TransmitStart, NEW m \in Message, NEW send \in Int, NEW at \in Int,
         Announced(m, send, at)
  PROVE  Announced(m, send, at)'
<1>1. /\ sending # Idle /\ ~sending.launched /\ sending.start = now
      /\ sending' = [sending EXCEPT !.launched = TRUE] /\ queue' = queue
      /\ entered' = entered \cup
           IF sending.msg = Answer THEN {}
           ELSE {[msg |-> sending.msg, send |-> sending.send, at |-> now]}
  BY DEF TransmitStart
<1>2. CASE HasEntered(m, send, at)
  BY <1>1, <1>2 DEF HasEntered, Announced
<1>3. CASE StartsInTime(m, send, at)
  <2>1. m # Answer
    BY MessageType
  <2>2. [msg |-> m, send |-> send, at |-> now] \in entered'
    BY <1>1, <1>3, <2>1 DEF StartsInTime
  <2>3. now + PacketDelay <= at
    BY <1>1, <1>3 DEF StartsInTime
  <2> QED
    BY <2>2, <2>3 DEF HasEntered, Announced
<1>4. CASE WaitsInTime(m, send, at)
  <2>1. ControlDone' = ControlDone /\ Turn' = Turn
    BY <1>1 DEF ControlDone, Turn, TInv, TypeOK, Transmission
  <2> QED
    BY <1>1, <1>4, <2>1 DEF WaitsInTime, Announced
<1> QED
  BY <1>2, <1>3, <1>4 DEF Announced

\* ControlTransmitComplete: the queue moves up.
LEMMA CompleteAnnounced ==
  ASSUME TInv, ControlTransmitComplete, NEW m \in Message, NEW send \in Int, NEW at \in Int,
         Announced(m, send, at)
  PROVE  Announced(m, send, at)'
<1>1. /\ sending # Idle /\ sending.launched /\ ControlDone = now
      /\ IF queue = <<>>
         THEN sending' = Idle /\ UNCHANGED queue
         ELSE sending' = Started(Head(queue)) /\ queue' = Tail(queue)
      /\ entered' = entered
  BY DEF ControlTransmitComplete
<1>2. CASE HasEntered(m, send, at)
  BY <1>1, <1>2 DEF HasEntered, Announced
<1>3. ~StartsInTime(m, send, at)
  BY <1>1 DEF StartsInTime
<1>4. CASE WaitsInTime(m, send, at)
  <2>1. PICK i \in 1..Len(queue) :
          /\ queue[i].msg = m /\ queue[i].send = send
          /\ ControlDone + Turn * (i - 1) + PacketProcessing + PacketDelay <= at
    BY <1>4 DEF WaitsInTime
  <2>2. queue \in Seq(Control) /\ Len(queue) \in Nat /\ queue # <<>>
    BY <2>1, LenProperties DEF TInv, TypeOK
  <2>3. /\ Head(queue) = queue[1] /\ Head(queue) \in Control
        /\ Len(Tail(queue)) = Len(queue) - 1
        /\ \A j \in 1..(Len(queue) - 1) : Tail(queue)[j] = queue[j + 1]
    BY <2>2, HeadTailProperties
  <2>4. PICK c \in Control : c = queue[1]
    BY <2>3
  <2>5. sending' = Started(c) /\ queue' = Tail(queue)
    BY <1>1, <2>2, <2>3, <2>4
  <2>6. /\ sending' # Idle /\ ~sending'.launched /\ sending'.msg = c.msg
        /\ sending'.send = c.send /\ sending'.start = now + PacketProcessing /\ Idle' = Idle
    BY <2>5, StartedType DEF Started, Idle
  <2>7. /\ now \in Nat /\ Turn \in Nat /\ PacketProcessing \in Nat /\ PacketDelay \in Nat
    BY TurnFacts, Constants DEF TInv, IInv, ClockTypeOK
  <2>8. CASE i = 1
    <3>1. Turn * (i - 1) = 0
      BY <2>7, <2>8
    <3>2. now + PacketProcessing + PacketDelay <= at
      BY <1>1, <2>1, <2>7, <3>1
    <3>3. c.msg = m /\ c.send = send
      BY <2>1, <2>4, <2>8
    <3> QED
      BY <2>6, <3>2, <3>3 DEF StartsInTime, Announced
  <2>9. CASE i # 1
    <3>1. PICK j \in 1..Len(queue') : i = j + 1
      <4>1. i - 1 \in 1..(Len(queue) - 1) /\ i = (i - 1) + 1
        BY <2>2, <2>9
      <4> QED
        BY <2>3, <2>5, <4>1
    <3>2. queue'[j] = queue[i] /\ j \in 1..(Len(queue) - 1)
      BY <2>3, <2>5, <3>1
    <3>3. PICK k \in Nat : j = k + 1
      <4>1. j - 1 \in Nat /\ j = (j - 1) + 1
        BY <2>2, <3>2
      <4> QED
        BY <4>1
    <3>4. Turn * (i - 1) = Turn * k + Turn /\ Turn * k \in Nat /\ j - 1 = k
      <4>1. i - 1 = k + 1 /\ j - 1 = k
        BY <3>1, <3>3
      <4>2. Turn * (k + 1) = Turn * k + Turn /\ Turn * k \in Nat
        BY <2>7, <3>3
      <4> QED
        BY <4>1, <4>2
    <3>5. ControlDone' = now + Turn /\ Turn' = Turn
      <4>1. ControlDone' = now + PacketProcessing + TxControl + ControlFrameGap
        BY <2>6 DEF ControlDone
      <4> QED
        BY <2>7, <4>1, Constants DEF Turn
    <3>6. PICK w \in Nat : w = Turn * k
      BY <3>4
    <3>7. now + (w + Turn) + PacketProcessing + PacketDelay <= at
      BY <1>1, <2>1, <3>4, <3>6
    <3>8. now + Turn + w + PacketProcessing + PacketDelay <= at
      BY <2>7, <3>6, <3>7
    <3>9. ControlDone' + Turn' * (j - 1) + PacketProcessing + PacketDelay <= at
      BY <3>4, <3>5, <3>6, <3>8
    <3> QED
      BY <2>1, <3>2, <3>9 DEF WaitsInTime, Announced
  <2> QED
    BY <2>8, <2>9
<1> QED
  BY <1>2, <1>3, <1>4 DEF Announced

\* Steps that leave the control messages alone.
LEMMA SameAnnounced ==
  ASSUME UNCHANGED <<controlVars, entered>>, NEW m \in Message, NEW send \in Int, NEW at \in Int,
         Announced(m, send, at)
  PROVE  Announced(m, send, at)'
BY DEF controlVars, Announced, HasEntered, StartsInTime, WaitsInTime, ControlDone, Turn, Idle

\* A step that launches no burst, and adds no timer that is not announced.
LEMMA KeepsLead ==
  ASSUME TInv, LeadInv, left' = left, entered \subseteq entered',
         \A t \in timers' : t.fn = "data" =>
           \/ t \in timers /\ (Announced(t.msg, t.send, t.at) => Announced(t.msg, t.send, t.at)')
           \/ Announced(t.msg, t.send, t.at)'
  PROVE  LeadInv'
<1>1. LeadKept'
  BY DEF LeadInv, LeadKept
<1>2. \A t \in timers' : t.fn = "data" => Announced(t.msg, t.send, t.at)'
  BY DEF LeadInv
<1> QED
  BY <1>1, <1>2 DEF LeadInv

\* The fields of a timer.
LEMMA TimerFields ==
  ASSUME TInv, NEW t \in timers
  PROVE  t.msg \in Message /\ t.send \in Int /\ t.at \in Int /\ t.horizon \in Int /\ now <= t.at
BY DEF TInv, TypeOK, Timer, Timely

LEMMA PlanLead == TInv /\ LeadInv /\ Plans => LeadInv'
<1> SUFFICES ASSUME TInv, LeadInv, NEW m \in Message, NEW d \in Durations, NEW send \in Int,
                    NEW at \in Int, NEW check \in Int, NEW h \in Int,
                    PlanStep(m, d, send, at, check, h)
             PROVE  LeadInv'
  BY DEF Plans
<1> PICK c : c = [msg |-> m, send |-> send]
  OBVIOUS
<1>1. c \in Control /\ c.msg = m /\ c.send = send
  BY DEF Control
<1>2. left' = left /\ entered' = entered /\ now' = now
  BY ReadingFacts DEF PlanStep
<1>3. CASE UNCHANGED controlVars /\ timers' \subseteq timers
  <2>1. ASSUME NEW t \in timers', Announced(t.msg, t.send, t.at)
        PROVE  Announced(t.msg, t.send, t.at)'
    <3>1. t.msg \in Message /\ t.send \in Int /\ t.at \in Int
      BY <1>3, TimerFields
    <3> QED
      BY <1>2, <1>3, <2>1, <3>1, SameAnnounced
  <2> QED
    BY <1>2, <1>3, <2>1, KeepsLead
<1>4. CASE /\ ~Full /\ Enqueue(c)
           /\ timers' \subseteq timers \cup {DataTimer(m, send, at, h), CheckTimer(m, send, check, h)}
  <2>1. ASSUME NEW t \in timers, Announced(t.msg, t.send, t.at)
        PROVE  Announced(t.msg, t.send, t.at)'
    <3>1. t.msg \in Message /\ t.send \in Int /\ t.at \in Int
      BY TimerFields
    <3> QED
      BY <1>1, <1>2, <1>4, <2>1, <3>1, EnqueueAnnounced
  <2>2. Announced(m, send, at)'
    BY <1>1, <1>2, <1>4, PlanTimes, NewAnnounced
  <2>3. ASSUME NEW t \in timers', t.fn = "data", t \notin timers
        PROVE  Announced(t.msg, t.send, t.at)'
    <3>1. t = DataTimer(m, send, at, h)
      BY <1>4, <2>3 DEF CheckTimer
    <3>2. t.msg = m /\ t.send = send /\ t.at = at
      BY <3>1 DEF DataTimer
    <3> QED
      BY <2>2, <3>2
  <2> QED
    BY <1>2, <2>1, <2>3, KeepsLead
<1>5. Rest(m) \subseteq timers
  BY DEF Rest
<1> QED
  BY <1>3, <1>4, <1>5 DEF PlanStep

LEMMA QuietLead ==
  ASSUME TInv, LeadInv, left' = left, timers' \subseteq timers, UNCHANGED <<controlVars, entered>>
  PROVE  LeadInv'
<1>1. ASSUME NEW t \in timers', Announced(t.msg, t.send, t.at)
      PROVE  Announced(t.msg, t.send, t.at)'
  <2>1. t.msg \in Message /\ t.send \in Int /\ t.at \in Int
    BY TimerFields
  <2> QED
    BY <1>1, <2>1, SameAnnounced
<1> QED
  BY <1>1, KeepsLead

LEMMA SendCTRLLead == TInv /\ LeadInv /\ SendCTRL => LeadInv'
<1> SUFFICES ASSUME TInv, LeadInv, SendCTRL PROVE LeadInv'
  OBVIOUS
<1> PICK c : c = [msg |-> Answer, send |-> 0]
  OBVIOUS
<1>1. c \in Control
  BY DEF Control
<1>2. left' = left /\ entered' = entered /\ timers' = timers
  BY DEF SendCTRL, messageVars
<1>3. CASE UNCHANGED controlVars
  BY <1>2, <1>3, QuietLead
<1>4. CASE ~Full /\ Enqueue(c)
  <2>1. ASSUME NEW t \in timers, Announced(t.msg, t.send, t.at)
        PROVE  Announced(t.msg, t.send, t.at)'
    <3>1. t.msg \in Message /\ t.send \in Int /\ t.at \in Int
      BY TimerFields
    <3> QED
      BY <1>1, <1>2, <1>4, <2>1, <3>1, EnqueueAnnounced
  <2> QED
    BY <1>2, <2>1, KeepsLead
<1> QED
  BY <1>3, <1>4 DEF SendCTRL

LEMMA ControlStepsLead ==
  TInv /\ LeadInv /\ (TransmitStart \/ ControlTransmitComplete) => LeadInv'
<1> SUFFICES ASSUME TInv, LeadInv, TransmitStart \/ ControlTransmitComplete PROVE LeadInv'
  OBVIOUS
<1>1. left' = left /\ entered \subseteq entered' /\ timers' = timers
  <2>1. CASE TransmitStart
    BY <2>1 DEF TransmitStart, messageVars
  <2>2. CASE ControlTransmitComplete
    BY <2>2 DEF ControlTransmitComplete, messageVars
  <2> QED
    BY <2>1, <2>2
<1>2. ASSUME NEW t \in timers, Announced(t.msg, t.send, t.at)
      PROVE  Announced(t.msg, t.send, t.at)'
  <2>1. t.msg \in Message /\ t.send \in Int /\ t.at \in Int
    BY TimerFields
  <2>2. CASE TransmitStart
    BY <1>2, <2>1, <2>2, TransmitStartAnnounced
  <2>3. CASE ControlTransmitComplete
    BY <1>2, <2>1, <2>3, CompleteAnnounced
  <2> QED
    BY <2>2, <2>3
<1> QED
  BY <1>1, <1>2, KeepsLead

\* When the burst leaves, its control message can only be in the fibre.
LEMMA DataLead == PositiveDelay /\ TInv /\ LeadInv /\ DataTransmitStart => LeadInv'
<1> SUFFICES ASSUME PositiveDelay, TInv, LeadInv, NEW t \in timers, DataStep(t) PROVE LeadInv'
  BY DataTransmitStartStep
<1>1. /\ t.fn = "data" /\ t.at = now /\ timers' \subseteq timers
      /\ UNCHANGED <<controlVars, entered>>
      /\ \/ left' = left
         \/ left' = left \cup
               {[msg |-> t.msg, send |-> t.send, at |-> now, horizon |-> t.horizon]}
  BY DEF DataStep
<1>2. /\ now \in Nat /\ PacketProcessing \in Nat /\ PacketDelay \in Nat /\ PacketDelay > 0
      /\ Turn \in Nat
  BY TurnFacts, Constants DEF PositiveDelay, TInv, IInv, ClockTypeOK
<1>3. Announced(t.msg, t.send, now)
  BY <1>1 DEF LeadInv
<1>4. ~StartsInTime(t.msg, t.send, now)
  <2> SUFFICES ASSUME StartsInTime(t.msg, t.send, now) PROVE FALSE
    OBVIOUS
  <2>1. /\ now <= sending.start /\ sending.start + PacketDelay <= now /\ sending.start \in Int
    BY DEF StartsInTime, TInv, Timely, TypeOK, Transmission
  <2> QED
    BY <1>2, <2>1
<1>5. ~WaitsInTime(t.msg, t.send, now)
  <2> SUFFICES ASSUME WaitsInTime(t.msg, t.send, now) PROVE FALSE
    OBVIOUS
  <2>1. PICK i \in 1..Len(queue) :
          ControlDone + Turn * (i - 1) + PacketProcessing + PacketDelay <= now
    BY DEF WaitsInTime
  <2>2. queue # <<>> /\ i - 1 \in Nat
    BY LenProperties DEF TInv, TypeOK
  <2>3. ControlDone \in Int /\ now <= ControlDone
    <3>1. sending # Idle /\ sending \in Transmission
      BY <2>2 DEF TInv, TypeOK, Timely
    <3>2. /\ sending.start \in Int /\ sending.launched \in BOOLEAN
          /\ ControlDone = sending.start + TxControl + ControlFrameGap
      BY <3>1 DEF Transmission, ControlDone
    <3>3. CASE sending.launched
      BY <1>2, <3>1, <3>2, <3>3, Constants DEF TInv, Timely
    <3>4. CASE ~sending.launched
      <4>1. now <= sending.start
        BY <3>1, <3>4 DEF TInv, Timely
      <4> QED
        BY <1>2, <3>2, <4>1, Constants
    <3> QED
      BY <3>3, <3>4
  <2>4. PICK w : w = Turn * (i - 1)
    OBVIOUS
  <2>5. w \in Nat
    BY <1>2, <2>2, <2>4
  <2>6. ControlDone + w + PacketProcessing + PacketDelay <= now
    BY <2>1, <2>4
  <2> QED
    BY <1>2, <2>3, <2>5, <2>6
<1>6. HasEntered(t.msg, t.send, now)
  BY <1>3, <1>4, <1>5 DEF Announced
<1>7. LeadKept'
  <2>1. ASSUME NEW b \in left'
        PROVE  \E c \in entered : c.msg = b.msg /\ c.send = b.send /\ c.at + PacketDelay <= b.at
    <3>1. CASE b \in left
      BY <3>1 DEF LeadInv, LeadKept
    <3>2. CASE b.msg = t.msg /\ b.send = t.send /\ b.at = now
      BY <1>6, <3>2 DEF HasEntered
    <3> QED
      BY <1>1, <3>1, <3>2
  <2> QED
    BY <1>1, <2>1 DEF LeadKept
<1>8. \A u \in timers' : u.fn = "data" => Announced(u.msg, u.send, u.at)'
  <2> SUFFICES ASSUME NEW u \in timers', u.fn = "data" PROVE Announced(u.msg, u.send, u.at)'
    OBVIOUS
  <2>1. u \in timers /\ u.msg \in Message /\ u.send \in Int /\ u.at \in Int
    BY <1>1, TimerFields
  <2>2. Announced(u.msg, u.send, u.at)
    BY <2>1 DEF LeadInv
  <2> QED
    BY <1>1, <2>1, <2>2, SameAnnounced
<1> QED
  BY <1>7, <1>8 DEF LeadInv

LEMMA StepLead == PositiveDelay /\ TInv /\ LeadInv /\ [Next]_vars => LeadInv'
<1> SUFFICES ASSUME PositiveDelay, TInv, LeadInv, [Next]_vars PROVE LeadInv'
  OBVIOUS
<1>1. ASSUME NEW m \in Message, NEW d \in Durations, Send(m, d) PROVE LeadInv'
  BY <1>1, SendPlans, PlanLead
<1>2. ASSUME NEW m \in Message, ReceiveNACK(m) PROVE LeadInv'
  BY <1>2, ReceiveNACKPlans, PlanLead
<1>3. ASSUME NEW m \in Message, ReceiveAWK(m) PROVE LeadInv'
  BY <1>3, QuietLead DEF ReceiveAWK
<1>4. CASE CheckSent
  BY <1>4, CheckSentPlans, PlanLead, QuietLead
<1>5. CASE DataTransmitComplete \/ BeginReconfigure \/ Advance \/ UNCHANGED vars
  BY <1>5, QuietLead
     DEF DataTransmitComplete, BeginReconfigure, Advance, vars, messageVars
<1> QED
  BY <1>1, <1>2, <1>3, <1>4, <1>5, SendCTRLLead, ControlStepsLead, DataLead DEF Next

\* A burst only enters the fibre PacketDelay after the control message that
\* announces it, however many messages were ahead of it, whatever the skew.
THEOREM LeadKeptHolds ==
  ASSUME PositiveDelay
  PROVE  Spec => []LeadKept
<1>1. Init => LeadInv
  BY DEF Init, LeadInv, LeadKept
<1>2. TInv /\ LeadInv /\ [Next]_vars => LeadInv'
  BY StepLead
<1>3. LeadInv => LeadKept
  BY DEF LeadInv
<1> QED
  BY <1>1, <1>2, <1>3, TimingInvariant, PTL DEF Spec

-----------------------------------------------------------------------------
(***************************************************************************)
(* Bursts do not meet at the sender.                                       *)
(***************************************************************************)
\* The clock of the device is not fast.  A fast one shows more time at the
\* second planning than has passed, and brings the bursts closer by that.
NotFast == Skew <= 0

\* When the device can send again after the burst of a timer.
Ends(t) == t.at + duration[t.msg] + DataFrameGap

\* m_next_transmit, in the simulator's clock.
Limit == next_transmit + Behind

DataTimers == {t \in timers : t.fn = "data"}

ApartInv ==
  /\ \A t \in DataTimers : Ends(t) < Limit
  /\ \A t, u \in DataTimers : t = u \/ Ends(t) < u.at \/ Ends(u) < t.at
  /\ data_until # None =>
       /\ data_until < Limit
       /\ \A t \in DataTimers : data_until < t.at

LEMMA LimitType ==
  ASSUME TInv
  PROVE  Limit \in Int /\ next_transmit \in Int /\ Behind \in Int /\ now \in Nat
BY DEF TInv, TypeOK, ClockTypeOK, Limit, Behind

LEMMA LimitTypeNext ==
  ASSUME TInv'
  PROVE  Limit' \in Int /\ next_transmit' \in Int /\ Behind' \in Int
<1>1. next_transmit' \in Int /\ ClockTypeOK'
  BY DEF TInv, TypeOK
<1>2. lastGlobal' \in Nat /\ lastLocal' \in Int
  BY <1>1 DEF ClockTypeOK
<1>3. Behind' \in Int
  BY <1>2 DEF Behind
<1> QED
  BY <1>1, <1>3 DEF Limit

LEMMA EndsType ==
  ASSUME TInv, NEW t \in timers
  PROVE  /\ t.msg \in Message /\ duration[t.msg] \in Durations /\ duration[t.msg] \in Nat
         /\ t.at \in Int /\ Ends(t) \in Int /\ t.at <= Ends(t)
<1>1. t.msg \in Message /\ t.at \in Int /\ duration[t.msg] # None
  BY TimerFields DEF TInv, Known
<1>2. duration[t.msg] \in Durations
  BY <1>1, KnownDuration
<1> QED
  BY <1>1, <1>2, Constants DEF Ends

\* Steps that plan nothing and launch nothing.
LEMMA KeepsApart ==
  ASSUME TInv, TInv', ApartInv, timers' \subseteq timers,
         \A t \in timers : duration'[t.msg] = duration[t.msg],
         Limit <= Limit', data_until' = data_until \/ data_until' = None
  PROVE  ApartInv'
<1>1. \A t \in DataTimers' : t \in DataTimers /\ Ends(t)' = Ends(t)
  BY DEF DataTimers, Ends
<1>2. ASSUME NEW t \in DataTimers'
      PROVE  Ends(t)' < Limit'
  <2>1. Ends(t)' = Ends(t) /\ Ends(t) < Limit /\ Ends(t) \in Int
    BY <1>1, EndsType DEF ApartInv, DataTimers
  <2>2. Limit \in Int /\ Limit' \in Int
    BY LimitType, LimitTypeNext
  <2> QED
    BY <2>1, <2>2
<1>3. ASSUME NEW t \in DataTimers', NEW u \in DataTimers'
      PROVE  t = u \/ Ends(t)' < u.at \/ Ends(u)' < t.at
  BY <1>1 DEF ApartInv
<1>4. ASSUME data_until' # None
      PROVE  data_until' < Limit' /\ \A t \in DataTimers' : data_until' < t.at
  <2>1. data_until' = data_until /\ data_until # None /\ data_until \in Int
    BY <1>4 DEF TInv, TypeOK, None
  <2>2. data_until < Limit /\ \A t \in DataTimers : data_until < t.at
    BY <2>1 DEF ApartInv
  <2>3. Limit \in Int /\ Limit' \in Int
    BY LimitType, LimitTypeNext
  <2>4. data_until' < Limit'
    BY <2>1, <2>2, <2>3
  <2> QED
    BY <1>1, <2>1, <2>2, <2>4
<1> QED
  BY <1>2, <1>3, <1>4 DEF ApartInv

\* The new burst starts when all that is planned has ended.
LEMMA PlanApart == NotFast /\ TInv /\ TInv' /\ ApartInv /\ Plans => ApartInv'
<1> SUFFICES ASSUME NotFast, TInv, TInv', ApartInv, NEW m \in Message, NEW d \in Durations,
                    NEW send \in Int, NEW at \in Int, NEW check \in Int, NEW h \in Int,
                    PlanStep(m, d, send, at, check, h)
             PROVE  ApartInv'
  BY DEF Plans
<1>1. /\ GetLocalTime /\ next_transmit <= send /\ next_transmit' = send + d + DataFrameGap + 1
      /\ duration' = [duration EXCEPT ![m] = d]
      /\ duration[m] = None \/ duration[m] = d
      /\ data_until' = data_until
      /\ timers' \subseteq timers \cup {DataTimer(m, send, at, h), CheckTimer(m, send, check, h)}
  BY DEF PlanStep, NextTransmit, Rest
<1>2. /\ Behind <= Behind' /\ Behind \in Int /\ Behind' \in Int /\ at = send + Behind'
      /\ d \in Nat /\ d > 0 /\ DataFrameGap \in Nat /\ next_transmit \in Int
  BY <1>1, BehindGrows, PlanTimes, Constants, LimitType DEF NotFast
<1>3. /\ Limit = next_transmit + Behind /\ Limit' = next_transmit' + Behind'
      /\ Limit \in Int /\ Limit' \in Int
  BY LimitType, LimitTypeNext DEF Limit
<1>4. Limit <= at /\ at + d + DataFrameGap < Limit' /\ Limit <= Limit'
  <2>1. PICK x : x = Behind
    OBVIOUS
  <2>2. PICK y : y = Behind'
    OBVIOUS
  <2>3. x \in Int /\ y \in Int /\ x <= y /\ at = send + y
    BY <1>2, <2>1, <2>2
  <2>4. Limit = next_transmit + x /\ Limit' = (send + d + DataFrameGap + 1) + y
    BY <1>1, <1>3, <2>1, <2>2
  <2>5. /\ d \in Nat /\ d > 0 /\ DataFrameGap \in Nat /\ next_transmit \in Int
        /\ next_transmit <= send
    BY <1>1, <1>2
  <2>6. /\ next_transmit + x <= at /\ at + d + DataFrameGap < (send + d + DataFrameGap + 1) + y
        /\ next_transmit + x <= (send + d + DataFrameGap + 1) + y
    BY <2>3, <2>5
  <2> QED
    BY <2>4, <2>6
<1>5. ASSUME NEW t \in timers
      PROVE  Ends(t)' = Ends(t)
  <2>1. t.msg \in Message /\ duration[t.msg] # None
    BY TimerFields DEF TInv, Known
  <2>2. duration'[t.msg] = duration[t.msg]
    BY <1>1, <2>1 DEF TInv, TypeOK
  <2> QED
    BY <2>2 DEF Ends
<1> PICK new : new = DataTimer(m, send, at, h)
  OBVIOUS
<1>6. new.at = at /\ Ends(new)' = at + d + DataFrameGap
  <2>1. duration'[m] = d
    BY <1>1 DEF TInv, TypeOK
  <2> QED
    BY <2>1 DEF DataTimer, Ends
<1>7. \A t \in DataTimers' : t \in DataTimers \/ t = new
  BY <1>1 DEF DataTimers, DataTimer, CheckTimer
<1>8. ASSUME NEW t \in DataTimers
      PROVE  Ends(t)' < Limit' /\ Ends(t)' < new.at
  <2>1. Ends(t)' = Ends(t) /\ Ends(t) \in Int /\ Ends(t) < Limit
    BY <1>5, EndsType DEF ApartInv, DataTimers
  <2> QED
    BY <1>3, <1>4, <1>6, <2>1
<1>9. \A t \in DataTimers' : Ends(t)' < Limit'
  BY <1>4, <1>6, <1>7, <1>8
<1>10. ASSUME NEW t \in DataTimers', NEW u \in DataTimers'
       PROVE  t = u \/ Ends(t)' < u.at \/ Ends(u)' < t.at
  <2>1. CASE t \in DataTimers /\ u \in DataTimers
    <3>1. Ends(t)' = Ends(t) /\ Ends(u)' = Ends(u)
      BY <1>5, <2>1 DEF DataTimers
    <3> QED
      BY <2>1, <3>1 DEF ApartInv
  <2> QED
    BY <1>7, <1>8, <2>1
<1>11. ASSUME data_until' # None
       PROVE  data_until' < Limit' /\ \A t \in DataTimers' : data_until' < t.at
  <2>1. data_until' = data_until /\ data_until \in Int
    BY <1>1, <1>11 DEF TInv, TypeOK, None
  <2>2. data_until < Limit /\ \A t \in DataTimers : data_until < t.at
    BY <1>1, <1>11 DEF ApartInv
  <2>3. data_until < Limit' /\ data_until < at
    <3>1. PICK y \in Int : y = Limit'
      BY <1>3
    <3>2. Limit <= y /\ Limit <= at /\ data_until < Limit /\ Limit \in Int
      BY <1>3, <1>4, <2>2, <3>1
    <3>3. data_until < y /\ data_until < at
      BY <2>1, <3>2
    <3> QED
      BY <3>1, <3>3
  <2> QED
    BY <1>6, <1>7, <2>1, <2>2, <2>3
<1> QED
  BY <1>9, <1>10, <1>11 DEF ApartInv

LEMMA ReadingApart ==
  ASSUME NotFast, TInv, TInv', ApartInv, GetLocalTime, next_transmit <= next_transmit',
         UNCHANGED <<timers, duration, data_until>>
  PROVE  ApartInv'
<1>1. Behind <= Behind' /\ Behind \in Int /\ Behind' \in Int
  BY BehindGrows DEF NotFast
<1>2. next_transmit \in Int /\ next_transmit' \in Int
  BY DEF TInv, TypeOK
<1>3. Limit <= Limit'
  <2>1. PICK x : x = Behind
    OBVIOUS
  <2>2. PICK y : y = Behind'
    OBVIOUS
  <2>3. PICK n : n = next_transmit'
    OBVIOUS
  <2>4. x \in Int /\ y \in Int /\ x <= y /\ n \in Int /\ next_transmit <= n
    BY <1>1, <1>2, <2>1, <2>2, <2>3
  <2>5. Limit = next_transmit + x /\ Limit' = n + y
    BY <2>1, <2>2, <2>3 DEF Limit
  <2> QED
    BY <1>2, <2>4, <2>5
<1> QED
  BY <1>3, KeepsApart

LEMMA DataApart == TInv /\ TInv' /\ ApartInv /\ DataTransmitStart => ApartInv'
<1> SUFFICES ASSUME TInv, TInv', ApartInv, NEW t \in timers, DataStep(t) PROVE ApartInv'
  BY DataTransmitStartStep
<1>1. /\ t \in DataTimers /\ t.at = now /\ timers' = timers \ {t} /\ duration' = duration
      /\ UNCHANGED <<clockVars, next_transmit>>
  BY DEF DataStep, DataTimers
<1>2. Limit' = Limit
  BY <1>1 DEF Limit, Behind, clockVars
<1>3. data_until = None
  <2> SUFFICES ASSUME data_until # None PROVE FALSE
    OBVIOUS
  <2>1. data_until < now /\ now <= data_until /\ data_until \in Nat /\ now \in Nat
    BY <1>1, LimitType DEF ApartInv, TInv, Timely, TypeOK
  <2> QED
    BY <2>1
<1>4. data_until' = Ends(t)
  BY <1>1, <1>3 DEF DataStep, Ends
<1>5. Ends(t) \in Int /\ now <= Ends(t) /\ Ends(t) < Limit
  BY <1>1, EndsType DEF ApartInv
<1>6. ASSUME NEW u \in DataTimers'
      PROVE  u \in DataTimers /\ Ends(t) < u.at /\ Ends(u)' = Ends(u)
  <2>1. u \in DataTimers /\ u # t /\ u \in timers /\ Ends(u)' = Ends(u)
    BY <1>1, <1>6 DEF DataTimers, Ends
  <2>2. Ends(t) < u.at \/ Ends(u) < t.at
    BY <1>1, <2>1 DEF ApartInv
  <2>3. now <= u.at /\ u.at <= Ends(u) /\ Ends(u) \in Int /\ u.at \in Int /\ now \in Nat
    BY <2>1, EndsType, TimerFields, LimitType
  <2> QED
    BY <1>1, <2>1, <2>2, <2>3
<1> QED
  BY <1>2, <1>4, <1>5, <1>6 DEF ApartInv

LEMMA StepApart == NotFast /\ TInv /\ TInv' /\ ApartInv /\ [Next]_vars => ApartInv'
<1> SUFFICES ASSUME NotFast, TInv, TInv', ApartInv, [Next]_vars PROVE ApartInv'
  OBVIOUS
<1>0. ASSUME UNCHANGED <<lastGlobal, lastLocal, next_transmit, duration>>, timers' \subseteq timers,
             data_until' = data_until \/ data_until' = None
      PROVE  ApartInv'
  <2>1. Limit <= Limit'
    BY <1>0, LimitType DEF Limit, Behind
  <2> QED
    BY <1>0, <2>1, KeepsApart
<1>1. ASSUME NEW m \in Message, NEW d \in Durations, Send(m, d) PROVE ApartInv'
  BY <1>1, SendPlans, PlanApart
<1>2. ASSUME NEW m \in Message, ReceiveNACK(m) PROVE ApartInv'
  BY <1>2, ReceiveNACKPlans, PlanApart
<1>3. ASSUME NEW m \in Message, ReceiveAWK(m) PROVE ApartInv'
  BY <1>0, <1>3 DEF ReceiveAWK, clockVars
<1>4. CASE CheckSent
  <2>1. CASE Plans
    BY <2>1, PlanApart
  <2>2. CASE ~Plans
    <3>1. /\ timers' \subseteq timers
          /\ UNCHANGED <<clockVars, next_transmit, data_until, duration>>
      BY <1>4, <2>2, CheckSentPlans
    <3> QED
      BY <1>0, <3>1 DEF clockVars
  <2> QED
    BY <2>1, <2>2
<1>5. CASE SendCTRL
  <2>1. GetLocalTime /\ UNCHANGED <<next_transmit, timers, duration, data_until>>
    BY <1>5 DEF SendCTRL, messageVars
  <2>2. next_transmit <= next_transmit'
    BY <2>1, LimitType
  <2> QED
    BY <2>1, <2>2, ReadingApart
<1>6. CASE BeginReconfigure
  <2>1. ReconfigureStep
    BY <1>6, ReconfigureFacts
  <2> QED
    BY <2>1, ReadingApart DEF ReconfigureStep, messageVars
<1>7. CASE TransmitStart
  BY <1>0, <1>7 DEF TransmitStart, clockVars, messageVars
<1>8. CASE ControlTransmitComplete
  BY <1>0, <1>8 DEF ControlTransmitComplete, clockVars, messageVars
<1>9. CASE DataTransmitComplete
  BY <1>0, <1>9 DEF DataTransmitComplete, clockVars, messageVars
<1>10. CASE Advance
  BY <1>0, <1>10 DEF Advance, Tick, messageVars
<1>11. CASE UNCHANGED vars
  BY <1>0, <1>11 DEF vars, clockVars, messageVars
<1> QED
  BY <1>1, <1>2, <1>3, <1>4, <1>5, <1>6, <1>7, <1>8, <1>9, <1>10, <1>11, DataApart DEF Next

\* DataTransmitStart never finds a burst in transmission, when the clock is
\* not fast.
THEOREM BurstsApartHolds ==
  ASSUME NotFast
  PROVE  Spec => []BurstsApart
<1>1. Init => ApartInv
  BY DEF Init, ApartInv, DataTimers
<1>2. TInv /\ TInv' /\ ApartInv /\ [Next]_vars => ApartInv'
  BY StepApart
<1>3. TInv /\ ApartInv => BurstsApart
  <2> SUFFICES ASSUME TInv, ApartInv, data_until # None,
                      NEW t \in timers, t.fn = "data", t.at = now
               PROVE  FALSE
    BY DEF BurstsApart
  <2>1. data_until < now /\ now <= data_until /\ data_until \in Nat /\ now \in Nat
    BY LimitType DEF ApartInv, DataTimers, TInv, Timely, TypeOK
  <2> QED
    BY <2>1
<1> QED
  BY <1>1, <1>2, <1>3, TimingInvariant, PTL DEF Spec

-----------------------------------------------------------------------------
(***************************************************************************)
(* Two copies of a message.                                                *)
(***************************************************************************)
Ahead == PacketProcessing + PacketDelay

\* A message has one burst to come, that of its entry while it has one; what of
\* it has left did so at least the lead of a control message before.
CopyInv ==
  /\ \A t \in DataTimers : sent_table[t.msg] # None => t.send = sent_table[t.msg]
  /\ \A t, u \in DataTimers : t.msg = u.msg => t = u
  /\ \A b \in left : b.at <= now
  /\ \A t \in DataTimers, b \in left : b.msg = t.msg => b.at + Ahead <= t.at
  /\ \A b, c \in left : b.msg = c.msg /\ b.at < c.at => b.at + Ahead <= c.at

LEMMA KeepsCopy ==
  ASSUME TInv, CopyInv, left' = left, timers' \subseteq timers, now' = now \/ now' = now + 1,
         \A m \in Message : sent_table'[m] = sent_table[m] \/ sent_table'[m] = None
  PROVE  CopyInv'
<1>1. \A t \in DataTimers' : t \in DataTimers /\ t.msg \in Message
  BY TimerFields DEF DataTimers
<1>2. \A b \in left : b.at <= now'
  <2> SUFFICES ASSUME NEW b \in left PROVE b.at <= now'
    OBVIOUS
  <2>1. b.at \in Nat /\ b.at <= now /\ now \in Nat
    BY LimitType DEF CopyInv, TInv, TypeOK, Left
  <2> QED
    BY <2>1
<1>3. Ahead' = Ahead
  BY DEF Ahead
<1>4. \A t \in DataTimers' : sent_table'[t.msg] # None => t.send = sent_table'[t.msg]
  BY <1>1 DEF CopyInv
<1> QED
  BY <1>1, <1>2, <1>3, <1>4 DEF CopyInv

LEMMA PlanCopy == TInv /\ CopyInv /\ Plans => CopyInv'
<1> SUFFICES ASSUME TInv, CopyInv, NEW m \in Message, NEW d \in Durations,
                    NEW send \in Int, NEW at \in Int, NEW check \in Int, NEW h \in Int,
                    PlanStep(m, d, send, at, check, h)
             PROVE  CopyInv'
  BY DEF Plans
<1>1. /\ left' = left /\ now' = now
      /\ duration[m] = None \/ sent_table[m] # None
  BY ReadingFacts DEF PlanStep
<1> PICK new : new = DataTimer(m, send, at, h)
  OBVIOUS
<1>2. new.msg = m /\ new.send = send /\ new.at = at
  BY DEF DataTimer
<1>3. now + Ahead <= at /\ now \in Nat /\ Ahead \in Nat
  <2>1. PICK w : w = Turn * Backlog
    OBVIOUS
  <2>2. w \in Nat /\ now + PacketProcessing + PacketDelay + w <= at /\ now \in Nat
    BY <2>1, TurnFacts, PlanTimes, LimitType
  <2> QED
    BY <2>2, Constants DEF Ahead
\* The events of an earlier attempt at m are cancelled.
<1>4. ASSUME NEW t \in DataTimers, t \in Rest(m)
      PROVE  t.msg # m
  <2> SUFFICES ASSUME t.msg = m PROVE FALSE
    OBVIOUS
  <2>1. duration[m] # None
    BY DEF DataTimers, TInv, Known
  <2>2. t.send = sent_table[m]
    BY <1>1, <2>1 DEF CopyInv
  <2> QED
    BY <1>4, <2>2 DEF Rest
<1>5. /\ \A t \in DataTimers' : (t \in DataTimers /\ t.msg # m) \/ t = new
      /\ new \in DataTimers' => sent_table'[m] = send \/ sent_table'[m] = None
      /\ \A k \in Message : k # m => sent_table'[k] = sent_table[k]
  <2>1. sent_table \in [Message -> Int]
    BY DEF TInv, TypeOK
  <2>2. timers' \subseteq Rest(m) \cup {new, CheckTimer(m, send, check, h)}
    BY DEF PlanStep
  <2>3. \A t \in timers' : t.fn = "data" => t \in Rest(m) \/ t = new
    BY <2>2 DEF CheckTimer
  <2>4. Rest(m) \subseteq timers
    BY DEF Rest
  <2>5. \A t \in DataTimers' : (t \in DataTimers /\ t.msg # m) \/ t = new
    BY <1>4, <2>3, <2>4 DEF DataTimers
  <2>6. /\ sent_table'[m] = send \/ sent_table'[m] = None
        /\ \A k \in Message : k # m => sent_table'[k] = sent_table[k]
    BY <2>1 DEF PlanStep
  <2> QED
    BY <2>5, <2>6
<1>6. \A t \in DataTimers : t.msg \in Message
  BY TimerFields DEF DataTimers
<1>7. ASSUME NEW t \in DataTimers', sent_table'[t.msg] # None
      PROVE  t.send = sent_table'[t.msg]
  BY <1>2, <1>5, <1>6, <1>7 DEF CopyInv
<1>8. ASSUME NEW t \in DataTimers', NEW u \in DataTimers', t.msg = u.msg
      PROVE  t = u
  BY <1>2, <1>5, <1>8 DEF CopyInv
<1>9. ASSUME NEW t \in DataTimers', NEW b \in left, b.msg = t.msg
      PROVE  b.at + Ahead <= t.at
  <2>1. CASE t \in DataTimers
    BY <1>9, <2>1 DEF CopyInv
  <2>2. CASE t = new
    <3>1. b.at <= now /\ b.at \in Nat
      BY DEF CopyInv, TInv, TypeOK, Left
    <3> QED
      BY <1>2, <1>3, <2>2, <3>1
  <2> QED
    BY <1>5, <2>1, <2>2
<1>10. Ahead' = Ahead
  BY DEF Ahead
<1>11. /\ \A b \in left' : b.at <= now'
       /\ \A b, c \in left' : b.msg = c.msg /\ b.at < c.at => b.at + Ahead <= c.at
  BY <1>1 DEF CopyInv
<1> QED
  BY <1>1, <1>7, <1>8, <1>9, <1>10, <1>11 DEF CopyInv

LEMMA DataCopy == TInv /\ CopyInv /\ DataTransmitStart => CopyInv'
<1> SUFFICES ASSUME TInv, CopyInv, NEW t \in timers, DataStep(t) PROVE CopyInv'
  BY DataTransmitStartStep
<1>1. /\ t \in DataTimers /\ t.at = now /\ timers' = timers \ {t}
      /\ sent_table' = sent_table /\ now' = now
  BY DEF DataStep, DataTimers, clockVars
<1>2. CASE left' = left
  BY <1>1, <1>2, KeepsCopy
<1> PICK new : new = [msg |-> t.msg, send |-> t.send, at |-> now, horizon |-> t.horizon]
  OBVIOUS
<1>3. CASE left' = left \cup {new}
  <2>1. new.msg = t.msg /\ new.at = now
    OBVIOUS
  <2>2. \A u \in DataTimers' : u \in DataTimers /\ u.msg # t.msg
    BY <1>1 DEF DataTimers, CopyInv
  <2>3. Ahead' = Ahead
    BY DEF Ahead
  <2>4. \A b \in left : b.at <= now /\ b.at \in Nat /\ now \in Nat
    BY LimitType DEF CopyInv, TInv, TypeOK, Left
  <2>5. ASSUME NEW b \in left', NEW c \in left', b.msg = c.msg, b.at < c.at
        PROVE  b.at + Ahead <= c.at
    <3>1. CASE b \in left /\ c \in left
      BY <2>5, <3>1 DEF CopyInv
    <3>2. CASE b \in left /\ c = new
      <4>1. b.at + Ahead <= t.at
        BY <1>1, <2>1, <2>5, <3>2 DEF CopyInv
      <4> QED
        BY <1>1, <2>1, <3>2, <4>1
    <3>3. b # new
      <4> SUFFICES ASSUME b = new PROVE FALSE
        OBVIOUS
      <4>1. now < c.at /\ c.at <= now /\ c.at \in Nat /\ now \in Nat
        BY <1>3, <2>1, <2>4, <2>5, LimitType
      <4> QED
        BY <4>1
    <3> QED
      BY <1>3, <3>1, <3>2, <3>3
  <2>6. \A u \in DataTimers', b \in left' : b.msg = u.msg => b.at + Ahead <= u.at
    BY <1>3, <2>1, <2>2 DEF CopyInv
  <2>7. \A b \in left' : b.at <= now'
    BY <1>1, <1>3, <2>1, <2>4, LimitType
  <2>8. /\ \A u \in DataTimers' : sent_table'[u.msg] # None => u.send = sent_table'[u.msg]
        /\ \A u, v \in DataTimers' : u.msg = v.msg => u = v
    BY <1>1, <2>2 DEF CopyInv
  <2> QED
    BY <2>3, <2>5, <2>6, <2>7, <2>8 DEF CopyInv
<1> QED
  BY <1>2, <1>3 DEF DataStep

LEMMA StepCopy == TInv /\ CopyInv /\ [Next]_vars => CopyInv'
<1> SUFFICES ASSUME TInv, CopyInv, [Next]_vars PROVE CopyInv'
  OBVIOUS
<1>0. ASSUME UNCHANGED <<now, left, sent_table>>, timers' \subseteq timers
      PROVE  CopyInv'
  BY <1>0, KeepsCopy
<1>1. ASSUME NEW m \in Message, NEW d \in Durations, Send(m, d) PROVE CopyInv'
  BY <1>1, SendPlans, PlanCopy
<1>2. ASSUME NEW m \in Message, ReceiveNACK(m) PROVE CopyInv'
  BY <1>2, ReceiveNACKPlans, PlanCopy
<1>3. ASSUME NEW m \in Message, ReceiveAWK(m) PROVE CopyInv'
  <2>1. sent_table' = [sent_table EXCEPT ![m] = None] /\ sent_table \in [Message -> Int]
    BY <1>3 DEF ReceiveAWK, TInv, TypeOK
  <2>2. \A k \in Message : sent_table'[k] = sent_table[k] \/ sent_table'[k] = None
    BY <2>1
  <2>3. left' = left /\ timers' \subseteq timers /\ now' = now
    BY <1>3 DEF ReceiveAWK, clockVars
  <2> QED
    BY <2>2, <2>3, KeepsCopy
<1>4. CASE CheckSent
  <2>1. CASE Plans
    BY <2>1, PlanCopy
  <2>2. CASE ~Plans
    <3>1. timers' \subseteq timers /\ UNCHANGED <<clockVars, sent_table, left>>
      BY <1>4, <2>2, CheckSentPlans
    <3> QED
      BY <1>0, <3>1 DEF clockVars
  <2> QED
    BY <2>1, <2>2
<1>5. CASE SendCTRL \/ BeginReconfigure
  <2>1. GetLocalTime /\ left' = left /\ timers' = timers /\ sent_table' = sent_table
    BY <1>5 DEF SendCTRL, BeginReconfigure, messageVars
  <2> QED
    BY <1>0, <2>1 DEF GetLocalTime
<1>6. CASE TransmitStart
  BY <1>0, <1>6 DEF TransmitStart, clockVars, messageVars
<1>7. CASE ControlTransmitComplete
  BY <1>0, <1>7 DEF ControlTransmitComplete, clockVars, messageVars
<1>8. CASE DataTransmitComplete
  BY <1>0, <1>8 DEF DataTransmitComplete, clockVars, messageVars
<1>9. CASE Advance
  BY <1>9, KeepsCopy DEF Advance, Tick, messageVars
<1>10. CASE UNCHANGED vars
  BY <1>0, <1>10 DEF vars, clockVars, messageVars
<1> QED
  BY <1>1, <1>2, <1>3, <1>4, <1>5, <1>6, <1>7, <1>8, <1>9, <1>10, DataCopy DEF Next

\* Two copies of a message are never in the fibre at once, whatever the skew and
\* the order of AWKs, NACKs and timeouts.
THEOREM OneCopyInFibreHolds == Spec => []OneCopyInFibre
<1>1. Init => CopyInv
  BY DEF Init, CopyInv, DataTimers
<1>2. TInv /\ CopyInv /\ [Next]_vars => CopyInv'
  BY StepCopy
<1>3. TInv /\ CopyInv => OneCopyInFibre
  <2> SUFFICES ASSUME TInv, CopyInv, NEW b \in left, NEW c \in left,
                      b.msg = c.msg, b.at < c.at,
                      NEW time, time = duration[b.msg] + FibreDelay,
                      time < PacketProcessing + PacketDelay
               PROVE  b.at + time < c.at
    BY DEF OneCopyInFibre
  <2>1. b.at + Ahead <= c.at
    BY DEF CopyInv
  <2>2. b.msg \in Message /\ b.at \in Nat /\ c.at \in Nat /\ duration[b.msg] # None
    BY DEF TInv, TypeOK, Left, Known
  <2>3. duration[b.msg] \in Nat
    BY <2>2, KnownDuration, Constants
  <2>4. time \in Nat /\ Ahead \in Nat /\ time < Ahead
    BY <2>3, Constants DEF Ahead
  <2> QED
    BY <2>1, <2>2, <2>4
<1> QED
  BY <1>1, <1>2, <1>3, TimingInvariant, PTL DEF Spec

-----------------------------------------------------------------------------
(***************************************************************************)
(* Bursts and reconfigurations.                                            *)
(***************************************************************************)
\* The clock of the device moves whenever that of the simulator does: the skew
\* of no clock is half its rate.
Running == -Unit < 2 * Skew

\* The network begins the timeslot k at this instant of the simulator.
Boundary(k) == R + k * (R + D)

\* The table of a device holds the timeslots from K on, in the clock the device
\* had when it wrote them down: none is later than the boundary it stands for,
\* and none earlier by more than the clock is behind by now.
SlotTable(K, f) ==
  /\ 0 <= Behind
  /\ reconfigure = Boundary(K + 1) - R
  /\ slots = {f[k] : k \in K..(K + ScheduleSize - 1)}
  /\ \A i, j \in K..(K + ScheduleSize - 1) : i < j => f[i] < f[j]
  /\ \A k \in K..(K + ScheduleSize - 1) : f[k] <= Boundary(k) /\ Boundary(k) <= f[k] + Behind
  /\ f[K + ScheduleSize - 1] <= lastLocal + Span
  /\ f[K + ScheduleSize - 1] = lastLocal + Span => lastGlobal <= reconfigure - R - D

SlotInv == \E K \in Nat, f \in [Nat -> Int] : SlotTable(K, f)

LEMMA BoundaryFacts ==
  ASSUME NEW i \in Nat, NEW j \in Nat
  PROVE  /\ Boundary(i) \in Int
         /\ Boundary(i + 1) = Boundary(i) + R + D
         /\ i < j => Boundary(i) + R + D <= Boundary(j)
<1>1. PICK p \in Nat : p = R + D
  BY Constants
<1>2. Boundary(i) = R + i * p /\ Boundary(i + 1) = R + (i + 1) * p /\ Boundary(j) = R + j * p
  BY <1>1 DEF Boundary
<1>3. i * p \in Nat /\ (i + 1) * p = i * p + p /\ R \in Nat /\ D \in Nat
  BY <1>1, Constants
<1>4. ASSUME i < j
      PROVE  i * p + p <= j * p
  <2>1. PICK n \in Nat : j = i + 1 + n
    <3>1. j - i - 1 \in Nat /\ j = i + 1 + (j - i - 1)
      BY <1>4
    <3> QED
      BY <3>1
  <2>2. (i + 1 + n) * p = i * p + p + n * p /\ n * p \in Nat
    BY <1>1
  <2> QED
    BY <1>3, <2>1, <2>2
<1>5. j * p \in Nat
  BY <1>1
<1> QED
  BY <1>1, <1>2, <1>3, <1>4, <1>5

\* The timeslot that enters the table is the last before Span has passed.
LEMMA NewBoundary ==
  ASSUME NEW K \in Nat
  PROVE  Boundary(K + ScheduleSize) = Boundary(K + 1) - R + Span
<1>1. PICK p \in Nat : p = R + D
  BY Constants
<1>2. PICK S \in Nat : S = ScheduleSize - 1
  BY Constants
<1>3. K + ScheduleSize = K + 1 + S
  BY <1>2, Constants
<1>4. /\ Boundary(K + ScheduleSize) = R + (K + 1 + S) * p /\ Boundary(K + 1) = R + (K + 1) * p
      /\ Span = R + p * S
  BY <1>1, <1>2, <1>3 DEF Boundary, Span
<1>5. /\ (K + 1 + S) * p = (K + 1) * p + p * S /\ (K + 1) * p \in Nat /\ p * S \in Nat
      /\ R \in Nat
  BY <1>1, <1>2, Constants
<1> QED
  BY <1>4, <1>5

LEMMA InitSlots == Init => SlotInv
<1> SUFFICES ASSUME Init PROVE SlotInv
  OBVIOUS
<1> PICK f : f = [k \in Nat |-> Boundary(k)]
  OBVIOUS
<1>1. f \in [Nat -> Int] /\ \A k \in Nat : f[k] = Boundary(k) /\ Boundary(k) \in Int
  BY BoundaryFacts
<1>2. PICK S \in Nat : ScheduleSize = S + 1
  <2>1. ScheduleSize - 1 \in Nat /\ ScheduleSize = (ScheduleSize - 1) + 1
    BY Constants
  <2> QED
    BY <2>1
<1>3. 0 + ScheduleSize - 1 = S /\ ScheduleSize - 1 = S
  BY <1>2
<1>4. /\ lastGlobal = 0 /\ lastLocal = 0 /\ reconfigure = R + D
      /\ slots = {R + k * (R + D) : k \in 0..S}
  BY <1>3 DEF Init
<1>5. slots = {f[k] : k \in 0..S}
  <2>1. \A k \in 0..S : f[k] = R + k * (R + D)
    BY <1>1 DEF Boundary
  <2> QED
    BY <1>4, <2>1
<1>6. Behind = 0
  BY <1>4 DEF Behind
<1>7. reconfigure = Boundary(0 + 1) - R
  <2>1. Boundary(0 + 1) = Boundary(0) + R + D /\ Boundary(0) = R
    <3>1. 0 * (R + D) = 0 /\ R + 0 = R
      BY Constants
    <3> QED
      BY <3>1, BoundaryFacts DEF Boundary
  <2> QED
    BY <1>4, <2>1, Constants
<1>8. \A i, j \in 0..S : i < j => f[i] < f[j]
  <2> SUFFICES ASSUME NEW i \in 0..S, NEW j \in 0..S, i < j PROVE f[i] < f[j]
    OBVIOUS
  <2>1. i \in Nat /\ j \in Nat
    OBVIOUS
  <2>2. Boundary(i) + R + D <= Boundary(j) /\ Boundary(i) \in Int /\ Boundary(j) \in Int
    BY <1>1, <2>1, BoundaryFacts
  <2> QED
    BY <1>1, <2>1, <2>2, Constants
<1>9. f[S] = lastLocal + Span
  <2>1. Boundary(S) = Span
    <3>1. PICK p \in Nat : p = R + D
      BY Constants
    <3>2. S * p = p * S
      OBVIOUS
    <3> QED
      BY <1>3, <3>1, <3>2 DEF Boundary, Span
  <2> QED
    BY <1>1, <1>4, <2>1, Constants
<1>10. lastGlobal <= reconfigure - R - D
  BY <1>4, Constants
<1>11. \A k \in 0..S : f[k] <= Boundary(k) /\ Boundary(k) <= f[k] + Behind
  BY <1>1, <1>6
<1>12. f[S] <= lastLocal + Span
  BY <1>4, <1>9, Constants
<1>13. SlotTable(0, f)
  BY <1>3, <1>5, <1>6, <1>7, <1>8, <1>10, <1>11, <1>12 DEF SlotTable
<1> QED
  BY <1>1, <1>13 DEF SlotInv

\* Reading the clock makes the table no worse.
LEMMA ReadingTable ==
  ASSUME NotFast, Running, TInv, GetLocalTime, NEW K \in Nat, NEW f \in [Nat -> Int],
         SlotTable(K, f), UNCHANGED slotVars
  PROVE  SlotTable(K, f)'
<1> PICK last : last = K + ScheduleSize - 1
  OBVIOUS
<1>1. last \in Nat /\ f[last] \in Int
  BY Constants
<1>2. /\ 0 <= Behind /\ reconfigure = Boundary(K + 1) - R
      /\ slots = {f[k] : k \in K..last}
      /\ \A i, j \in K..last : i < j => f[i] < f[j]
      /\ \A k \in K..last : f[k] <= Boundary(k) /\ Boundary(k) <= f[k] + Behind
      /\ f[last] <= lastLocal + Span
      /\ f[last] = lastLocal + Span => lastGlobal <= reconfigure - R - D
  BY DEF SlotTable
<1>3. Behind <= Behind' /\ Behind \in Int /\ Behind' \in Int
  BY BehindGrows DEF NotFast
<1>4. /\ lastGlobal' = now /\ lastLocal \in Int /\ lastLocal' \in Int /\ lastLocal <= lastLocal'
      /\ lastGlobal \in Nat /\ now \in Nat /\ lastGlobal <= now /\ lastLocal' = lastLocal + Elapsed
  BY ReadingFacts DEF Local
<1>5. slots' = slots /\ reconfigure' = reconfigure /\ Span \in Nat
  BY Constants DEF slotVars
<1>6. 0 <= Behind'
  BY <1>2, <1>3
<1>7. ASSUME NEW k \in K..last
      PROVE  f[k] <= Boundary(k) /\ Boundary(k) <= f[k] + Behind'
  <2>1. k \in Nat /\ f[k] \in Int /\ Boundary(k) \in Int
    BY <1>1, BoundaryFacts
  <2>2. PICK y \in Int : y = Behind'
    BY <1>3
  <2>3. PICK x \in Int : x = Behind
    BY <1>3
  <2>4. f[k] <= Boundary(k) /\ Boundary(k) <= f[k] + x /\ x <= y
    BY <1>2, <1>3, <2>2, <2>3
  <2>5. Boundary(k) <= f[k] + y
    BY <2>1, <2>4
  <2> QED
    BY <2>2, <2>4, <2>5
<1> PICK l : l = lastLocal'
  OBVIOUS
<1>8. f[last] <= l + Span
  <2>1. l \in Int /\ lastLocal <= l
    BY <1>4
  <2> QED
    BY <1>1, <1>2, <1>4, <1>5, <2>1
<1>9. ASSUME f[last] = l + Span
      PROVE  lastGlobal' <= reconfigure - R - D
  <2>1. l = lastLocal
    BY <1>1, <1>2, <1>4, <1>5, <1>9
  <2>2. Elapsed = 0
    <3>1. Elapsed \in Nat
      BY ElapsedIsNat DEF TInv
    <3> QED
      BY <1>4, <2>1, <3>1
  <2>3. ~(lastGlobal < now)
    BY <2>2, RunningClock DEF Running, TInv
  <2>4. lastGlobal' = lastGlobal
    BY <1>4, <2>3
  <2>5. lastGlobal <= reconfigure - R - D
    BY <1>2, <1>9, <2>1
  <2> QED
    BY <2>4, <2>5
<1>10. /\ 0 <= Behind' /\ reconfigure' = Boundary(K + 1) - R
       /\ slots' = {f[k] : k \in K..last}
       /\ \A i, j \in K..last : i < j => f[i] < f[j]
       /\ \A k \in K..last : f[k] <= Boundary(k) /\ Boundary(k) <= f[k] + Behind'
       /\ f[last] <= lastLocal' + Span
       /\ f[last] = lastLocal' + Span => lastGlobal' <= reconfigure' - R - D
  BY <1>2, <1>5, <1>6, <1>7, <1>8, <1>9
<1> QED
  BY <1>10 DEF SlotTable, Boundary, Span

\* The slots before K are gone, K + ScheduleSize is new.
LEMMA ReconfigureTable ==
  ASSUME NotFast, Running, TInv, SlotInv, ReconfigureStep
  PROVE  SlotInv'
<1>1. PICK K \in Nat, f \in [Nat -> Int] : SlotTable(K, f)
  BY DEF SlotInv
<1>2. PICK S \in Nat : ScheduleSize = S + 1
  <2>1. ScheduleSize - 1 \in Nat /\ ScheduleSize = (ScheduleSize - 1) + 1
    BY Constants
  <2> QED
    BY <2>1
<1>3. K + ScheduleSize - 1 = K + S /\ (K + 1) + ScheduleSize - 1 = K + ScheduleSize
  BY <1>2
<1> PICK new : new = K + ScheduleSize
  OBVIOUS
<1>4. new = K + S + 1 /\ new \in Nat /\ K + S \in Nat
  BY <1>2
<1>5. /\ 0 <= Behind /\ reconfigure = Boundary(K + 1) - R
      /\ slots = {f[k] : k \in K..(K + S)}
      /\ \A i, j \in K..(K + S) : i < j => f[i] < f[j]
      /\ \A k \in K..(K + S) : f[k] <= Boundary(k) /\ Boundary(k) <= f[k] + Behind
      /\ f[K + S] <= lastLocal + Span
      /\ f[K + S] = lastLocal + Span => lastGlobal <= reconfigure - R - D
  BY <1>1, <1>3 DEF SlotTable
<1>6. /\ reconfigure = now /\ reconfigure' = now + R + D /\ GetLocalTime /\ slots' = Moved
  BY DEF ReconfigureStep
<1>7. /\ lastGlobal' = now /\ lastLocal' = Local /\ lastLocal \in Int /\ lastLocal' \in Int
      /\ lastLocal <= Local /\ lastGlobal \in Nat /\ now \in Nat /\ lastGlobal <= now
      /\ Local \in Int
  BY <1>6, ReadingFacts
<1>8. PICK x \in Int : x = Local
  BY <1>7
<1>9. PICK p \in Nat : p = Span /\ p \in Nat
  BY Constants
<1>10. PICK g \in [Nat -> Int] : g = [f EXCEPT ![new] = x + p]
  <2>1. x + p \in Int
    BY <1>8, <1>9
  <2>2. [f EXCEPT ![new] = x + p] \in [Nat -> Int]
    BY <2>1
  <2> QED
    BY <2>2
<1>11. /\ g[new] = x + p
       /\ \A k \in K..(K + S) : g[k] = f[k]
  BY <1>4, <1>10
<1>12. Behind <= Behind' /\ Behind \in Int /\ Behind' \in Int /\ Behind' = now - x
  BY <1>6, <1>7, <1>8, BehindGrows DEF NotFast, Behind
<1>13. PICK b \in Int : b = Behind' /\ b = now - x /\ Behind <= b /\ 0 <= b
  <2>1. 0 <= now - x
    <3>1. PICK y \in Int : y = Behind
      BY <1>12
    <3>2. 0 <= y /\ y <= now - x
      BY <1>5, <1>12, <3>1
    <3> QED
      BY <1>7, <3>1, <3>2
  <2> QED
    BY <1>12, <2>1
\* The new slot is later than the last, because the clock has moved.
<1>14. f[K + S] < x + p
  <2>1. f[K + S] \in Int /\ f[K + S] <= lastLocal + p
    BY <1>4, <1>5, <1>9
  <2>2. CASE f[K + S] # lastLocal + p
    BY <1>7, <1>8, <2>1, <2>2
  <2>3. CASE f[K + S] = lastLocal + p
    <3>1. lastGlobal < now
      <4>1. lastGlobal <= now - R - D
        BY <1>5, <1>6, <1>9, <2>3
      <4> QED
        BY <1>7, <4>1, Constants
    <3>2. Elapsed > 0 /\ Elapsed \in Nat
      BY <3>1, RunningClock, ElapsedIsNat DEF Running, TInv
    <3>3. x > lastLocal
      BY <1>7, <1>8, <3>2 DEF Local
    <3> QED
      BY <1>7, <1>8, <2>1, <2>3, <3>3
  <2> QED
    BY <2>2, <2>3
<1>15. ASSUME NEW i \in (K + 1)..new, NEW j \in (K + 1)..new, i < j
       PROVE  g[i] < g[j]
  <2>1. i \in K..(K + S)
    BY <1>4, <1>15
  <2>2. CASE j \in K..(K + S)
    BY <1>5, <1>11, <1>15, <2>1, <2>2
  <2>3. CASE j = new
    <3>1. f[i] \in Int /\ f[K + S] \in Int
      BY <1>4, <2>1
    <3>2. f[i] < f[K + S] \/ i = K + S
      <4>1. K + S \in K..(K + S)
        BY <1>4
      <4>2. i < K + S \/ i = K + S
        BY <1>4, <2>1
      <4> QED
        BY <1>5, <2>1, <4>1, <4>2
    <3>3. f[i] < x + p
      BY <1>14, <3>1, <3>2
    <3> QED
      BY <1>11, <2>1, <2>3, <3>3
  <2> QED
    BY <1>4, <1>15, <2>2, <2>3
<1>16. EarliestOf(slots) = f[K]
  <2>1. f[K] \in slots /\ EarliestOf(slots) \in slots /\ EarliestOf(slots) <= f[K]
    <3>1. K \in K..(K + S)
      BY <1>4
    <3>2. f[K] \in slots
      BY <1>5, <3>1
    <3> QED
      BY <3>2, SlotsFacts
  <2>2. PICK k \in K..(K + S) : EarliestOf(slots) = f[k]
    BY <1>5, <2>1
  <2>3. k = K \/ K < k
    BY <2>2
  <2>4. K \in K..(K + S) /\ k \in Nat /\ f[k] \in Int /\ f[K] \in Int
    BY <1>4
  <2>5. ~(f[K] < f[k])
    BY <2>1, <2>2, <2>4
  <2> QED
    BY <1>5, <2>2, <2>3, <2>4, <2>5
<1>17. slots' = {g[k] : k \in (K + 1)..new}
  <2>1. Moved = (slots \ {f[K]}) \cup {x + p}
    BY <1>8, <1>9, <1>16 DEF Moved
  <2>2. ASSUME NEW k \in (K + 1)..new
        PROVE  g[k] \in Moved
    <3>1. CASE k = new
      BY <1>11, <2>1, <3>1
    <3>2. CASE k # new
      <4>1. k \in K..(K + S) /\ K \in K..(K + S) /\ K < k
        BY <1>4, <3>2
      <4>2. f[K] < f[k] /\ f[K] \in Int /\ f[k] \in Int /\ k \in Nat
        BY <1>5, <4>1
      <4>3. f[k] \in slots /\ f[k] # f[K]
        BY <1>5, <4>1, <4>2
      <4> QED
        BY <1>11, <2>1, <4>1, <4>3
    <3> QED
      BY <3>1, <3>2
  <2>3. ASSUME NEW s \in Moved
        PROVE  \E k \in (K + 1)..new : s = g[k]
    <3>1. CASE s = x + p
      <4>1. new \in (K + 1)..new
        BY <1>4
      <4> QED
        BY <1>11, <3>1, <4>1
    <3>2. CASE s # x + p
      <4>1. s \in slots /\ s # f[K]
        BY <2>1, <3>2
      <4>2. PICK k \in K..(K + S) : s = f[k]
        BY <1>5, <4>1
      <4>3. k \in (K + 1)..new
        BY <1>4, <4>1, <4>2
      <4> QED
        BY <1>11, <4>2, <4>3
    <3> QED
      BY <3>1, <3>2
  <2> QED
    BY <1>6, <2>2, <2>3
<1>18. Boundary(K + 1) = now + R /\ Boundary(K + 2) = now + R + R + D /\ Boundary(new) = now + p
  <2>1. /\ Boundary(K + 1) \in Int /\ Boundary((K + 1) + 1) = Boundary(K + 1) + R + D
        /\ (K + 1) + 1 = K + 2
    BY BoundaryFacts
  <2>2. Boundary(K + 1) - R = now
    BY <1>5, <1>6
  <2>3. Boundary(new) = Boundary(K + 1) - R + p
    BY <1>9, NewBoundary
  <2> QED
    BY <1>7, <2>1, <2>2, <2>3, Constants
<1>19. ASSUME NEW k \in (K + 1)..new
       PROVE  g[k] <= Boundary(k) /\ Boundary(k) <= g[k] + b
  <2>1. CASE k = new
    BY <1>7, <1>8, <1>9, <1>11, <1>13, <1>18, <2>1
  <2>2. CASE k # new
    <3>1. k \in K..(K + S) /\ k \in Nat
      BY <1>4, <2>2
    <3>2. PICK y \in Int : y = Behind
      BY <1>12
    <3>3. f[k] <= Boundary(k) /\ Boundary(k) <= f[k] + y /\ y <= b
      BY <1>5, <1>13, <3>1, <3>2
    <3>4. f[k] \in Int /\ Boundary(k) \in Int
      BY <3>1, BoundaryFacts
    <3>5. Boundary(k) <= f[k] + b
      BY <3>3, <3>4
    <3> QED
      BY <1>11, <3>1, <3>3, <3>5
  <2> QED
    BY <2>1, <2>2
<1>20. (K + 1) + 1 = K + 2 /\ (K + 1) + ScheduleSize - 1 = new /\ K + 1 \in Nat
  BY <1>3
<1>21. reconfigure' = Boundary((K + 1) + 1) - R
  BY <1>6, <1>7, <1>18, <1>20, Constants
<1>22. g[new] <= lastLocal' + Span /\ lastGlobal' <= reconfigure' - R - D
  <2>1. reconfigure' - R - D = now
    BY <1>6, <1>7, Constants
  <2> QED
    BY <1>7, <1>8, <1>9, <1>11, <2>1
<1>23. /\ 0 <= Behind' /\ reconfigure' = Boundary((K + 1) + 1) - R
       /\ slots' = {g[k] : k \in (K + 1)..((K + 1) + ScheduleSize - 1)}
       /\ \A i, j \in (K + 1)..((K + 1) + ScheduleSize - 1) : i < j => g[i] < g[j]
       /\ \A k \in (K + 1)..((K + 1) + ScheduleSize - 1) :
            g[k] <= Boundary(k) /\ Boundary(k) <= g[k] + Behind'
       /\ g[(K + 1) + ScheduleSize - 1] <= lastLocal' + Span
       /\ lastGlobal' <= reconfigure' - R - D
  BY <1>13, <1>15, <1>17, <1>19, <1>20, <1>21, <1>22
<1>24. SlotTable(K + 1, g)'
  BY <1>23 DEF SlotTable, Boundary, Span
<1> QED
  BY <1>20, <1>24 DEF SlotInv

\* A burst of length d planned for send, which leaves at the instant at, begins
\* after the reconfiguration or is over before it.
Spared(d, send, at, h) ==
  d + TotalPropagation <= R /\ d + TotalPropagation < D =>
    \A s \in Boundaries(h) : s - R <= at \/ send + d + TotalPropagation < s - R

LEMMA PlanSpared ==
  ASSUME NotFast, TInv, SlotInv, NEW m \in Message, NEW d \in Durations, NEW send \in Int,
         NEW at \in Int, NEW check \in Int, NEW h \in Int, PlanStep(m, d, send, at, check, h)
  PROVE  Spared(d, send, at, h)
<1> PICK total : total = d + TotalPropagation
  OBVIOUS
<1>1. /\ total \in Nat /\ d \in Nat /\ TotalPropagation \in Nat /\ R \in Nat /\ D \in Nat
      /\ now \in Nat /\ R > 0
  BY Constants, LimitType
<1> SUFFICES ASSUME total <= R, total < D, NEW n \in 0..MaxTime, Boundary(n) <= h
             PROVE  Boundary(n) - R <= at \/ send + total < Boundary(n) - R
  <2>1. send + d + TotalPropagation = send + total
    BY <1>1
  <2>2. \A s \in Boundaries(h) : \E n \in 0..MaxTime : s = Boundary(n) /\ Boundary(n) <= h
    BY DEF Boundaries, Boundary
  <2> QED
    BY <2>1, <2>2 DEF Spared
<1>2. PICK K \in Nat, f \in [Nat -> Int] : SlotTable(K, f)
  BY DEF SlotInv
<1>3. PICK S \in Nat : ScheduleSize = S + 1 /\ K + ScheduleSize - 1 = K + S
  <2>1. ScheduleSize - 1 \in Nat /\ ScheduleSize = (ScheduleSize - 1) + 1
        /\ K + ScheduleSize - 1 = K + (ScheduleSize - 1)
    BY Constants
  <2> QED
    BY <2>1
<1>4. /\ reconfigure = Boundary(K + 1) - R
      /\ slots = {f[k] : k \in K..(K + S)}
      /\ \A i, j \in K..(K + S) : i < j => f[i] < f[j]
      /\ \A k \in K..(K + S) : f[k] <= Boundary(k) /\ Boundary(k) <= f[k] + Behind
  BY <1>2, <1>3 DEF SlotTable
<1>5. /\ GetLocalTime /\ h = LatestOf(slots)
      /\ \/ send \in slots
         \/ \A s \in slots : send + total < s - R \/ s <= send + total
  <2>1. \A s : send + d + TotalPropagation = send + total
    BY <1>1
  <2> QED
    BY <2>1 DEF PlanStep, Uncut
<1>6. PICK b \in Int : b = Behind
  BY LimitType
<1>7. PICK c \in Int : c = Behind' /\ b <= c /\ at = send + c
  BY <1>5, <1>6, BehindGrows, PlanTimes DEF NotFast
<1>8. now <= at
  <2>1. PICK w : w = Turn * Backlog
    OBVIOUS
  <2>2. w \in Nat /\ now + PacketProcessing + PacketDelay + w <= at
    BY <2>1, TurnFacts, PlanTimes
  <2> QED
    BY <1>1, <2>2, Constants
<1>9. \A k \in K..(K + S) : /\ k \in Nat /\ f[k] \in Int /\ Boundary(k) \in Int /\ f[k] \in slots
                            /\ f[k] <= Boundary(k) /\ Boundary(k) <= f[k] + c
  <2> SUFFICES ASSUME NEW k \in K..(K + S)
               PROVE  /\ k \in Nat /\ f[k] \in Int /\ Boundary(k) \in Int /\ f[k] \in slots
                      /\ f[k] <= Boundary(k) /\ Boundary(k) <= f[k] + c
    OBVIOUS
  <2>1. k \in Nat
    OBVIOUS
  <2>2. f[k] \in Int /\ Boundary(k) \in Int /\ f[k] \in slots
    BY <1>4, <2>1, BoundaryFacts
  <2>3. f[k] <= Boundary(k) /\ Boundary(k) <= f[k] + b
    BY <1>4, <1>6
  <2>4. Boundary(k) <= f[k] + c
    BY <1>7, <2>2, <2>3
  <2> QED
    BY <2>1, <2>2, <2>3, <2>4
<1>10. n \in Nat /\ Boundary(n) \in Int
  BY BoundaryFacts, ClockAssumption
\* Timeslots that are over.
<1>11. CASE n < K
  <2>1. /\ Boundary(n) + R + D <= Boundary(K) /\ Boundary(K) \in Int
        /\ Boundary(K + 1) = Boundary(K) + R + D
    BY <1>10, <1>11, BoundaryFacts
  <2>2. reconfigure <= now + R + D
    BY DEF TInv, Timely
  <2>3. PICK y \in Int : y = Boundary(K)
    BY <2>1
  <2>4. Boundary(K + 1) - R <= now + R + D /\ Boundary(K + 1) = y + R + D
    BY <1>4, <2>1, <2>2, <2>3
  <2>5. y <= now + R
    BY <1>1, <2>4
  <2>6. Boundary(n) + R + D <= y
    BY <2>1, <2>3
  <2>7. Boundary(n) <= now
    BY <1>1, <1>10, <2>5, <2>6
  <2> QED
    BY <1>1, <1>8, <1>10, <2>7
\* Timeslots that the device does not know.
<1>12. CASE K + S < n
  <2>1. K + S \in K..(K + S) /\ K + S \in Nat
    OBVIOUS
  <2>2. Boundary(K + S) + R + D <= Boundary(n) /\ Boundary(K + S) \in Int
    BY <1>10, <1>12, <2>1, BoundaryFacts
  <2>3. PICK k \in K..(K + S) : h = f[k]
    BY <1>4, <1>5, SlotsFacts
  <2>4. h <= f[K + S]
    <3>1. k < K + S \/ k = K + S
      OBVIOUS
    <3>2. f[k] <= f[K + S]
      BY <1>4, <1>9, <2>1, <3>1
    <3> QED
      BY <2>3, <3>2
  <2>5. f[K + S] <= Boundary(K + S) /\ f[K + S] \in Int
    BY <1>9, <2>1
  <2>6. FALSE
    BY <1>1, <1>10, <2>2, <2>4, <2>5
  <2> QED
    BY <2>6
<1>13. CASE n \in K..(K + S)
  <2>1. f[n] \in Int /\ f[n] \in slots /\ f[n] <= Boundary(n) /\ Boundary(n) <= f[n] + c
    BY <1>9, <1>13
\* The burst waits for a timeslot, this one or a later one or an earlier one.
  <2>2. CASE send \in slots
    <3>1. PICK k \in K..(K + S) : send = f[k]
      BY <1>4, <2>2
    <3>2. /\ k \in Nat /\ Boundary(k) \in Int /\ send <= Boundary(k) /\ Boundary(k) <= send + c
      BY <1>9, <3>1
    <3>3. CASE n = k
      BY <1>1, <1>7, <3>2, <3>3
    <3>4. CASE n < k
      <4>1. Boundary(n) + R + D <= Boundary(k)
        BY <1>10, <3>2, <3>4, BoundaryFacts
      <4> QED
        BY <1>1, <1>7, <1>10, <3>2, <4>1
    <3>5. CASE k < n
      <4>1. Boundary(k) + R + D <= Boundary(n)
        BY <1>10, <3>2, <3>5, BoundaryFacts
      <4> QED
        BY <1>1, <1>10, <3>2, <4>1
    <3> QED
      BY <1>10, <3>2, <3>3, <3>4, <3>5
  <2>3. CASE send + total < f[n] - R
    BY <1>1, <1>10, <2>1, <2>3
  <2>4. CASE f[n] <= send + total
    BY <1>1, <1>7, <1>10, <2>1, <2>4
  <2> QED
    BY <1>5, <2>1, <2>2, <2>3, <2>4
<1> QED
  BY <1>10, <1>11, <1>12, <1>13

CutInv ==
  /\ SlotInv
  /\ \A t \in DataTimers : Spared(duration[t.msg], t.send, t.at, t.horizon)
  /\ \A b \in left : Spared(duration[b.msg], b.send, b.at, b.horizon)

LEMMA StepSlots == NotFast /\ Running /\ TInv /\ SlotInv /\ [Next]_vars => SlotInv'
<1> SUFFICES ASSUME NotFast, Running, TInv, SlotInv, [Next]_vars PROVE SlotInv'
  OBVIOUS
<1>0. PICK K \in Nat, f \in [Nat -> Int] : SlotTable(K, f)
  BY DEF SlotInv
<1>1. ASSUME GetLocalTime, UNCHANGED slotVars PROVE SlotInv'
  BY <1>0, <1>1, ReadingTable DEF SlotInv
<1>2. ASSUME UNCHANGED <<lastGlobal, lastLocal, slotVars>> PROVE SlotInv'
  <2>1. SlotTable(K, f)'
    BY <1>0, <1>2 DEF SlotTable, Behind, Boundary, Span, slotVars
  <2> QED
    BY <2>1 DEF SlotInv
<1>3. ASSUME Plans PROVE SlotInv'
  BY <1>1, <1>3 DEF Plans, PlanStep
<1>4. ASSUME NEW m \in Message, NEW d \in Durations, Send(m, d) PROVE SlotInv'
  BY <1>3, <1>4, SendPlans
<1>5. ASSUME NEW m \in Message, ReceiveNACK(m) PROVE SlotInv'
  BY <1>3, <1>5, ReceiveNACKPlans
<1>6. ASSUME NEW m \in Message, ReceiveAWK(m) PROVE SlotInv'
  BY <1>2, <1>6 DEF ReceiveAWK, clockVars
<1>7. CASE CheckSent
  <2>1. CASE ~Plans
    <3>1. UNCHANGED <<clockVars, slotVars>>
      BY <1>7, <2>1, CheckSentPlans
    <3> QED
      BY <1>2, <3>1 DEF clockVars
  <2> QED
    BY <1>3, <2>1
<1>8. CASE SendCTRL
  BY <1>1, <1>8 DEF SendCTRL
<1>9. CASE BeginReconfigure
  BY <1>9, ReconfigureFacts, ReconfigureTable
<1>10. CASE TransmitStart \/ ControlTransmitComplete \/ DataTransmitStart \/ DataTransmitComplete
  BY <1>2, <1>10
     DEF TransmitStart, ControlTransmitComplete, DataTransmitStart, DataTransmitComplete, clockVars
<1>11. CASE Advance
  BY <1>2, <1>11 DEF Advance, Tick
<1>12. CASE UNCHANGED vars
  BY <1>2, <1>12 DEF vars, clockVars
<1> QED
  BY <1>4, <1>5, <1>6, <1>7, <1>8, <1>9, <1>10, <1>11, <1>12 DEF Next

LEMMA KeepsCut ==
  ASSUME CutInv, SlotInv', left' = left, timers' \subseteq timers, duration' = duration
  PROVE  CutInv'
BY DEF CutInv, DataTimers, Spared, Boundaries

LEMMA PlanCut == NotFast /\ TInv /\ CutInv /\ SlotInv' /\ Plans => CutInv'
<1> SUFFICES ASSUME NotFast, TInv, CutInv, SlotInv', NEW m \in Message, NEW d \in Durations,
                    NEW send \in Int, NEW at \in Int, NEW check \in Int, NEW h \in Int,
                    PlanStep(m, d, send, at, check, h)
             PROVE  CutInv'
  BY DEF Plans
<1>1. /\ left' = left /\ duration' = [duration EXCEPT ![m] = d]
      /\ duration[m] = None \/ duration[m] = d
      /\ timers' \subseteq timers \cup {DataTimer(m, send, at, h), CheckTimer(m, send, check, h)}
  BY DEF PlanStep, Rest
<1>2. \A k \in Message : duration[k] # None => duration'[k] = duration[k]
  BY <1>1 DEF TInv, TypeOK
<1>3. duration'[m] = d
  BY <1>1 DEF TInv, TypeOK
<1>4. ASSUME NEW t \in DataTimers'
      PROVE  Spared(duration'[t.msg], t.send, t.at, t.horizon)
  <2>1. CASE t \in timers
    <3>1. t \in DataTimers /\ t.msg \in Message /\ duration[t.msg] # None
      BY <2>1, TimerFields DEF DataTimers, TInv, Known
    <3>2. duration'[t.msg] = duration[t.msg]
      BY <1>2, <3>1
    <3> QED
      BY <3>1, <3>2 DEF CutInv
  <2>2. CASE t \notin timers
    <3>1. t = DataTimer(m, send, at, h)
      BY <1>1, <2>2 DEF DataTimers, CheckTimer
    <3>2. t.msg = m /\ t.send = send /\ t.at = at /\ t.horizon = h
      BY <3>1 DEF DataTimer
    <3>3. Spared(d, send, at, h)
      BY PlanSpared DEF CutInv
    <3> QED
      BY <1>3, <3>2, <3>3
  <2> QED
    BY <2>1, <2>2
<1>5. ASSUME NEW b \in left
      PROVE  Spared(duration'[b.msg], b.send, b.at, b.horizon)
  <2>1. b.msg \in Message /\ duration[b.msg] # None
    BY DEF TInv, TypeOK, Left, Known
  <2>2. duration'[b.msg] = duration[b.msg]
    BY <1>2, <2>1
  <2> QED
    BY <2>2 DEF CutInv
<1> QED
  BY <1>1, <1>4, <1>5 DEF CutInv, Spared, Boundaries

LEMMA DataCut == CutInv /\ SlotInv' /\ TInv /\ DataTransmitStart => CutInv'
<1> SUFFICES ASSUME CutInv, SlotInv', NEW t \in timers, DataStep(t) PROVE CutInv'
  BY DataTransmitStartStep
<1>1. /\ t \in DataTimers /\ t.at = now /\ timers' \subseteq timers /\ duration' = duration
  BY DEF DataStep, DataTimers
<1> PICK new : new = [msg |-> t.msg, send |-> t.send, at |-> now, horizon |-> t.horizon]
  OBVIOUS
<1>2. Spared(duration[new.msg], new.send, new.at, new.horizon)
  BY <1>1 DEF CutInv
<1>3. left' \subseteq left \cup {new}
  BY DEF DataStep
<1> QED
  BY <1>1, <1>2, <1>3 DEF CutInv, DataTimers, Spared, Boundaries

LEMMA StepCut == NotFast /\ Running /\ TInv /\ CutInv /\ [Next]_vars => CutInv'
<1> SUFFICES ASSUME NotFast, Running, TInv, CutInv, [Next]_vars PROVE CutInv'
  OBVIOUS
<1>0. SlotInv'
  BY StepSlots DEF CutInv
<1>1. ASSUME NEW m \in Message, NEW d \in Durations, Send(m, d) PROVE CutInv'
  BY <1>0, <1>1, SendPlans, PlanCut
<1>2. ASSUME NEW m \in Message, ReceiveNACK(m) PROVE CutInv'
  BY <1>0, <1>2, ReceiveNACKPlans, PlanCut
<1>3. ASSUME NEW m \in Message, ReceiveAWK(m) PROVE CutInv'
  BY <1>0, <1>3, KeepsCut DEF ReceiveAWK
<1>4. CASE CheckSent
  BY <1>0, <1>4, CheckSentPlans, PlanCut, KeepsCut
<1>5. CASE SendCTRL \/ BeginReconfigure \/ TransmitStart
  BY <1>0, <1>5, KeepsCut DEF SendCTRL, BeginReconfigure, TransmitStart, messageVars
<1>6. CASE ControlTransmitComplete \/ DataTransmitComplete \/ Advance \/ UNCHANGED vars
  BY <1>0, <1>6, KeepsCut
     DEF ControlTransmitComplete, DataTransmitComplete, Advance, vars, messageVars
<1> QED
  BY <1>0, <1>1, <1>2, <1>3, <1>4, <1>5, <1>6, DataCut DEF Next

\* No burst is cut by a reconfiguration its sender knew of, when the clock of the
\* sender is not fast, and not so slow that it stands still.
THEOREM NoneCutOffHolds ==
  ASSUME NotFast, Running
  PROVE  Spec => []NoneCutOff
<1>1. Init => CutInv
  BY InitSlots DEF Init, CutInv, DataTimers
<1>2. TInv /\ CutInv /\ [Next]_vars => CutInv'
  BY StepCut
<1>3. TInv /\ CutInv => NoneCutOff
  <2> SUFFICES ASSUME TInv, CutInv, NEW b \in left, NEW total, total = duration[b.msg] + TotalPropagation,
                      NEW behind, behind = b.at - b.send, total <= R, total < D,
                      NEW s \in Boundaries(b.horizon)
               PROVE  b.at >= s - R \/ b.at + total < s - R + behind
    BY DEF NoneCutOff
  <2>1. b.msg \in Message /\ b.at \in Nat /\ b.send \in Int /\ duration[b.msg] # None
    BY DEF TInv, TypeOK, Left, Known
  <2>2. duration[b.msg] \in Nat /\ TotalPropagation \in Nat /\ R \in Nat
    BY <2>1, KnownDuration, Constants
  <2>3. s \in Int
    <3>1. PICK n \in 0..MaxTime : s = Boundary(n)
      BY DEF Boundaries, Boundary
    <3> QED
      BY <3>1, BoundaryFacts, ClockAssumption
  <2>4. s - R <= b.at \/ b.send + duration[b.msg] + TotalPropagation < s - R
    BY DEF CutInv, Spared
  <2>5. b.send + duration[b.msg] + TotalPropagation = b.send + total /\ total \in Nat
    BY <2>1, <2>2
  <2>6. CASE s - R <= b.at
    BY <2>1, <2>2, <2>3, <2>6
  <2>7. CASE b.send + total < s - R
    BY <2>1, <2>2, <2>3, <2>5, <2>7
  <2> QED
    BY <2>4, <2>5, <2>6, <2>7
<1> QED
  BY <1>1, <1>2, <1>3, TimingInvariant, PTL DEF Spec
=============================================================================
