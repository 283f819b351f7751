------------------------------- MODULE TimeNode -------------------------------
(***************************************************************************)
(* The clock of a node (model/time-node.cc), which runs at a rate of its   *)
(* own: m_skew parts per million more than the clock of the simulator.     *)
(*                                                                         *)
(* GetLocalTime adds the time since the last reading, with its share of    *)
(* skew, to that reading.  Both are whole nanoseconds: the skew of each    *)
(* interval is rounded, so that what the clock shows depends on how often  *)
(* it is read.  The devices of the node read it at every message they plan *)
(* and at every reconfiguration.                                           *)
(***************************************************************************)
EXTENDS Integers

CONSTANTS
  Unit,     \* the skew is in parts per Unit: 10^6 in the code
  Skew,     \* m_skew
  Settings, \* times SetLocalTime is called with
  MaxReads, \* bound: readings since the clock was set
  MaxTime   \* bound: the simulator's clock

ASSUME ClockAssumption ==
  /\ Unit \in Nat \ {0}
  /\ Skew \in Int /\ -Unit <= Skew
  /\ Settings \subseteq Int
  /\ MaxReads \in Nat /\ MaxTime \in Nat

VARIABLES
  now,        \* Simulator::Now()
  lastGlobal, \* m_lastGlobal
  lastLocal,  \* m_lastLocal
  setGlobal,  \* history: when the clock was set, or the node constructed
  setLocal,   \* history: what it was set to
  reads       \* history: readings since then

clockVars == <<now, lastGlobal, lastLocal, setGlobal, setLocal, reads>>

-----------------------------------------------------------------------------
\* x / Unit to the nearest integer, halves away from zero: what ns-3 makes of
\* a Time multiplied by a real.
Rounded(x) ==
  IF x >= 0 THEN (2 * x + Unit) \div (2 * Unit) ELSE -((Unit - 2 * x) \div (2 * Unit))

\* What the clock gains since the last reading.
Elapsed == (now - lastGlobal) + Rounded((now - lastGlobal) * Skew)

\* Mutant of GetLocalTime: m_lastGlobal is not moved.
GetLocalTimeTwice ==
  /\ reads < MaxReads
  /\ lastLocal' = lastLocal + Elapsed
  /\ reads' = reads + 1
  /\ UNCHANGED <<now, lastGlobal, setGlobal, setLocal>>

GetLocalTime ==
  /\ reads < MaxReads
  /\ lastLocal' = lastLocal + Elapsed
  /\ lastGlobal' = now
  /\ reads' = reads + 1
  /\ UNCHANGED <<now, setGlobal, setLocal>>

SetLocalTime(time) ==
  /\ lastLocal' = time
  /\ lastGlobal' = now
  /\ setLocal' = time /\ setGlobal' = now /\ reads' = 0
  /\ UNCHANGED now

Tick ==
  /\ now < MaxTime
  /\ now' = now + 1
  /\ UNCHANGED <<lastGlobal, lastLocal, setGlobal, setLocal, reads>>

\* The constructor.
ClockInit ==
  /\ now \in 0..MaxTime
  /\ lastGlobal = now /\ lastLocal = now
  /\ setGlobal = now /\ setLocal = now
  /\ reads = 0

ClockNext ==
  \/ GetLocalTime
  \/ \E time \in Settings : SetLocalTime(time)
  \/ Tick

ClockSpec == ClockInit /\ [][ClockNext]_clockVars

-----------------------------------------------------------------------------
(***************************************************************************)
(* Properties.                                                             *)
(***************************************************************************)
ClockTypeOK ==
  /\ now \in Nat /\ lastGlobal \in Nat /\ setGlobal \in Nat
  /\ setGlobal <= lastGlobal /\ lastGlobal <= now
  /\ lastLocal \in Int /\ setLocal \in Int
  /\ reads \in 0..MaxReads

\* Unit times the error of the last reading: what it shows less what a clock of
\* that rate, set at the same time, would.
Error == Unit * (lastLocal - setLocal) - (Unit + Skew) * (lastGlobal - setGlobal)

\* The error grows by at most half a nanosecond with every reading: rounding is
\* the only source of it, and no interval is counted twice or left out.
ErrorBounded ==
  /\ 2 * Error <= Unit * reads
  /\ -(Unit * reads) <= 2 * Error

\* Between two settings the clock never goes back, whatever the sign of the skew.
NeverBack == [][<<setGlobal, setLocal>>' = <<setGlobal, setLocal>> => lastLocal' >= lastLocal]_clockVars

=============================================================================
