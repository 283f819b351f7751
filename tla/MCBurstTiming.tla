--------------------------- MODULE MCBurstTiming ---------------------------
(***************************************************************************)
(* A few messages of two lengths over two timeslots; the values are those  *)
(* of the test suite scaled down to a few instants.                        *)
(***************************************************************************)
EXTENDS BurstTiming

\* A clock that loses two parts in five: cfg files know no negative numbers.
MCSkew == -2
=============================================================================
