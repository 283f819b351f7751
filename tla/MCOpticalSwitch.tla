--------------------------- MODULE MCOpticalSwitch ---------------------------
(***************************************************************************)
(* Three devices, one channel, two slots known ahead.  The devices are     *)
(* interchangeable, and so are the ids.                                    *)
(***************************************************************************)
EXTENDS OpticalSwitch

Symmetry == Permutations(Dev) \cup Permutations(Id)
=============================================================================
