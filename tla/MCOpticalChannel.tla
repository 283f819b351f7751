--------------------------- MODULE MCOpticalChannel ---------------------------
(***************************************************************************)
(* Four packets, one of them marked before it enters, on one of two        *)
(* channels, between an endpoint and a switch.  Those that enter intact    *)
(* are interchangeable, and so are the channels.                           *)
(***************************************************************************)
EXTENDS OpticalChannel, TLC

Symmetry == Permutations(Packet \ Spoilt) \cup Permutations(Channel)
=============================================================================
