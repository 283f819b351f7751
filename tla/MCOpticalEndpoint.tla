-------------------------- MODULE MCOpticalEndpoint --------------------------
(***************************************************************************)
(* Two messages with room for all ids, or an id space that wraps, which    *)
(* stands for the 2^16 ids of the code.                                    *)
(***************************************************************************)
EXTENDS OpticalEndpoint
=============================================================================
