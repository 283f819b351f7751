---------------------------- MODULE MCOpticalPath ----------------------------
(***************************************************************************)
(* A switch with three endpoints: one with two messages, one with one,     *)
(* and one that only receives.  As in the code an id has the sender in it. *)
(* Fibres of one length, or one that is longer; packets of one size, or one *)
(* that is longer.                                                         *)
(***************************************************************************)
EXTENDS OpticalPath

CONSTANTS d1, d2, d3

MCDev == {d1, d2, d3}
MCId == {<<d1, 1>>, <<d1, 2>>, <<d2, 1>>}
Alike == [d \in MCDev |-> 1]
Longer == [d \in MCDev |-> IF d = d2 THEN 2 ELSE 0]
Short == [id \in MCId |-> 1]
Mixed == [id \in MCId |-> IF id = <<d2, 1>> THEN 3 ELSE 1]
=============================================================================
