--------------------------- MODULE MCInstallation ---------------------------
(***************************************************************************)
(* Two endpoints and a switch between them: the switch has two optical     *)
(* devices and a loopback device before, between or after them.            *)
(***************************************************************************)
EXTENDS Installation

CONSTANTS a, b, s

MCLinks == {<<a, s>>, <<s, b>>}
=============================================================================
