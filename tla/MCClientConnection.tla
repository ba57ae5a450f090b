------------------------ MODULE MCClientConnection ------------------------
(* ClientTarget for TLC: the printers are alike.                           *)
EXTENDS ClientTarget, TLC

Printers == Permutations(Devices)
===========================================================================
