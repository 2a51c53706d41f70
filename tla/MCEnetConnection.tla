------------------------- MODULE MCEnetConnection -------------------------
(* EnetConnection for TLC.  All constants are numbers.                     *)
EXTENDS EnetConnection
=============================================================================
