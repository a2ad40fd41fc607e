------------------------- MODULE MCClientShutdown -------------------------
(* Instances of ClientShutdown for TLC.                                    *)
EXTENDS ClientShutdown
===========================================================================
