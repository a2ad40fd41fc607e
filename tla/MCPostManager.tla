--------------------------- MODULE MCPostManager ---------------------------
(* Instances of PostManager for TLC.                                       *)
EXTENDS PostManager
===========================================================================
