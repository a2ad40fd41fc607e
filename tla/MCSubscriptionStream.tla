----------------------- MODULE MCSubscriptionStream -----------------------
(* Instances of SubscriptionStream for TLC.                                *)
EXTENDS SubscriptionStream
===========================================================================
