------------------------ MODULE MCConnectionManager ------------------------
(* Instances of ConnectionManager for TLC.  Handles h1 and h3 replace each *)
(* other under one key, h2 is a second logical handle of their identity    *)
(* with a wire form of its own, h4 is an unrelated subscription.           *)
EXTENDS ConnectionManager

MCKeyOf == [h \in Handle |->
    CASE h \in {"h1", "h3"} -> "k1" [] h = "h2" -> "k2" [] OTHER -> "k4"]
MCIdentityOf == [h \in Handle |-> IF h = "h4" THEN "b" ELSE "a"]
MCWireOf == [h \in Handle |-> IF h = "h2" THEN "variant" ELSE "canonical"]
===========================================================================
