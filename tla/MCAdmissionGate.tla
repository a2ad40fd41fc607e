-------------------------- MODULE MCAdmissionGate --------------------------
(* Instances of AdmissionGate for TLC.  Identity "book" names no user;     *)
(* keys "fills1" and "fills2" share an identity of user "alice"; "funding"   *)
(* is an identity of user "bob".                                           *)
EXTENDS AdmissionGate

MCIdentityOf == [r \in RegistryKey |->
    IF r \in {"fills1", "fills2"} THEN "fills" ELSE r]
MCUserOf == [i \in Identity |->
    CASE i = "book" -> NoUser [] i = "funding" -> "bob" [] OTHER -> "alice"]
===========================================================================
