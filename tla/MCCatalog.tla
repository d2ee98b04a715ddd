------------------------------ MODULE MCCatalog ------------------------------
(* A username that is registered as a seller or as a buyer, a login, a       *)
(* refresh, and calls on any route.                                          *)
EXTENDS Catalog, TLC

MCNameOf == [r \in Registers \cup Logins |-> "ann"]
MCRoleOf == [r \in Registers |-> IF r = "register1" THEN "SELLER" ELSE "USER"]
CallSymmetry == Permutations(Calls)
=============================================================================
