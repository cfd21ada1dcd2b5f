--------------------------- MODULE MCAdministration ---------------------------
(* A gateway that exists and a user yet to be created.                     *)
EXTENDS Administration

MCResourceOf(r) == CASE r = "g1" -> "gateways" [] r = "u1" -> "users"
=============================================================================
