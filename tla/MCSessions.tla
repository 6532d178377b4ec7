----------------------------- MODULE MCSessions -----------------------------
(* Small instances of Sessions for TLC. *)
EXTENDS Sessions

\* What can be asked for over the network; locks have no endpoint, and the
\* seeding job asks nobody.
EndpointOperations == {"assign", "remove", "delete", "register", "oauth"}
=============================================================================
