----------------------------- MODULE MCEndpoint -----------------------------
(* Endpoint with the constants of the runs: the descriptors of one object, *)
(* of what it accepts and of what failed calls leave, and two addresses.   *)
EXTENDS Endpoint, TLC

(* The ways of use that endpoint_life explores, each by itself.            *)
Lives == {{"retry", "addresses", "fork"}, {"reopen"}, {"unix", "reopen"},
          {"unix", "busy", "retry", "share", "fork"}, {"unix", "rebind"}}

(* Clients of AF_UNIX listeners whose queues fill up.                      *)
Crowded == {{"unix", "busy"}}

(* Descriptors are interchangeable, and so are addresses.                  *)
Interchangeable == Permutations(Fds) \cup Permutations(Addrs)
=============================================================================
