---------------------------- MODULE MCEndpoints -----------------------------
(* Hosts and interfaces for TLC.                                           *)
EXTENDS Endpoints, TLC

Loopback == [name |-> "lo", ip |-> "127.0.0.1", family |-> "inet"]
Ethernet == [name |-> "eth0", ip |-> "10.0.0.1", family |-> "inet"]
LinkOnly == [name |-> "eth0", ip |-> "", family |-> "inet6"]
Hosts == {<<>>, <<Loopback, LinkOnly, Ethernet>>}
Interfaces == {"", "*", "localhost", "eth0"}
Symmetry == Permutations(UUID) \cup Permutations(Endpoint)
=============================================================================
