-------------------------- MODULE MCPeeringDBSync --------------------------
(* PeeringDBSync on small instances. *)
EXTENDS PeeringDBSync, TLC

\* Each port is in a LAN of its own.
OwnLan == [p \in Ports |-> p]

PeeringDBSymmetry ==
    Permutations(Networks) \cup Permutations(Ports) \cup Permutations(Addresses)
        \cup Permutations(Connections) \cup Permutations(Runs)

=============================================================================
